-------------------------- MODULE SchedulerProofs --------------------------
(***************************************************************************)
(* The scheduler's invariants hold for any number of desks and threads.    *)
(* Their conjunction is inductive: that a thread parks itself and not a    *)
(* neighbour (OneRunner) needs the desks to be held by the right threads   *)
(* (AbsentMeansFree), and that silence needs a dead desk needs OneRunner.  *)
(*                                                                         *)
(* The steps of the client that runs on it are the scheduler's, so the     *)
(* same holds for the client; and no pointer the client keeps between two  *)
(* handlers names what was deleted.                                        *)
(*                                                                         *)
(* As long as no thread that has returned is run again, the client keeps   *)
(* its promises about who connects, too.  They are proved together with    *)
(* where the CPU can go next (CInv): Disconnect ends the attempt it finds  *)
(* only because that one is not in the desk g_current_threadId still names *)
(* while the loop runs.                                                    *)
(***************************************************************************)
EXTENDS ClientModule, SequenceLemmas, TLAPS


IInv ==
  /\ TypeOK
  /\ OneRunner
  /\ AbsentMeansFree
  /\ OwnFrames
  /\ StartIsPosted
  /\ SilentOnlyAfterReturn

\* Neither the loop nor the SDK has the id of a desk.
LEMMA IdsFacts ==
  /\ LOOP \notin Ids /\ SDK \notin Ids /\ LOOP # SDK
  /\ Ids \subseteq Nat
  /\ THREAD_START_ID \in Ids
BY DeskAssumption DEF Ids, LOOP, SDK, THREAD_START_ID

LEMMA InitIInv == Init => IInv
BY IdsFacts, ThreadAssumption
DEF Init, IInv, TypeOK, OneRunner, AbsentMeansFree, OwnFrames, StartIsPosted,
    SilentOnlyAfterReturn, Silent, CurrentGone, DeskState

\* A context that goes down leaves everything the invariant speaks of alone,
\* but for the mode.
LEMMA GoDownIInv ==
  ASSUME IInv, NEW how \in {"panic", "fault"}, GoDown(how), ctx # SDK \/ waits # {},
         waits' \in SUBSET (Ids \cup {LOOP}), UNCHANGED loopVars
  PROVE  IInv'
BY IdsFacts
DEF IInv, TypeOK, OneRunner, AbsentMeansFree, OwnFrames, StartIsPosted,
    SilentOnlyAfterReturn, Silent, CurrentGone, GoDown, deskVars, loopVars

LEMMA BlockIInv ==
  ASSUME IInv, NEW s \in {"SUSPENDED", "DELAYED"}, NEW now \in SUBSET Ids,
         ctx # SDK, mode = "up", Block(current, s, now),
         waits' \in SUBSET (Ids \cup {LOOP}), UNCHANGED loopVars
  PROVE  IInv'
<1> USE IdsFacts
<1>1. CASE current \in Ids /\ owner[current] = NoThread
  BY <1>1, GoDownIInv DEF Block
<1>2. CASE ~(current \in Ids /\ owner[current] = NoThread)
  <2>1. PICK n \in Ids \cup {LOOP} :
          posted' = posted \cup {n} /\ current' = IF n = LOOP THEN LOOP ELSE current
    BY <1>2 DEF Block, HandOver, EtsPost
  <2>2. /\ desk' = IF current \in Ids THEN [desk EXCEPT ![current] = s] ELSE desk
        /\ tstate' = IF current \in Ids THEN [tstate EXCEPT ![owner[current]] = s]
                                        ELSE tstate
        /\ due' = now
        /\ ctx' = IF ctx = current THEN SDK ELSE ctx
        /\ UNCHANGED <<owner, frames, heap, mode, loopVars>>
    BY <1>2 DEF Block, Yield
  <2>3. s \in DeskState /\ s \notin {"ABSENT", "RUNNING", "CREATED"}
    BY DEF DeskState
  <2>4. TypeOK'
    BY <2>1, <2>2, <2>3 DEF IInv, TypeOK, loopVars
  <2>5. OneRunner'
    BY <2>1, <2>2, <2>3 DEF IInv, TypeOK, OneRunner
  <2>6. AbsentMeansFree'
    BY <1>2, <2>2, <2>3 DEF IInv, TypeOK, AbsentMeansFree
  <2>7. OwnFrames'
    BY <2>2 DEF IInv, OwnFrames
  <2>8. StartIsPosted'
    BY <2>1, <2>2, <2>3 DEF IInv, TypeOK, StartIsPosted
  <2>9. SilentOnlyAfterReturn'
    BY <2>1 DEF SilentOnlyAfterReturn, Silent
  <2> QED  BY <2>4, <2>5, <2>6, <2>7, <2>8, <2>9 DEF IInv
<1> QED  BY <1>1, <1>2

----------------------------------------------------------------------------
(***************************************************************************)
(* The loop and the threads.                                               *)
(***************************************************************************)

LEMMA WaitIInv ==
  ASSUME IInv, NEW c \in Ids \cup {LOOP},
         WaitForSocket(c) \/ WaitForName(c) \/ WaitForTime(c)
  PROVE  IInv'
<1>1. ctx = c /\ mode = "up" /\ ctx # SDK
  BY IdsFacts DEF WaitForSocket, WaitForName, WaitForTime, Executing
<1>2. due \in SUBSET Ids /\ due \ {current} \in SUBSET Ids
  BY DEF IInv, TypeOK
<1>3. /\ waits' \in SUBSET (Ids \cup {LOOP})
      /\ UNCHANGED loopVars
  BY DEF WaitForSocket, WaitForName, WaitForTime, IInv, TypeOK
<1>4. \/ Block(current, "SUSPENDED", due)
      \/ Block(current, "DELAYED", due \ {current})
  BY DEF WaitForSocket, WaitForName, WaitForTime, SuspendThread, DelayThread
<1> QED  BY <1>1, <1>2, <1>3, <1>4, BlockIInv

LEMMA StartIInv ==
  ASSUME IInv, NEW c \in Ids \cup {LOOP}, NEW t \in Threads, Start(c, t)
  PROVE  IInv'
<1> USE IdsFacts
<1>1. /\ ctx = c /\ c # SDK /\ mode = "up" /\ t \notin heap
      /\ UNCHANGED <<loopVars, waits>>
  BY DEF Start, Executing, StartThread
<1>2. CASE \A i \in Ids : desk[i] # "ABSENT"
  <2>1. waits' \in SUBSET (Ids \cup {LOOP}) /\ UNCHANGED loopVars
    BY <1>1 DEF IInv, TypeOK
  <2> QED  BY <1>1, <1>2, <2>1, GoDownIInv DEF Start, StartThread
<1>3. CASE ~ \A i \in Ids : desk[i] # "ABSENT"
  <2>1. PICK i \in Ids :
          /\ desk[i] = "ABSENT"
          /\ frames' = [frames EXCEPT ![i] = NoThread]
          /\ posted' = posted \cup {i}
          /\ desk' = [desk EXCEPT ![i] = "CREATED"]
          /\ owner' = [owner EXCEPT ![i] = t]
          /\ tstate' = [tstate EXCEPT ![t] = "CREATED"]
          /\ heap' = heap \cup {t}
          /\ UNCHANGED <<due, current, ctx, mode>>
    BY <1>3 DEF Start, StartThread, FirstAbsent, FreshStack, EtsPost
  <2>2. \A j \in Ids : owner[j] # t
    <3>1. \A j \in Ids : owner[j] \in heap \cup {NoThread}
      BY DEF IInv, AbsentMeansFree
    <3>2. t # NoThread
      BY ThreadAssumption
    <3> QED  BY <1>1, <3>1, <3>2
  <2>3. "CREATED" \in DeskState
    BY DEF DeskState
  <2>4. TypeOK'
    BY <1>1, <2>1, <2>3, ThreadAssumption DEF IInv, TypeOK, loopVars
  <2>5. OneRunner'
    BY <1>1, <2>1 DEF IInv, TypeOK, OneRunner
  <2>6. AbsentMeansFree'
    <3> USE <2>1, <2>2, ThreadAssumption DEF IInv, TypeOK, AbsentMeansFree
    <3>1. (\A j \in Ids : desk[j] = "ABSENT" <=> owner[j] = NoThread)'
      OBVIOUS
    <3>2. (\A u \in heap : tstate[u] = "ABSENT" <=> \A j \in Ids : owner[j] # u)'
      <4> SUFFICES ASSUME NEW u \in heap'
                   PROVE  (tstate[u] = "ABSENT" <=> \A j \in Ids : owner[j] # u)'
        OBVIOUS
      <4>1. CASE u = t
        BY <4>1
      <4>2. CASE u # t
        BY <4>2
      <4> QED  BY <4>1, <4>2
    <3>3. (\A j \in Ids : owner[j] \in heap \cup {NoThread})'
      OBVIOUS
    <3>4. (\A j, k \in Ids : owner[j] = owner[k] /\ owner[j] # NoThread => j = k)'
      OBVIOUS
    <3> QED  BY <3>1, <3>2, <3>3, <3>4
  <2>7. OwnFrames'
    BY <2>1 DEF IInv, TypeOK, OwnFrames
  <2>8. StartIsPosted'
    BY <2>1 DEF IInv, TypeOK, StartIsPosted
  <2>9. SilentOnlyAfterReturn'
    BY <2>1 DEF SilentOnlyAfterReturn, Silent
  <2> QED  BY <2>4, <2>5, <2>6, <2>7, <2>8, <2>9 DEF IInv
<1> QED  BY <1>2, <1>3

LEMMA StopIInv ==
  ASSUME IInv, NEW c \in Ids \cup {LOOP}, NEW i \in Ids,
         Stop(c, i) \/ StopConnection(c, i)
  PROVE  IInv'
<1> USE IdsFacts
<1>1. /\ ctx = c /\ c # SDK /\ mode = "up" /\ owner[i] # NoThread
      /\ UNCHANGED loopVars
      /\ waits' \in SUBSET (Ids \cup {LOOP})
  BY ThreadAssumption DEF Stop, StopConnection, Executing, IInv, TypeOK
<1>2. CASE GoDown("fault")
  BY <1>1, <1>2, GoDownIInv
<1>3. ASSUME NEW freed, StopThread(i, freed), i # current \/ freed = Destroyable
      PROVE  IInv'
  <2>1. UNCHANGED <<frames, due, current, posted, ctx, mode>>
    BY <1>3 DEF StopThread
  <2>2. owner[i] \in Threads /\ desk[i] # "ABSENT"
    BY <1>1 DEF IInv, TypeOK, AbsentMeansFree
  <2>3. PICK s \in {"ABSENT", "STOP_PENDING"} :
          /\ desk' = [desk EXCEPT ![i] = s]
          /\ tstate' = [tstate EXCEPT ![owner[i]] = s]
          /\ s = "ABSENT" =>
               /\ i # current
               /\ heap' = heap \ ({owner[i]} \cap freed)
               /\ owner' = [owner EXCEPT ![i] = NoThread]
          /\ s # "ABSENT" => i = current /\ UNCHANGED <<heap, owner>>
    BY <1>3 DEF StopThread, SetState
  <2>4. TypeOK'
    BY <1>1, <2>1, <2>2, <2>3 DEF IInv, TypeOK, loopVars, DeskState
  <2>5. OneRunner'
    BY <1>1, <2>1, <2>3 DEF IInv, TypeOK, OneRunner
  <2>6. AbsentMeansFree'
    BY <2>2, <2>3, <1>1, ThreadAssumption DEF IInv, TypeOK, AbsentMeansFree
  <2>7. OwnFrames'
    BY <2>1, <2>3 DEF IInv, TypeOK, OwnFrames
  <2>8. StartIsPosted'
    BY <2>1, <2>3 DEF IInv, TypeOK, StartIsPosted
  <2>9. SilentOnlyAfterReturn'
    BY <1>1, <2>1 DEF SilentOnlyAfterReturn, Silent
  <2> QED  BY <2>4, <2>5, <2>6, <2>7, <2>8, <2>9 DEF IInv
<1> QED  BY <1>2, <1>3 DEF Stop, StopConnection

LEMMA ReturnIInv ==
  ASSUME IInv, NEW i \in Ids, Return(i)
  PROVE  IInv'
<1> USE IdsFacts DEF Return, Executing, IInv, TypeOK
<1>1. current = i /\ desk[i] # "ABSENT"
  BY DEF OneRunner
<1>2. TypeOK'
  BY ThreadAssumption DEF loopVars, DeskState
<1>3. OneRunner'
  BY DEF OneRunner
<1>4. AbsentMeansFree'
  BY <1>1 DEF AbsentMeansFree
<1>5. OwnFrames'
  BY DEF OwnFrames
<1>6. StartIsPosted'
  BY DEF StartIsPosted
<1>7. SilentOnlyAfterReturn'
  BY <1>1 DEF SilentOnlyAfterReturn, CurrentGone
<1> QED  BY <1>2, <1>3, <1>4, <1>5, <1>6, <1>7

LEMMA LoopDelayIInv ==
  ASSUME IInv, LoopDelay
  PROVE  IInv'
BY IdsFacts
DEF LoopDelay, Executing, IInv, TypeOK, OneRunner, AbsentMeansFree, OwnFrames,
    StartIsPosted, SilentOnlyAfterReturn, Silent, CurrentGone, deskVars

LEMMA LoopReapThreadsIInv ==
  ASSUME IInv, LoopReapThreads
  PROVE  IInv'
<1> USE IdsFacts, ThreadAssumption
<1> DEFINE done == {i \in Ids : desk[i] = "STOPPED"}
           gone == {owner[i] : i \in done}
<1>1. /\ ctx = LOOP /\ phase' \in {"reaped", "switch"}
      /\ UNCHANGED <<timer, waits, frames, due, current, posted, ctx, mode>>
      /\ desk' = [i \in Ids |-> IF i \in done THEN "ABSENT" ELSE desk[i]]
      /\ tstate' = [t \in Threads |-> IF t \in gone THEN "ABSENT" ELSE tstate[t]]
      /\ owner' = [i \in Ids |-> IF i \in done THEN NoThread ELSE owner[i]]
  BY DEF LoopReapThreads, ReapThreads, Executing
<1>2. heap' = heap \ (gone \cap Destroyable)
  BY DEF LoopReapThreads, ReapThreads
<1>3. ASSUME NEW i \in Ids, owner[i] # NoThread, owner[i] \in gone
      PROVE  i \in done
  <2>1. PICK j \in done : owner[i] = owner[j]
    BY <1>3
  <2> QED  BY <1>3, <2>1 DEF IInv, AbsentMeansFree
<1>4. gone \subseteq Threads
  BY DEF IInv, TypeOK, AbsentMeansFree
<1>5. \A t \in Threads : tstate'[t] = "ABSENT" <=> t \in gone \/ tstate[t] = "ABSENT"
  BY <1>1
<1>6. TypeOK'
  BY <1>1, <1>2 DEF IInv, TypeOK, DeskState
<1>7. OneRunner'
  BY <1>1 DEF IInv, TypeOK, OneRunner
<1>8. AbsentMeansFree'
  <2> USE DEF IInv, TypeOK, AbsentMeansFree
  <2>1. (\A i \in Ids : desk[i] = "ABSENT" <=> owner[i] = NoThread)'
    BY <1>1
  <2>2. (\A t \in heap : tstate[t] = "ABSENT" <=> \A i \in Ids : owner[i] # t)'
    <3> SUFFICES ASSUME NEW t \in heap'
                 PROVE  tstate'[t] = "ABSENT" <=> \A i \in Ids : owner'[i] # t
      OBVIOUS
    <3>1. t \in heap /\ t \in Threads
      BY <1>2
    <3>2. CASE t \in gone
      <4>1. PICK j \in Ids : j \in done /\ owner[j] = t
        BY <3>2
      <4>2. \A i \in Ids : owner'[i] # t
        BY <1>1, <3>1, <4>1
      <4> QED  BY <1>5, <3>1, <3>2, <4>2
    <3>3. CASE t \notin gone
      <4>1. \A i \in Ids : owner'[i] = t <=> owner[i] = t
        BY <1>1, <3>1, <3>3
      <4> QED  BY <1>5, <3>1, <3>3, <4>1
    <3> QED  BY <3>2, <3>3
  <2>3. (\A i \in Ids : owner[i] \in heap \cup {NoThread})'
    <3> SUFFICES ASSUME NEW i \in Ids, owner'[i] # NoThread
                 PROVE  owner'[i] \in heap'
      OBVIOUS
    <3>1. i \notin done /\ owner'[i] = owner[i] /\ owner[i] \in heap
      BY <1>1
    <3>2. owner[i] \notin gone
      BY <1>3, <3>1
    <3> QED  BY <1>2, <3>1, <3>2
  <2>4. (\A i, j \in Ids : owner[i] = owner[j] /\ owner[i] # NoThread => i = j)'
    BY <1>1
  <2> QED  BY <2>1, <2>2, <2>3, <2>4
<1>9. OwnFrames'
  BY <1>1 DEF IInv, OwnFrames
<1>10. StartIsPosted'
  BY <1>1 DEF IInv, StartIsPosted
<1>11. SilentOnlyAfterReturn'
  BY <1>1 DEF SilentOnlyAfterReturn, Silent
<1> QED  BY <1>6, <1>7, <1>8, <1>9, <1>10, <1>11 DEF IInv

LEMMA SweepIInv ==
  ASSUME IInv,
         \/ LoopConnectorsSwept
         \/ \E c \in Ids \cup {LOOP}, t \in Threads : DropConnection(c, t)
  PROVE  IInv'
<1> USE IdsFacts, ThreadAssumption DEF IInv, TypeOK
<1>1. CASE LoopConnectorsSwept
  BY <1>1
  DEF LoopConnectorsSwept, Executing, OneRunner, AbsentMeansFree, OwnFrames,
      StartIsPosted, SilentOnlyAfterReturn, Silent, CurrentGone, deskVars
<1>2. ASSUME NEW c \in Ids \cup {LOOP}, NEW t \in Threads, DropConnection(c, t)
      PROVE  IInv'
  <2>1. /\ ctx = c /\ t \in heap /\ tstate[t] = "ABSENT"
        /\ heap' = heap \ {t}
        /\ UNCHANGED <<desk, owner, frames, due, tstate, current, posted, ctx,
                       loopVars, waits, mode>>
    BY <1>2 DEF DropConnection, Executing, AbsentConnectors
  <2>2. AbsentMeansFree'
    BY <2>1 DEF AbsentMeansFree
  <2>3. OneRunner' /\ OwnFrames' /\ StartIsPosted' /\ SilentOnlyAfterReturn'
    BY <2>1
    DEF OneRunner, OwnFrames, StartIsPosted, SilentOnlyAfterReturn, Silent, CurrentGone
  <2> QED  BY <2>1, <2>2, <2>3 DEF loopVars
<1> QED  BY <1>1, <1>2

LEMMA LoopSwitchIInv ==
  ASSUME IInv, LoopSwitch
  PROVE  IInv'
<1> USE IdsFacts DEF IInv, TypeOK
<1>1. ctx = LOOP /\ ~(current \in Ids /\ desk[current] = "RUNNING")
  BY DEF LoopSwitch, Executing, OneRunner
<1>2. PICK n \in Ids \cup {LOOP} :
        posted' = posted \cup {n} /\ current' = IF n = LOOP THEN LOOP ELSE current
  BY DEF LoopSwitch, SwitchThread, HandOver, EtsPost
<1>3. /\ ctx' = SDK /\ phase' = "body"
      /\ UNCHANGED <<desk, tstate, owner, frames, due, heap, mode, timer, waits>>
  BY <1>1 DEF LoopSwitch, SwitchThread, Yield
<1>4. TypeOK'
  BY <1>2, <1>3
<1>5. OneRunner'
  BY <1>1, <1>3 DEF OneRunner
<1>6. AbsentMeansFree'
  BY <1>3 DEF AbsentMeansFree
<1>7. OwnFrames'
  BY <1>3 DEF OwnFrames
<1>8. StartIsPosted'
  BY <1>2, <1>3 DEF StartIsPosted
<1>9. SilentOnlyAfterReturn'
  BY <1>2 DEF SilentOnlyAfterReturn, Silent
<1> QED  BY <1>4, <1>5, <1>6, <1>7, <1>8, <1>9

----------------------------------------------------------------------------
(***************************************************************************)
(* The SDK.                                                                *)
(***************************************************************************)

LEMMA DispatchThreadIInv ==
  ASSUME IInv, NEW i \in Ids, DispatchThread(i)
  PROVE  IInv'
<1> USE IdsFacts DEF IInv, TypeOK
<1>1. /\ ctx = SDK /\ mode = "up"
      /\ posted' = posted \ {i} /\ current' = i
      /\ UNCHANGED <<owner, due, tstate, heap, loopVars, waits, mode>>
  BY DEF DispatchThread
<1>2. \A j \in Ids : desk[j] # "RUNNING"
  BY <1>1 DEF OneRunner
<1>3. CASE desk[i] \in Runnable
  <2>1. /\ desk' = [desk EXCEPT ![i] = "RUNNING"]
        /\ frames' = [frames EXCEPT ![i] = IF @ = NoThread THEN owner[i] ELSE @]
        /\ ctx' = i
    BY <1>3 DEF DispatchThread
  <2>2. desk[i] # "ABSENT"
    BY <1>3 DEF Runnable
  <2>3. TypeOK'
    BY <1>1, <2>1 DEF DeskState, loopVars
  <2>4. OneRunner'
    BY <1>1, <1>2, <2>1 DEF OneRunner
  <2>5. AbsentMeansFree'
    BY <1>1, <2>1, <2>2 DEF AbsentMeansFree
  <2>6. OwnFrames'
    BY <1>1, <2>1 DEF OwnFrames
  <2>7. StartIsPosted'
    BY <1>1, <2>1 DEF StartIsPosted
  <2>8. SilentOnlyAfterReturn'
    BY <2>1 DEF SilentOnlyAfterReturn, Silent
  <2> QED  BY <2>3, <2>4, <2>5, <2>6, <2>7, <2>8
<1>4. CASE desk[i] \notin Runnable
  <2>1. UNCHANGED <<desk, frames, ctx>>
    BY <1>4 DEF DispatchThread
  <2>2. desk[i] \in {"STOPPED", "STOP_PENDING", "ABSENT"}
    BY <1>2, <1>4 DEF Runnable, DeskState
  <2>3. TypeOK'
    BY <1>1, <2>1 DEF loopVars
  <2>4. OneRunner'
    BY <1>1, <1>2, <2>1 DEF OneRunner
  <2>5. AbsentMeansFree'
    BY <1>1, <2>1 DEF AbsentMeansFree
  <2>6. OwnFrames'
    BY <1>1, <2>1 DEF OwnFrames
  <2>7. StartIsPosted'
    BY <1>1, <2>1, <2>2 DEF StartIsPosted
  <2>8. SilentOnlyAfterReturn'
    BY <1>1, <2>1, <2>2 DEF SilentOnlyAfterReturn, CurrentGone
  <2> QED  BY <2>3, <2>4, <2>5, <2>6, <2>7, <2>8
<1> QED  BY <1>3, <1>4

LEMMA CallbackIInv ==
  ASSUME IInv, NEW id \in Ids \cup {LOOP}, Callback(id)
  PROVE  IInv'
<1> USE IdsFacts DEF IInv, TypeOK
<1>1. /\ ctx = SDK /\ waits # {} /\ UNCHANGED loopVars
      /\ waits' \in SUBSET (Ids \cup {LOOP})
  BY DEF Callback
<1>2. CASE current \in Ids /\ owner[current] = NoThread
  <2>1. GoDown("fault")
    BY <1>2 DEF Callback, ResumeThread
  <2> QED  BY <1>1, <2>1, GoDownIInv
<1>3. CASE ~(current \in Ids /\ owner[current] = NoThread)
  <2>1. /\ posted' = posted \cup {id}
        /\ current' = IF id = LOOP THEN LOOP ELSE current
        /\ current \in Ids => /\ desk' = [desk EXCEPT ![current] = "WAITING"]
                              /\ tstate' = [tstate EXCEPT ![owner[current]] = "WAITING"]
        /\ current \notin Ids => UNCHANGED <<desk, tstate>>
        /\ UNCHANGED <<owner, frames, due, heap, mode>>
    BY <1>3 DEF Callback, ResumeThread, EtsPost, SetState
  <2>2. ctx' = SDK
    BY <1>1, <1>3 DEF Callback, ResumeThread, Yield
  <2>3. TypeOK'
    BY <1>1, <2>1, <2>2 DEF DeskState, loopVars
  <2>4. OneRunner'
    BY <1>1, <2>1, <2>2 DEF OneRunner
  <2>5. AbsentMeansFree'
    BY <1>3, <2>1 DEF AbsentMeansFree
  <2>6. OwnFrames'
    BY <2>1 DEF OwnFrames
  <2>7. StartIsPosted'
    BY <2>1 DEF StartIsPosted
  <2>8. SilentOnlyAfterReturn'
    BY <2>1 DEF SilentOnlyAfterReturn, Silent
  <2> QED  BY <2>3, <2>4, <2>5, <2>6, <2>7, <2>8
<1> QED  BY <1>2, <1>3

LEMMA TimeAndLoopIInv ==
  ASSUME IInv,
         \/ DispatchLoop
         \/ TimerFires
         \/ \E i \in Ids : DelayElapses(i)
  PROVE  IInv'
<1> USE IdsFacts
    DEF IInv, TypeOK, OneRunner, AbsentMeansFree, OwnFrames, StartIsPosted,
        SilentOnlyAfterReturn, Silent, CurrentGone, deskVars, loopVars
<1>1. CASE DispatchLoop
  BY <1>1 DEF DispatchLoop
<1>2. CASE TimerFires
  BY <1>2 DEF TimerFires, EtsPost
<1>3. CASE \E i \in Ids : DelayElapses(i)
  BY <1>3 DEF DelayElapses
<1> QED  BY <1>1, <1>2, <1>3

LEMMA RebootIInv ==
  ASSUME IInv, Reboot
  PROVE  IInv'
BY IdsFacts, ThreadAssumption
DEF Reboot, IInv, TypeOK, OneRunner, AbsentMeansFree, OwnFrames, StartIsPosted,
    SilentOnlyAfterReturn, Silent, CurrentGone, DeskState

----------------------------------------------------------------------------
LEMMA NextIInv == IInv /\ [Next]_vars => IInv'
<1> SUFFICES ASSUME IInv, [Next]_vars PROVE IInv'
  OBVIOUS
<1>1. CASE SdkStep
  BY <1>1, DispatchThreadIInv, CallbackIInv, TimeAndLoopIInv, RebootIInv DEF SdkStep
<1>2. CASE LoopStep
  BY <1>2, WaitIInv, StartIInv, StopIInv, LoopDelayIInv, LoopReapThreadsIInv,
     LoopSwitchIInv, SweepIInv DEF LoopStep
<1>3. CASE \E i \in Ids : ThreadStep(i)
  BY <1>3, WaitIInv, StartIInv, StopIInv, ReturnIInv, SweepIInv DEF ThreadStep
<1>4. CASE UNCHANGED vars
  BY <1>4
  DEF vars, deskVars, loopVars, IInv, TypeOK, OneRunner, AbsentMeansFree, OwnFrames,
      StartIsPosted, SilentOnlyAfterReturn, Silent, CurrentGone
<1> QED  BY <1>1, <1>2, <1>3, <1>4 DEF Next

\* The inductive invariant holds in every reachable state.
THEOREM Invariance == Spec => []IInv
BY InitIInv, NextIInv, PTL DEF Spec

\* Every variable keeps its type, however many desks and threads there are.
THEOREM TypeCorrect == Spec => []TypeOK
<1>1. IInv => TypeOK
  BY DEF IInv
<1> QED  BY <1>1, Invariance, PTL

\* GetCurrentThreadId() always names the executing thread.
THEOREM CurrentIsRunner == Spec => []OneRunner
<1>1. IInv => OneRunner
  BY DEF IInv
<1> QED  BY <1>1, Invariance, PTL

\* A connector that IsAbsent() can be deleted: no desk points at it.
THEOREM AbsentCanBeDeleted == Spec => []AbsentMeansFree
<1>1. IInv => AbsentMeansFree
  BY DEF IInv
<1> QED  BY <1>1, Invariance, PTL

\* No thread resumes on the stack of an earlier one.
THEOREM StacksAreOwn == Spec => []OwnFrames
<1>1. IInv => OwnFrames
  BY DEF IInv
<1> QED  BY <1>1, Invariance, PTL

\* No start of a thread is lost.
THEOREM StartsAreKept == Spec => []StartIsPosted
<1>1. IInv => StartIsPosted
  BY DEF IInv
<1> QED  BY <1>1, Invariance, PTL

\* The loop is stranded only by a thread that is gone.
THEOREM SilenceHasACause == Spec => []SilentOnlyAfterReturn
<1>1. IInv => SilentOnlyAfterReturn
  BY DEF IInv
<1> QED  BY <1>1, Invariance, PTL

----------------------------------------------------------------------------
\* A returned thread's desk is released, or g_current_threadId names it: no
\* other step takes a desk out of STOPPED.
LEMMA StepReapsStopped ==
  ASSUME IInv, [Next]_vars, NEW i \in Ids, desk[i] = "STOPPED", desk'[i] # "STOPPED"
  PROVE  desk'[i] = "ABSENT" \/ current = i
<1> USE DEF IInv, TypeOK, deskVars
<1>1. ASSUME NEW c, WaitForSocket(c) \/ WaitForName(c) \/ WaitForTime(c)
      PROVE  current = i
  BY <1>1 DEF WaitForSocket, WaitForName, WaitForTime, SuspendThread, DelayThread,
              Block, GoDown
<1>2. ASSUME NEW c, NEW j \in Ids, Stop(c, j) \/ StopConnection(c, j)
      PROVE  desk'[i] = "ABSENT" \/ current = i
  BY <1>2 DEF Stop, StopConnection, StopThread, SetState, GoDown
<1>3. ASSUME NEW c, NEW t \in Threads PROVE ~Start(c, t)
  BY <1>3 DEF Start, StartThread, FirstAbsent, GoDown
<1>4. CASE SdkStep
  BY <1>4 DEF SdkStep, DispatchThread, Runnable, DelayElapses, Callback, ResumeThread,
              SetState, GoDown, DispatchLoop, TimerFires, Reboot
<1>5. CASE LoopStep
  BY <1>1, <1>2, <1>3, <1>5
  DEF LoopStep, LoopDelay, LoopReapThreads, ReapThreads, LoopConnectorsSwept,
      DropConnection, LoopSwitch, SwitchThread, SetState
<1>6. CASE \E k \in Ids : ThreadStep(k)
  BY <1>1, <1>2, <1>3, <1>6 DEF ThreadStep, Return, DropConnection
<1>7. CASE UNCHANGED vars
  BY <1>7 DEF vars
<1> QED  BY <1>4, <1>5, <1>6, <1>7 DEF Next

\* Only the managers' pass or a stop takes a desk out of STOPPED, unless the
\* desk is still the current one.
THEOREM StoppedIsReaped == Spec => StoppedOnlyReaped
<1>1. IInv /\ [Next]_vars =>
        [\A i \in Ids : desk[i] = "STOPPED" /\ desk'[i] # "STOPPED"
           => desk'[i] = "ABSENT" \/ current = i]_vars
  BY StepReapsStopped
<1> QED  BY <1>1, Invariance, PTL DEF Spec, StoppedOnlyReaped

----------------------------------------------------------------------------
(***************************************************************************)
(* The client.                                                             *)
(***************************************************************************)
LEMMA ConnectorsAreThreads == Connectors \subseteq Threads /\ Destroyable \subseteq Threads
BY ThreadAssumption DEF Connectors

----------------------------------------------------------------------------
(***************************************************************************)
(* Operations of the client as steps of the loop or of a thread.           *)
(***************************************************************************)

\* What the loop does may be done by Next, whatever handler asks for it.
LEMMA LoopMay ==
  ASSUME \/ UNCHANGED vars
         \/ \E t \in Threads : Start(LOOP, t) \/ DropConnection(LOOP, t)
         \/ \E i \in Ids : Stop(LOOP, i) \/ StopConnection(LOOP, i)
         \/ WaitForSocket(LOOP) \/ WaitForTime(LOOP)
  PROVE  [Next]_vars
BY DEF Next, LoopStep

LEMMA ThreadMay ==
  ASSUME NEW i \in Ids,
         \/ UNCHANGED vars
         \/ \E t \in Threads : Start(i, t) \/ DropConnection(i, t)
         \/ \E j \in Ids : Stop(i, j) \/ StopConnection(i, j)
         \/ WaitForSocket(i) \/ WaitForName(i) \/ WaitForTime(i) \/ Return(i)
  PROVE  [Next]_vars
BY DEF Next, ThreadStep

LEMMA ConnectStarts ==
  ASSUME NEW c, Connect(c)
  PROVE  \E t \in Threads : Start(c, t)
BY ConnectorsAreThreads DEF Connect, Launch

\* The connector that is deleted is an allocated one, hence a thread.
LEMMA DropsAThread ==
  ASSUME IInv, NEW c, NEW k, DropConnection(c, k)
  PROVE  \E t \in Threads : DropConnection(c, t)
<1>1. k \in heap
  BY DEF DropConnection, AbsentConnectors
<1> QED  BY <1>1 DEF IInv, TypeOK

LEMMA StopAndDeleteStops ==
  ASSUME IInv, NEW c, NEW k, NEW h, StopAndDelete(c, k, h)
  PROVE  \/ \E i \in Ids : StopConnection(c, i)
         \/ \E t \in Threads : DropConnection(c, t)
BY DropsAThread DEF StopAndDelete

----------------------------------------------------------------------------
LEMMA ClientLoopMaps ==
  ASSUME IInv, ClientLoopStep
  PROVE  [Next]_vars
<1>1. CASE WifiUp
  BY <1>1, ConnectStarts, LoopMay DEF WifiUp
<1>2. CASE WifiDown \/ NoticeLost
  BY <1>2, LoopMay DEF WifiDown, NoticeLost
<1>10. CASE LoopTalks \/ NoticeLogs
  BY <1>10, LoopMay DEF LoopTalks, NoticeLogs, LogTo
<1>11. CASE NoticeTells
  BY <1>11, ConnectStarts, LoopMay DEF NoticeTells, OnFireConnector
<1>3. CASE DisconnectStop
  BY <1>3, StopAndDeleteStops, LoopMay DEF DisconnectStop
<1>4. CASE DisconnectHalt
  BY <1>4, LoopMay DEF DisconnectHalt, HaltConnectThread, Halt
<1>6. CASE DeleteLost
  BY <1>6, DropsAThread, LoopMay DEF DeleteLost
<1>7. CASE CheckerExpires
  BY <1>7, LoopMay DEF CheckerExpires, Halt
<1>8. CASE Delay
  BY <1>8 DEF Delay, Next, LoopStep
<1>9. CASE LoopRest
  BY <1>9 DEF LoopRest, Next, LoopStep
<1> QED
  BY <1>1, <1>2, <1>3, <1>4, <1>6, <1>7, <1>8, <1>9, <1>10, <1>11
  DEF ClientLoopStep

LEMMA ClientThreadMaps ==
  ASSUME IInv, NEW i \in Ids, ClientThreadStep(i)
  PROVE  [Next]_vars
<1>1. CASE Connecting(i) \/ Talk(i)
  BY <1>1, ThreadMay DEF Connecting, Talk
<1>2. CASE Connected(i)
  BY <1>2, ThreadMay, ConnectorsAreThreads DEF Connected
<1>3. CASE ConnectFailed(i)
  BY <1>3, ThreadMay DEF ConnectFailed
<1>4. CASE Retry(i)
  BY <1>4, ThreadMay, ConnectorsAreThreads DEF Retry
<1>5. CASE Login(i) \/ ModuleName(i) \/ Lost(i)
  BY <1>5, ThreadMay DEF Login, ModuleName, Lost
<1>6. CASE LoginSuccess(i)
  BY <1>6, StopAndDeleteStops, ThreadMay DEF LoginSuccess
<1>7. CASE LoginFailure(i) \/ ModuleExists(i)
  BY <1>7, ThreadMay DEF LoginFailure, ModuleExists, Halt
<1>8. CASE End(i)
  BY <1>8, ThreadMay DEF End
<1> QED
  BY <1>1, <1>2, <1>3, <1>4, <1>5, <1>6, <1>7, <1>8 DEF ClientThreadStep

LEMMA ClientStepMaps ==
  IInv /\ [ClientNext]_<<vars, clientVars>> => [Next]_vars
<1> SUFFICES ASSUME IInv, [ClientNext]_<<vars, clientVars>> PROVE [Next]_vars
  OBVIOUS
<1>1. CASE ClientSdkStep
  <2>1. ASSUME NEW i \in Ids, Dispatch(i) PROVE Next
    BY <2>1 DEF Dispatch, Next, SdkStep
  <2>2. CASE SdkRest
    BY <2>2 DEF SdkRest, Next, SdkStep
  <2>3. CASE ClientReboot
    BY <2>3 DEF ClientReboot, Next, SdkStep
  <2> QED  BY <1>1, <2>1, <2>2, <2>3 DEF ClientSdkStep
<1> QED  BY <1>1, ClientLoopMaps, ClientThreadMaps DEF ClientNext

\* The client keeps the scheduler's inductive invariant.
LEMMA ClientKeepsIInv == ClientSpec => []IInv
<1>1. ClientInit => IInv
  BY InitIInv DEF ClientInit
<1>2. IInv /\ [ClientNext]_<<vars, clientVars>> => IInv'
  BY ClientStepMaps, NextIInv
<1> QED  BY <1>1, <1>2, PTL DEF ClientSpec

\* Every behaviour of the client is one of the scheduler.
THEOREM ClientImplementsScheduler == ClientSpec => KeepsToScheduler
<1>1. ClientInit => Init
  BY DEF ClientInit
<1> QED  BY <1>1, ClientStepMaps, ClientKeepsIInv, PTL
         DEF ClientSpec, KeepsToScheduler, Spec

\* Hence a connector the client's manager deletes is in no desk, no thread is in
\* two, and no desk holds a deleted one.
THEOREM ClientDeletesAbsent == ClientSpec => []AbsentMeansFree
BY ClientImplementsScheduler, AbsentCanBeDeleted, PTL DEF KeepsToScheduler

----------------------------------------------------------------------------
(***************************************************************************)
(* m_connectThread is set while the loop has WiFi for up, and until        *)
(* Disconnect is through, which has it for down.                           *)
(***************************************************************************)
ThreadNamed ==
  /\ status \/ todo \in {"tell", "stop", "halt"} => connectThread # NoThread
  /\ todo \in {"tell", "stop", "halt"} => ~status

LEMMA NextThreadNamed ==
  ThreadNamed /\ [ClientNext]_<<vars, clientVars>> => ThreadNamed'
<1> SUFFICES ASSUME ThreadNamed, [ClientNext]_<<vars, clientVars>> PROVE ThreadNamed'
  OBVIOUS
<1> USE DEF ThreadNamed
<1>1. ASSUME NEW c, Connect(c) PROVE connectThread' # NoThread
  BY <1>1, ConnectorsAreThreads, ThreadAssumption DEF Connect
<1>3. CASE ClientSdkStep
  BY <1>3 DEF ClientSdkStep, Dispatch, SdkRest, ClientReboot, moduleVars, choreVars,
              clientVars
<1>4. CASE ClientLoopStep
  <2>1. CASE WifiUp
    BY <1>1, <2>1 DEF WifiUp
  <2>2. CASE WifiDown \/ NoticeLost \/ LoopTalks \/ NoticeLogs
    BY <2>2 DEF WifiDown, NoticeLost, LoopTalks, NoticeLogs, LogTo, moduleVars, choreVars,
                clientVars
  <2>6. CASE NoticeTells
    BY <1>1, <2>6 DEF NoticeTells, OnFireConnector
  <2>4. CASE DisconnectStop \/ DisconnectHalt \/ DeleteLost \/ CheckerExpires
    BY <2>4 DEF DisconnectStop, DisconnectHalt, DeleteLost, CheckerExpires, moduleVars,
                choreVars, LoopIdle
  <2>5. CASE Delay \/ LoopRest
    BY <2>5 DEF Delay, LoopRest, moduleVars, choreVars, clientVars
  <2> QED  BY <1>4, <2>1, <2>2, <2>4, <2>5, <2>6 DEF ClientLoopStep
<1>5. ASSUME NEW i \in Ids, ClientThreadStep(i) PROVE ThreadNamed'
  <2>1. CASE Retry(i)
    BY <2>1, ConnectorsAreThreads, ThreadAssumption DEF Retry, choreVars
  <2>2. CASE ~Retry(i)
    BY <1>5, <2>2
    DEF ClientThreadStep, Connecting, Connected, ConnectFailed, Login, Talk,
        LoginSuccess, LoginFailure, ModuleName, ModuleExists, Lost, End, clientVars,
        moduleVars, choreVars
  <2> QED  BY <2>1, <2>2
<1>6. CASE UNCHANGED <<vars, clientVars>>
  BY <1>6 DEF clientVars, moduleVars, choreVars
<1> QED  BY <1>3, <1>4, <1>5, <1>6 DEF ClientNext

\* Disconnect's StopThread is never called through a null pointer, however often
\* threads are run again and whatever the server sends.
THEOREM DisconnectHasThread == ClientSpec => []HaltHasThread
<1>1. ClientInit => ThreadNamed
  BY DEF ClientInit, ThreadNamed
<1>2. ThreadNamed => HaltHasThread
  BY DEF ThreadNamed, HaltHasThread
<1> QED  BY <1>1, <1>2, NextThreadNamed, PTL DEF ClientSpec

----------------------------------------------------------------------------
(***************************************************************************)
(* The list holds the allocated connectors, and whom a checker counts for  *)
(* is in a desk, in one whose thread has not returned: releasing that desk *)
(* would leave the checker with a pointer to nothing.                      *)
(***************************************************************************)
Listed == ToSet(connectors) = heap \ Destroyable
Watched == /\ \A c \in checked : \E i \in Ids : owner[i] = c
           /\ \A i \in Ids : desk[i] = "STOPPED" => owner[i] \notin checked

PInv == IInv /\ ClientTypeOK /\ (mode = "up" => Listed /\ Watched)

\* No desk gets another thread, no thread returns, none is allocated or freed.
DesksStay == UNCHANGED <<owner, heap>> /\ \A i \in Ids : desk'[i] = "STOPPED" => desk[i] = "STOPPED"

\* No step but a reset's leads out of a panic or a fault.
Alive == mode' = "up" => mode = "up"

LEMMA DesksStayWatched ==
  ASSUME DesksStay, connectors' = connectors, checked' \subseteq checked, Listed, Watched
  PROVE  Listed' /\ Watched'
BY DEF DesksStay, Listed, Watched

\* What a step of the scheduler means for desks and memory.
LEMMA WaitStays ==
  ASSUME IInv, NEW c, WaitForSocket(c) \/ WaitForName(c) \/ WaitForTime(c)
  PROVE  Alive /\ (mode' = "up" => DesksStay)
<1>1. mode = "up"
  BY DEF WaitForSocket, WaitForName, WaitForTime, Executing
<1>2. Block(current, "SUSPENDED", due) \/ Block(current, "DELAYED", due \ {current})
  BY DEF WaitForSocket, WaitForName, WaitForTime, SuspendThread, DelayThread
<1>3. ASSUME NEW s \in {"SUSPENDED", "DELAYED"}, NEW now, Block(current, s, now)
      PROVE  mode' = "up" => DesksStay
  <2>1. CASE current \in Ids /\ owner[current] = NoThread
    BY <2>1, <1>3 DEF Block, GoDown
  <2>2. CASE ~(current \in Ids /\ owner[current] = NoThread)
    <3>1. /\ desk' = IF current \in Ids THEN [desk EXCEPT ![current] = s] ELSE desk
          /\ UNCHANGED <<owner, heap>>
      BY <1>3, <2>2 DEF Block
    <3> QED BY <3>1 DEF DesksStay, IInv, TypeOK
  <2> QED BY <2>1, <2>2
<1> QED BY <1>1, <1>2, <1>3 DEF Alive

LEMMA SwitchStays ==
  ASSUME IInv, ResumeThread(LOOP) \/ SwitchThread \/ \E i \in Ids : ResumeThread(i)
  PROVE  mode' = "up" => DesksStay
<1>1. PICK s \in {"WAITING"} :
        \/ mode' = "fault"
        \/ UNCHANGED <<owner, heap>> /\ (desk' = desk \/ desk' = [desk EXCEPT ![current] = s])
  BY DEF ResumeThread, SwitchThread, SetState, GoDown
<1> QED BY <1>1 DEF DesksStay, IInv, TypeOK

LEMMA SdkStays ==
  ASSUME IInv,
         \/ \E i \in Ids : DispatchThread(i) \/ DelayElapses(i)
         \/ \E id \in Ids \cup {LOOP} : Callback(id)
         \/ DispatchLoop \/ TimerFires
  PROVE  Alive /\ (mode' = "up" => DesksStay)
<1>1. CASE \E i \in Ids : DispatchThread(i)
  BY <1>1 DEF DispatchThread, Alive, DesksStay, IInv, TypeOK
<1>2. CASE \E id \in Ids \cup {LOOP} : Callback(id)
  BY <1>2, SwitchStays DEF Callback, Alive
<1>3. CASE DispatchLoop \/ TimerFires \/ \E i \in Ids : DelayElapses(i)
  BY <1>3 DEF DispatchLoop, TimerFires, DelayElapses, Alive, DesksStay, deskVars
<1> QED BY <1>1, <1>2, <1>3

LEMMA LoopStays ==
  ASSUME IInv, LoopDelay \/ LoopConnectorsSwept \/ LoopSwitch
  PROVE  Alive /\ (mode' = "up" => DesksStay)
<1>1. CASE LoopSwitch
  BY <1>1, SwitchStays DEF LoopSwitch, Executing, Alive
<1>2. CASE LoopDelay \/ LoopConnectorsSwept
  BY <1>2 DEF LoopDelay, LoopConnectorsSwept, Executing, Alive, DesksStay, deskVars
<1> QED BY <1>1, <1>2

\* Every other thread keeps its desk while one is started, ...
LEMMA StartAdds ==
  ASSUME IInv, NEW c, NEW t \in Threads, Start(c, t)
  PROVE  /\ mode = "up" /\ t \notin heap
         /\ mode' = "up" =>
              /\ heap' = heap \cup {t}
              /\ \A i \in Ids : owner[i] # NoThread => owner'[i] = owner[i]
              /\ \A i \in Ids : desk'[i] = "STOPPED" => desk[i] = "STOPPED" /\ owner'[i] = owner[i]
<1>1. mode = "up" /\ t \notin heap /\ StartThread(t)
  BY DEF Start, Executing, StartThread
<1>2. CASE \A i \in Ids : desk[i] # "ABSENT"
  BY <1>1, <1>2 DEF StartThread, GoDown
<1>3. CASE ~\A i \in Ids : desk[i] # "ABSENT"
  <2>1. PICK i \in Ids : /\ FirstAbsent(i)
                         /\ desk' = [desk EXCEPT ![i] = "CREATED"]
                         /\ owner' = [owner EXCEPT ![i] = t]
                         /\ heap' = heap \cup {t}
    BY <1>1, <1>3 DEF StartThread
  <2>2. owner[i] = NoThread
    BY <2>1 DEF FirstAbsent, IInv, AbsentMeansFree
  <2> QED BY <1>1, <2>1, <2>2 DEF IInv, TypeOK
<1> QED BY <1>2, <1>3

\* ... while one is stopped, which frees no connector, ...
LEMMA HaltReleases ==
  ASSUME IInv, NEW c, NEW i \in Ids, Halt(c, i)
  PROVE  /\ mode = "up" /\ owner[i] # NoThread
         /\ heap' \ Destroyable = heap \ Destroyable
         /\ \A j \in Ids : owner[j] # owner[i] => owner'[j] = owner[j]
         /\ \A j \in Ids : desk'[j] = "STOPPED" => desk[j] = "STOPPED" /\ owner'[j] = owner[j]
<1>1. mode = "up" /\ owner[i] # NoThread /\ StopThread(i, Destroyable)
  BY DEF Halt, Stop, Executing
<1>2. CASE i # current
  BY <1>1, <1>2 DEF StopThread, SetState, IInv, TypeOK
<1>3. CASE i = current
  BY <1>1, <1>3 DEF StopThread, SetState, IInv, TypeOK
<1> QED BY <1>1, <1>2, <1>3

\* ... and while a connector is deleted.
LEMMA StopAndDeleteFrees ==
  ASSUME IInv, NEW c, NEW k, NEW h, StopAndDelete(c, k, h)
  PROVE  /\ mode = "up" /\ k \in heap \ Destroyable
         /\ Forget(k, h)
         /\ mode' = "up" =>
              /\ heap' = heap \ {k}
              /\ \A i \in Ids : owner[i] # k => owner'[i] = owner[i]
              /\ \A i \in Ids : desk'[i] = "STOPPED" => desk[i] = "STOPPED" /\ owner'[i] = owner[i]
<1>1. CASE DropConnection(c, k)
  BY <1>1 DEF StopAndDelete, DropConnection, AbsentConnectors, Executing
<1>2. ASSUME NEW i \in Ids, owner[i] = k, StopConnection(c, i)
      PROVE  /\ mode = "up" /\ k \in heap \ Destroyable
             /\ mode' = "up" =>
                  /\ heap' = heap \ {k}
                  /\ \A j \in Ids : owner[j] # k => owner'[j] = owner[j]
                  /\ \A j \in Ids : desk'[j] = "STOPPED" => desk[j] = "STOPPED" /\ owner'[j] = owner[j]
  <2>1. mode = "up" /\ k \in Threads \ Destroyable
    BY <1>2 DEF StopConnection, Executing
  <2>2. k \in heap
    BY <1>2, <2>1, ThreadAssumption DEF IInv, AbsentMeansFree
  <2>3. CASE i = current
    BY <1>2, <2>1, <2>2, <2>3 DEF StopConnection, GoDown
  <2>4. CASE i # current
    <3>1. /\ desk' = [desk EXCEPT ![i] = "ABSENT"]
          /\ owner' = [owner EXCEPT ![i] = NoThread]
          /\ heap' = heap \ ({k} \cap Threads)
      BY <1>2, <2>4 DEF StopConnection, StopThread, SetState
    <3> QED BY <1>2, <2>1, <2>2, <3>1 DEF IInv, TypeOK
  <2> QED BY <2>3, <2>4
<1> QED BY <1>1, <1>2 DEF StopAndDelete

----------------------------------------------------------------------------
\* What is forgotten leaves the list, which stays one without repetition.
LEMMA ForgetRemoves ==
  ASSUME ClientTypeOK, NEW k \in ToSet(connectors),
         NEW h \in [Connectors -> Sessions \cup {NoSession}], Forget(k, h)
  PROVE  /\ connectors' \in Seq(Connectors) /\ IsInjective(connectors')
         /\ ToSet(connectors') = ToSet(connectors) \ {k}
         /\ host' \in [Connectors -> Sessions \cup {NoSession}]
         /\ checked' = checked \ {k}
         /\ closed' \subseteq closed
<1>1. Place(k) \in DOMAIN connectors /\ connectors[Place(k)] = k
  BY DEF Place, ToSet
<1>2. connectors \in Seq(Connectors) /\ IsInjective(connectors)
  BY DEF ClientTypeOK
<1> QED BY <1>1, <1>2, SetRemoved DEF Forget

\* What Launch and Connect assign is of its type.
LEMMA ConnectTyped ==
  ASSUME ClientTypeOK, NEW c, Connect(c)
  PROVE  /\ stopConnect' \in BOOLEAN
         /\ connectThread' \in Destroyable \cup {NoThread}
         /\ at' \in [Threads -> Places] /\ closed' \subseteq Threads
BY ConnectorsAreThreads DEF Connect, Launch, ClientTypeOK, Places

LEMMA HaltTyped ==
  ASSUME TypeOK, ClientTypeOK, NEW c, NEW i \in Ids, Halt(c, i)
  PROVE  closed' \subseteq Threads
BY DEF Halt, Stop, TypeOK, ClientTypeOK

\* A connector that is deleted is one of the list.
LEMMA DeletedWasListed ==
  ASSUME PInv, NEW c, NEW k, NEW h \in [Connectors -> Sessions \cup {NoSession}],
         StopAndDelete(c, k, h)
  PROVE  /\ k \in ToSet(connectors)
         /\ connectors' \in Seq(Connectors) /\ IsInjective(connectors')
         /\ host' \in [Connectors -> Sessions \cup {NoSession}]
         /\ checked' \subseteq Connectors
         /\ closed' \subseteq Threads
         /\ mode' = "up" => Listed' /\ Watched'
<1>1. mode = "up" /\ k \in ToSet(connectors) /\ Forget(k, h)
  BY StopAndDeleteFrees DEF PInv, Listed
<1>2. /\ connectors' \in Seq(Connectors) /\ IsInjective(connectors')
      /\ ToSet(connectors') = ToSet(connectors) \ {k}
      /\ host' \in [Connectors -> Sessions \cup {NoSession}]
      /\ checked' = checked \ {k}
      /\ closed' \subseteq closed
  BY <1>1, ForgetRemoves DEF PInv
<1>3. mode' = "up" => Listed' /\ Watched'
  BY <1>1, <1>2, StopAndDeleteFrees DEF PInv, Listed, Watched
<1> QED BY <1>1, <1>2, <1>3 DEF PInv, ClientTypeOK

\* Starting a thread that is no connector changes neither list nor checkers.
LEMMA LaunchKeeps ==
  ASSUME PInv, NEW c, NEW t \in Destroyable, Start(c, t), mode' = "up",
         connectors' = connectors, checked' = checked
  PROVE  Listed' /\ Watched'
<1>1. t \in Threads
  BY ConnectorsAreThreads
<1>2. checked \subseteq Threads /\ NoThread \notin Threads
  BY ThreadAssumption DEF PInv, ClientTypeOK, Connectors
<1> QED BY <1>1, <1>2, StartAdds DEF PInv, Listed, Watched

\* Stopping a thread no checker counts for, or its last one, changes no list.
LEMMA HaltKeeps ==
  ASSUME PInv, NEW c, NEW i \in Ids, Halt(c, i), connectors' = connectors,
         checked' \subseteq checked, owner[i] \in checked' => owner'[i] = owner[i]
  PROVE  Listed' /\ Watched'
<1>1. /\ owner[i] # NoThread
      /\ heap' \ Destroyable = heap \ Destroyable
      /\ \A j \in Ids : owner[j] # owner[i] => owner'[j] = owner[j]
      /\ \A j \in Ids : desk'[j] = "STOPPED" => desk[j] = "STOPPED" /\ owner'[j] = owner[j]
      /\ Listed /\ Watched
  BY HaltReleases DEF PInv
<1>2. \A j \in Ids : owner[j] \in checked' => owner'[j] = owner[j]
  BY <1>1 DEF PInv, IInv, AbsentMeansFree
<1>3. Listed'
  BY <1>1 DEF Listed
<1>4. Watched'
  BY <1>1, <1>2 DEF Watched
<1> QED BY <1>3, <1>4


----------------------------------------------------------------------------
LEMMA LoopTyped ==
  ASSUME PInv, TypeOK', ClientLoopStep
  PROVE  ClientTypeOK'
<1> USE DEF Chores
<1>1. CASE WifiUp
  BY <1>1, ConnectTyped DEF WifiUp, listVars, PInv, ClientTypeOK
<1>2. CASE WifiDown
  BY <1>2 DEF WifiDown, moduleVars, listVars, threadVars, PInv, ClientTypeOK
<1>3. CASE LoopTalks \/ NoticeLogs \/ LoopRest
  BY <1>3 DEF LoopTalks, NoticeLogs, LogTo, LoopRest, clientVars, moduleVars, listVars,
              threadVars, choreVars, PInv, ClientTypeOK
<1>4. CASE NoticeTells
  BY <1>4, ConnectTyped DEF NoticeTells, OnFireConnector, listVars, PInv, ClientTypeOK
<1>5. CASE DisconnectStop
  BY <1>5, DeletedWasListed DEF DisconnectStop, moduleVars, PInv, ClientTypeOK
<1>6. CASE DisconnectHalt
  BY <1>6, HaltTyped DEF DisconnectHalt, HaltConnectThread, listVars, PInv, IInv, ClientTypeOK
<1>7. CASE Delay
  BY <1>7 DEF Delay, moduleVars, listVars, threadVars, PInv, ClientTypeOK
<1>8. CASE NoticeLost
  <2>1. ASSUME NEW n \in DOMAIN connectors PROVE connectors[n] \in Connectors
    BY ElementOfSeq, LenProperties DEF PInv, ClientTypeOK
  <2>2. victim' \in Connectors /\ first' \in BOOLEAN /\ todo' \in {"report", "delete"}
    BY <1>8, <2>1 DEF NoticeLost
  <2> QED
    BY <1>8, <2>2 DEF NoticeLost, moduleVars, listVars, threadVars, PInv, ClientTypeOK
<1>9. CASE DeleteLost
  <2>1. StopAndDelete(LOOP, victim, host)
    BY <1>9 DEF DeleteLost, StopAndDelete
  <2> QED BY <1>9, <2>1, DeletedWasListed DEF DeleteLost, moduleVars, PInv, ClientTypeOK
<1>10. CASE CheckerExpires
  BY <1>10, HaltTyped DEF CheckerExpires, moduleVars, choreVars, PInv, IInv, ClientTypeOK
<1> QED
  BY <1>1, <1>2, <1>3, <1>4, <1>5, <1>6, <1>7, <1>8, <1>9, <1>10 DEF ClientLoopStep

LEMMA ThreadTyped ==
  ASSUME PInv, TypeOK', NEW i \in Ids, ClientThreadStep(i)
  PROVE  ClientTypeOK'
<1> USE DEF Places
<1>1. CASE Connecting(i) \/ Talk(i)
  BY <1>1 DEF Connecting, Talk, clientVars, moduleVars, listVars, threadVars, choreVars, PInv,
              ClientTypeOK
<1>2. CASE Connected(i)
  <2>1. PICK c \in Connectors, t \in Destroyable :
          /\ Start(i, c)
          /\ connectors' = <<c>> \o connectors
          /\ host' = [host EXCEPT ![c] = NoSession]
          /\ at' = [at EXCEPT ![t] = "end", ![c] = "begin"]
          /\ closed' = closed \ {c}
    BY <1>2 DEF Connected
  <2>2. c \notin ToSet(connectors)
    BY <2>1, StartAdds, ConnectorsAreThreads DEF PInv, Listed
  <2>3. connectors' \in Seq(Connectors) /\ IsInjective(connectors')
    BY <2>1, <2>2, SetAddedFirst DEF PInv, ClientTypeOK
  <2>4. host' \in [Connectors -> Sessions \cup {NoSession}]
    BY <2>1 DEF PInv, ClientTypeOK
  <2>5. at' \in [Threads -> Places] /\ closed' \subseteq Threads
    BY <2>1 DEF PInv, ClientTypeOK
  <2> QED BY <1>2, <2>3, <2>4, <2>5 DEF Connected, moduleVars, choreVars, PInv, ClientTypeOK
<1>3. CASE ConnectFailed(i)
  BY <1>3 DEF ConnectFailed, Goes, listVars, choreVars, PInv, ClientTypeOK
<1>4. CASE Retry(i)
  BY <1>4 DEF Retry, listVars, choreVars, PInv, ClientTypeOK
<1>5. CASE Login(i) \/ ModuleName(i) \/ Lost(i)
  BY <1>5, ConnectorsAreThreads DEF Login, ModuleName, Lost, Goes, moduleVars, listVars,
                                    threadVars, choreVars, PInv, ClientTypeOK
<1>6. CASE LoginSuccess(i)
  <2>1. PICK c \in Connectors, s \in Sessions :
          IF session = NoSession
          THEN /\ session' = s
               /\ host' = [host EXCEPT ![c] = s]
               /\ UNCHANGED <<vars, connectors, checked, closed>>
          ELSE /\ \E k \in Connectors : StopAndDelete(i, k, [host EXCEPT ![c] = s])
               /\ UNCHANGED session
    BY <1>6 DEF LoginSuccess
  <2>2. [host EXCEPT ![c] = s] \in [Connectors -> Sessions \cup {NoSession}]
    BY DEF PInv, ClientTypeOK
  <2>3. CASE session = NoSession
    BY <1>6, <2>1, <2>2, <2>3 DEF LoginSuccess, choreVars, PInv, ClientTypeOK
  <2>4. CASE session # NoSession
    BY <1>6, <2>1, <2>2, <2>4, DeletedWasListed
    DEF LoginSuccess, choreVars, PInv, ClientTypeOK
  <2> QED BY <2>3, <2>4
<1>7. CASE LoginFailure(i) \/ ModuleExists(i)
  BY <1>7, HaltTyped DEF LoginFailure, ModuleExists, Goes, moduleVars, listVars, choreVars,
                         PInv, IInv, ClientTypeOK
<1>8. CASE End(i)
  BY <1>8 DEF End, moduleVars, threadVars, choreVars, PInv, ClientTypeOK
<1> QED
  BY <1>1, <1>2, <1>3, <1>4, <1>5, <1>6, <1>7, <1>8 DEF ClientThreadStep

\* What a fresh boot finds.
LEMMA BlankTyped ==
  /\ <<>> \in Seq(Connectors) /\ IsInjective(<<>>) /\ ToSet(<<>>) = {}
  /\ 0 \in 0 .. MaxReruns
BY RerunAssumption DEF IsInjective, ToSet

LEMMA SdkTyped ==
  ASSUME PInv, TypeOK', ClientSdkStep
  PROVE  ClientTypeOK'
<1>1. ASSUME NEW i \in Ids, Dispatch(i) PROVE ClientTypeOK'
  <2>1. CASE ctx' = i /\ frames[i] = NoThread
    <3>1. /\ at' = [at EXCEPT ![owner[i]] = "begin"]
          /\ closed' \subseteq closed
          /\ reruns' \in {reruns, reruns + 1} /\ reruns' <= MaxReruns
      BY <1>1, <2>1 DEF Dispatch, Goes
    <3>2. reruns' \in 0 .. MaxReruns
      BY <3>1, RerunAssumption DEF PInv, ClientTypeOK
    <3> QED BY <1>1, <3>1, <3>2 DEF Dispatch, moduleVars, listVars, choreVars, PInv, ClientTypeOK,
                                    Places
  <2>2. CASE ~(ctx' = i /\ frames[i] = NoThread)
    BY <1>1, <2>2 DEF Dispatch, moduleVars, listVars, threadVars, choreVars, PInv, ClientTypeOK
  <2> QED BY <2>1, <2>2
<1>2. CASE SdkRest
  BY <1>2 DEF SdkRest, clientVars, moduleVars, listVars, threadVars, choreVars, PInv,
              ClientTypeOK
<1>3. CASE ClientReboot
  BY <1>3, BlankTyped DEF ClientReboot, ClientTypeOK, Places, Chores
<1> QED BY <1>1, <1>2, <1>3 DEF ClientSdkStep


----------------------------------------------------------------------------
LEMMA LoopListed ==
  ASSUME PInv, ClientLoopStep, mode' = "up"
  PROVE  Listed' /\ Watched'
<1>1. CASE WifiUp
  BY <1>1, LaunchKeeps DEF WifiUp, Connect, Launch, listVars
<1>2. CASE WifiDown \/ NoticeLost
  BY <1>2, DesksStayWatched
  DEF WifiDown, NoticeLost, vars, deskVars, DesksStay, listVars, PInv
<1>3. CASE LoopTalks \/ NoticeLogs
  BY <1>3, WaitStays, DesksStayWatched
  DEF LoopTalks, NoticeLogs, LogTo, clientVars, listVars, PInv, Alive
<1>4. CASE NoticeTells
  BY <1>4, LaunchKeeps DEF NoticeTells, OnFireConnector, Connect, Launch, listVars
<1>5. CASE DisconnectStop
  BY <1>5, DeletedWasListed DEF DisconnectStop, PInv, ClientTypeOK
<1>6. CASE DisconnectHalt
  <2>1. CASE \E i \in Ids : owner[i] = connectThread /\ Halt(LOOP, i)
    <3>1. connectThread \notin Connectors
      BY ThreadAssumption DEF PInv, ClientTypeOK, Connectors
    <3> QED BY <1>6, <2>1, <3>1, HaltKeeps DEF DisconnectHalt, listVars, PInv, ClientTypeOK
  <2>2. CASE UNCHANGED vars
    BY <1>6, <2>2, DesksStayWatched DEF DisconnectHalt, vars, deskVars, DesksStay, listVars, PInv
  <2> QED BY <1>6, <2>1, <2>2 DEF DisconnectHalt, HaltConnectThread
<1>7. CASE Delay
  BY <1>7, LoopStays, DesksStayWatched DEF Delay, listVars, PInv, Alive
<1>9. CASE DeleteLost
  <2>1. StopAndDelete(LOOP, victim, host)
    BY <1>9 DEF DeleteLost, StopAndDelete
  <2> QED BY <2>1, DeletedWasListed DEF PInv, ClientTypeOK
<1>10. CASE CheckerExpires
  BY <1>10, HaltKeeps DEF CheckerExpires
<1>11. CASE LoopReapThreads /\ UNCHANGED clientVars
  <2>1. PICK done \in {{i \in Ids : desk[i] = "STOPPED"}} :
          /\ desk' = [i \in Ids |-> IF i \in done THEN "ABSENT" ELSE desk[i]]
          /\ owner' = [i \in Ids |-> IF i \in done THEN NoThread ELSE owner[i]]
          /\ heap' = heap \ ({owner[i] : i \in done} \cap Destroyable)
          /\ mode' = mode
    BY <1>11 DEF LoopReapThreads, ReapThreads
  <2>2. connectors' = connectors /\ checked' = checked
    BY <1>11 DEF clientVars, listVars
  <2> QED BY <2>1, <2>2 DEF PInv, Listed, Watched
<1>12. CASE (LoopConnectorsSwept \/ LoopSwitch) /\ UNCHANGED clientVars
  BY <1>12, LoopStays, DesksStayWatched DEF clientVars, listVars, PInv, Alive
<1> QED
  BY <1>1, <1>2, <1>3, <1>4, <1>5, <1>6, <1>7, <1>9, <1>10, <1>11, <1>12
  DEF ClientLoopStep, LoopRest

\* The thread in desk i has not returned: it runs.
LEMMA RunnerRuns ==
  ASSUME IInv, NEW i \in Ids, Executing(i)
  PROVE  current = i /\ desk[i] # "STOPPED"
BY DEF IInv, OneRunner, Executing

LEMMA ThreadListed ==
  ASSUME PInv, NEW i \in Ids, ClientThreadStep(i), mode' = "up"
  PROVE  Listed' /\ Watched'
<1>1. CASE Connecting(i) \/ Talk(i)
  BY <1>1, WaitStays, DesksStayWatched DEF Connecting, Talk, clientVars, listVars, PInv, Alive
<1>2. CASE Connected(i)
  <2>1. PICK c \in Connectors : Start(i, c) /\ connectors' = <<c>> \o connectors
    BY <1>2 DEF Connected
  <2>2. c \notin ToSet(connectors)
    BY <2>1, StartAdds, ConnectorsAreThreads DEF PInv, Listed
  <2>3. ToSet(connectors') = ToSet(connectors) \cup {c}
    BY <2>1, <2>2, SetAddedFirst DEF PInv, ClientTypeOK
  <2>4. checked' = checked /\ checked \subseteq Threads /\ NoThread \notin Threads
    BY <1>2, ThreadAssumption DEF Connected, PInv, ClientTypeOK, Connectors
  <2> QED BY <2>1, <2>3, <2>4, StartAdds, ConnectorsAreThreads
          DEF PInv, Listed, Watched, Connectors
<1>3. CASE ConnectFailed(i)
  <2>1. CASE UNCHANGED vars
    BY <1>3, <2>1, DesksStayWatched DEF ConnectFailed, vars, deskVars, DesksStay, listVars, PInv
  <2>2. CASE WaitForTime(i)
    BY <1>3, <2>2, WaitStays, DesksStayWatched DEF ConnectFailed, listVars, PInv, Alive
  <2> QED BY <1>3, <2>1, <2>2 DEF ConnectFailed
<1>4. CASE Retry(i)
  BY <1>4, LaunchKeeps DEF Retry, listVars
<1>5. CASE Login(i)
  <2>1. PICK c \in Connectors : Runs(i, c, "begin") /\ checked' = checked \cup {c}
    BY <1>5 DEF Login
  <2>2. owner[i] = c /\ desk[i] # "STOPPED"
    BY <2>1, RunnerRuns DEF Runs, PInv
  <2>3. \A j \in Ids : owner[j] = c => j = i
    BY <2>2, ThreadAssumption DEF PInv, IInv, AbsentMeansFree, Connectors
  <2>4. UNCHANGED <<vars, connectors>>
    BY <1>5 DEF Login
  <2> QED BY <2>1, <2>2, <2>3, <2>4 DEF vars, deskVars, PInv, Listed, Watched
<1>6. CASE ModuleName(i) \/ Lost(i)
  BY <1>6, DesksStayWatched DEF ModuleName, Lost, vars, deskVars, DesksStay, listVars, PInv
<1>7. CASE LoginSuccess(i)
  <2>1. PICK c \in Connectors, s \in Sessions :
          IF session = NoSession
          THEN UNCHANGED <<vars, connectors, checked>>
          ELSE \E k \in Connectors : StopAndDelete(i, k, [host EXCEPT ![c] = s])
    BY <1>7 DEF LoginSuccess
  <2>2. [host EXCEPT ![c] = s] \in [Connectors -> Sessions \cup {NoSession}]
    BY DEF PInv, ClientTypeOK
  <2>3. CASE session = NoSession
    BY <2>1, <2>3, DesksStayWatched DEF vars, deskVars, DesksStay, PInv
  <2>4. CASE session # NoSession
    BY <2>1, <2>2, <2>4, DeletedWasListed
  <2> QED BY <2>3, <2>4
<1>8. CASE LoginFailure(i) \/ ModuleExists(i)
  <2>1. Halt(i, i) /\ connectors' = connectors /\ checked' = checked
    BY <1>8 DEF LoginFailure, ModuleExists, listVars
  <2>2. owner' = owner
    BY <2>1, RunnerRuns DEF Halt, Stop, StopThread, PInv
  <2> QED BY <2>1, <2>2, HaltKeeps
<1>9. CASE End(i)
  <2>1. /\ Return(i)
        /\ checked' = checked \ {owner[i]} /\ connectors' = connectors
    BY <1>9 DEF End
  <2>2. desk' = [desk EXCEPT ![i] = "STOPPED"] /\ UNCHANGED <<owner, heap>>
    BY <2>1 DEF Return
  <2> QED BY <2>1, <2>2 DEF PInv, IInv, TypeOK, Listed, Watched, Return, Executing
<1> QED
  BY <1>1, <1>2, <1>3, <1>4, <1>5, <1>6, <1>7, <1>8, <1>9 DEF ClientThreadStep

LEMMA SdkListed ==
  ASSUME PInv, ClientSdkStep, mode' = "up"
  PROVE  Listed' /\ Watched'
<1>1. ASSUME NEW i \in Ids, Dispatch(i) PROVE Listed' /\ Watched'
  BY <1>1, SdkStays, DesksStayWatched DEF Dispatch, listVars, PInv, Alive
<1>2. CASE SdkRest
  BY <1>2, SdkStays, DesksStayWatched DEF SdkRest, clientVars, listVars, PInv, Alive
<1>3. CASE ClientReboot
  BY <1>3, BlankTyped DEF ClientReboot, Reboot, Listed, Watched
<1> QED BY <1>1, <1>2, <1>3 DEF ClientSdkStep

----------------------------------------------------------------------------
LEMMA StartPInv == ClientInit => PInv
<1> SUFFICES ASSUME ClientInit PROVE PInv
  OBVIOUS
<1>1. IInv
  BY InitIInv DEF ClientInit
<1>2. ClientTypeOK
  BY <1>1, BlankTyped DEF ClientInit, ClientTypeOK, IInv, Places, Chores
<1>3. Listed /\ Watched
  BY BlankTyped DEF ClientInit, Init, Listed, Watched
<1> QED BY <1>1, <1>2, <1>3 DEF PInv

LEMMA NextPInv == PInv /\ [ClientNext]_<<vars, clientVars>> => PInv'
<1> SUFFICES ASSUME PInv, [ClientNext]_<<vars, clientVars>> PROVE PInv'
  OBVIOUS
<1>1. IInv'
  BY ClientStepMaps, NextIInv DEF PInv
<1>2. TypeOK'
  BY <1>1 DEF IInv
<1>3. CASE UNCHANGED <<vars, clientVars>>
  <2>1. ClientTypeOK'
    BY <1>2, <1>3 DEF clientVars, moduleVars, listVars, threadVars, choreVars, PInv, ClientTypeOK
  <2>2. mode' = "up" => Listed' /\ Watched'
    BY <1>3, DesksStayWatched DEF vars, deskVars, DesksStay, clientVars, listVars, PInv
  <2> QED BY <1>1, <2>1, <2>2 DEF PInv
<1>4. CASE ClientNext
  <2>1. ClientTypeOK'
    BY <1>2, <1>4, LoopTyped, ThreadTyped, SdkTyped DEF ClientNext
  <2>2. mode' = "up" => Listed' /\ Watched'
    BY <1>4, LoopListed, ThreadListed, SdkListed DEF ClientNext
  <2> QED BY <1>1, <2>1, <2>2 DEF PInv
<1> QED BY <1>3, <1>4

\* Who is in the list is allocated, whom a checker will stop is in the list and in
\* a desk, and the thread to stop is set: for any number of desks, connectors and
\* sessions, and whatever is stopped, deleted or run again in between.
THEOREM PointersNameWhatIsThere == ClientSpec => []PointersHold
<1>1. PInv => ClientTypeOK /\ ListedAreAllocated /\ CheckersPointAtThreads
  <2> SUFFICES ASSUME PInv, mode = "up"
               PROVE  ListedAreAllocated /\ CheckersPointAtThreads
    BY DEF PInv, ListedAreAllocated, CheckersPointAtThreads
  <2>1. \A c \in checked : c \in Threads /\ c \notin Destroyable /\ c # NoThread
    BY ThreadAssumption DEF PInv, ClientTypeOK, Connectors
  <2>2. \A c \in checked : c \in heap
    BY <2>1 DEF PInv, Watched, IInv, AbsentMeansFree
  <2> QED BY <2>1, <2>2 DEF PInv, Listed, Watched, ListedAreAllocated, CheckersPointAtThreads
<1>2. ClientSpec => []PInv
  BY StartPInv, NextPInv, PTL DEF ClientSpec
<1> QED BY <1>1, <1>2, DisconnectHasThread, PTL DEF PointersHold

----------------------------------------------------------------------------
(***************************************************************************)
(* The client's promises, as long as no thread that has returned is run    *)
(* again.  Which steps can follow a step depends on whose event is posted: *)
(* Turns says whom the CPU can go to next, and is lost only when a thread  *)
(* that has returned is about to be run again (Doomed).                    *)
(***************************************************************************)
Calm == mode = "up" /\ reruns = 0

Listing == ToSet(connectors)

\* Who connects, or is connected, and what the loop has still to do about it.
Alone ==
  /\ \A t \in Threads : at[t] = "retry" => t \in Destroyable
  /\ \A t \in Threads : at[t] = "talk" => t \in Connectors
  /\ Attempts \subseteq {connectThread}
  /\ \A j, k \in Listing : j = k
  /\ Attempts # {} /\ Listing # {} => todo \in {"stop", "delete"}
  /\ ~status /\ todo \notin {"tell", "stop", "halt"} => Attempts = {} /\ Listing = {}
  /\ status /\ ~stopConnect => Attempts # {} \/ (Listing # {} /\ todo # "delete")
  /\ stopConnect => Attempts = {}

\* Whose session the client has.
Sessioned ==
  /\ todo \notin {"stop", "delete"} => \A k \in Listing : host[k] = session
  /\ Listing = {} \/ stopConnect \/ todo \in {"stop", "delete"} => session = NoSession
  /\ stopConnect => \A k \in Listing : at[k] = "end"

\* What the loop can have to do while a thread has the CPU.
Pausing == {"nothing", "tell", "report"}

\* The handlers of the loop that are cut into steps.
Handled ==
  /\ todo \in {"tell", "report", "stop", "delete"} => victim \in Listing
  /\ todo = "halt" => Listing = {}
  /\ todo \in {"tell", "stop", "halt"} => ~status
  /\ todo \in {"stop", "halt", "delete", "delay"} => ctx = LOOP
  /\ todo \in {"tell", "stop", "halt", "delay"} => phase = "body"
  /\ todo \in {"report", "delete"} => phase \in {"check", "reaped"}
  /\ todo = "report" => ~stopConnect /\ \A i \in Ids : owner[i] # victim

\* Where the threads stand says whether their stacks are new or used up.
Stacked ==
  \A i \in Ids :
    /\ desk[i] \in {"STOPPED", "STOP_PENDING"} => at[owner[i]] = "end"
    /\ owner[i] # NoThread /\ frames[i] = NoThread => at[owner[i]] \in {"begin", "end"}
    /\ owner[i] # NoThread /\ at[owner[i]] = "end" /\ ctx # i => frames[i] = NoThread
    /\ ctx = i => frames[i] # NoThread

\* A thread that has returned is going to be run again.
Armed(i) == owner[i] # NoThread /\ at[owner[i]] = "end" /\ desk[i] \in Runnable
Doomed == ctx # LOOP /\ \E i \in Ids \cap posted : Armed(i)

\* Events are for threads that can run, or for the desk of the last attempt,
\* which Disconnect has stopped; ...
Posted ==
  \A i \in Ids \cap posted :
    \/ desk[i] \in Runnable
    \/ /\ desk[i] = "ABSENT" /\ Listing = {} /\ Attempts = {} /\ ~status
       /\ phase = "body" => todo = "delay"
PostedByLoop ==
  ctx = LOOP /\ todo # "delay" =>
    \A i \in Ids \cap posted : desk[i] = "CREATED" /\ owner[i] \in Destroyable
\* ... callbacks are for threads that wait for them.
Awaited ==
  \A i \in Ids \cap waits :
    /\ desk[i] \in Runnable
    /\ at[owner[i]] # "end" => desk[i] = "SUSPENDED" /\ i \notin posted

\* Whose desk g_current_threadId names while nobody, or the loop, has the CPU.
Untaken == phase = "body" /\ todo \in Pausing => desk[current] # "ABSENT"
LoopCurrent ==
  ctx = LOOP /\ current \in Ids =>
    /\ Untaken
    /\ \/ CurrentGone
       \/ phase # "body" /\ desk[current] = "CREATED" /\ owner[current] \in Destroyable
SdkCurrent ==
  ctx = SDK /\ current \in Ids =>
    /\ Ids \cap posted = {} => Untaken /\ CurrentGone
    /\ owner[current] # NoThread /\ at[owner[current]] # "end" => current \in posted

\* While Disconnect walks the list, no desk without a thread gets the CPU.
Told ==
  todo = "tell" =>
    \A i \in Ids : desk[i] = "ABSENT" => i \notin posted /\ i \notin waits /\ i # current

Turns == Posted /\ PostedByLoop /\ Awaited /\ LoopCurrent /\ SdkCurrent

Promised == Alone /\ Sessioned /\ Handled
CInv ==
  /\ Calm => Promised /\ Stacked /\ Told /\ (Doomed \/ Turns)
  /\ mode # "up" /\ reruns = 0 => todo # "tell"

----------------------------------------------------------------------------
(***************************************************************************)
(* What the scheduler's operations do for the client while the chip stays  *)
(* up.                                                                     *)
(***************************************************************************)
LEMMA StartDoes ==
  ASSUME IInv, NEW c, NEW t \in Threads, Start(c, t), mode' = "up"
  PROVE  /\ ctx = c /\ t \notin heap
         /\ \E n \in Ids :
              /\ desk[n] = "ABSENT" /\ owner[n] = NoThread
              /\ desk' = [desk EXCEPT ![n] = "CREATED"]
              /\ owner' = [owner EXCEPT ![n] = t]
              /\ frames' = [frames EXCEPT ![n] = NoThread]
              /\ posted' = posted \cup {n}
              /\ UNCHANGED <<current, ctx, phase, waits>>
<1>1. ctx = c /\ t \notin heap /\ mode = "up" /\ StartThread(t) /\ UNCHANGED <<phase, waits>>
  BY DEF Start, Executing, StartThread, loopVars
<1>2. ~ \A i \in Ids : desk[i] # "ABSENT"
  BY <1>1 DEF StartThread, GoDown
<1>3. PICK n \in Ids :
        /\ FirstAbsent(n)
        /\ desk' = [desk EXCEPT ![n] = "CREATED"]
        /\ owner' = [owner EXCEPT ![n] = t]
        /\ frames' = [frames EXCEPT ![n] = NoThread]
        /\ posted' = posted \cup {n}
        /\ UNCHANGED <<current, ctx>>
  BY <1>1, <1>2 DEF StartThread, FreshStack, EtsPost
<1>4. desk[n] = "ABSENT" /\ owner[n] = NoThread
  BY <1>3 DEF FirstAbsent, IInv, AbsentMeansFree
<1> QED  BY <1>1, <1>3, <1>4

LEMMA HaltDoes ==
  ASSUME NEW c, NEW i \in Ids, Halt(c, i)
  PROVE  /\ ctx = c /\ owner[i] # NoThread
         /\ UNCHANGED <<frames, current, posted, ctx, phase, mode>>
         /\ waits' = waits \ {i}
         /\ i # current => /\ desk' = [desk EXCEPT ![i] = "ABSENT"]
                           /\ owner' = [owner EXCEPT ![i] = NoThread]
                           /\ closed' = closed
         /\ i = current => /\ desk' = [desk EXCEPT ![i] = "STOP_PENDING"]
                           /\ owner' = owner
                           /\ closed' = closed \cup {owner[i]}
BY DEF Halt, Stop, StopThread, SetState, Executing, loopVars

LEMMA DeletionDoes ==
  ASSUME NEW c, NEW k, NEW h, StopAndDelete(c, k, h), mode' = "up"
  PROVE  /\ ctx = c /\ UNCHANGED <<frames, current, posted, ctx, phase>>
         /\ \/ UNCHANGED <<desk, owner, waits>>
            \/ \E i \in Ids : /\ owner[i] = k /\ i # current
                              /\ desk' = [desk EXCEPT ![i] = "ABSENT"]
                              /\ owner' = [owner EXCEPT ![i] = NoThread]
                              /\ waits' = waits \ {i}
<1>1. CASE DropConnection(c, k)
  BY <1>1 DEF DropConnection, Executing, loopVars
<1>2. ASSUME NEW i \in Ids, owner[i] = k, StopConnection(c, i)
      PROVE  /\ ctx = c /\ UNCHANGED <<frames, current, posted, ctx, phase>>
             /\ i # current
             /\ desk' = [desk EXCEPT ![i] = "ABSENT"]
             /\ owner' = [owner EXCEPT ![i] = NoThread]
             /\ waits' = waits \ {i}
  BY <1>2 DEF StopConnection, StopThread, SetState, Executing, GoDown, loopVars
<1> QED  BY <1>1, <1>2 DEF StopAndDelete

\* A wait that does not put the chip down, of the thread that runs or of the loop
\* while no thread is current.
LEMMA WaitDoes ==
  ASSUME IInv, NEW c \in Ids \cup {LOOP}, current = c, mode' = "up",
         WaitForSocket(c) \/ WaitForName(c) \/ WaitForTime(c)
  PROVE  /\ ctx = c /\ ctx' = SDK
         /\ UNCHANGED <<owner, frames, heap, phase>>
         /\ waits' \cap Ids \subseteq waits \cup {c}
         /\ \E s \in {"SUSPENDED", "DELAYED"}, n \in Ids \cup {LOOP} :
              /\ desk' = IF c \in Ids THEN [desk EXCEPT ![c] = s] ELSE desk
              /\ posted' = posted \cup {n}
              /\ current' = IF n = LOOP THEN LOOP ELSE c
              /\ n \in Ids => n # c /\ desk[n] \in {"WAITING", "DELAYED"}
              /\ c \in waits' => s = "SUSPENDED" \/ c \in waits
<1> USE IdsFacts
<1>1. PICK s \in {"SUSPENDED", "DELAYED"}, now \in {due, due \ {c}} :
        /\ Block(c, s, now) /\ ctx = c /\ mode = "up" /\ UNCHANGED phase
        /\ s = "DELAYED" => now = due \ {c}
        /\ waits' \subseteq waits \cup {c, LOOP}
        /\ c \in waits' /\ c \in Ids => s = "SUSPENDED" \/ c \in waits
  BY DEF WaitForSocket, WaitForName, WaitForTime, SuspendThread, DelayThread, Executing, loopVars
<1>2. ~ (c \in Ids /\ owner[c] = NoThread)
  BY <1>1 DEF Block, GoDown
<1>3. PICK d \in {IF c \in Ids THEN [desk EXCEPT ![c] = s] ELSE desk} :
        /\ desk' = d
        /\ HandOver(d, now) /\ Yield(c)
        /\ UNCHANGED <<owner, frames, heap>>
  BY <1>1, <1>2 DEF Block
<1>4. PICK n \in Ids \cup {LOOP} :
        /\ IsNextSuspendThread(d, now, n)
        /\ posted' = posted \cup {n}
        /\ current' = IF n = LOOP THEN LOOP ELSE c
  BY <1>3 DEF HandOver, EtsPost
<1>5. ASSUME n \in Ids PROVE n # c /\ desk[n] \in {"WAITING", "DELAYED"}
  <2>1. d[n] = "WAITING" \/ (d[n] = "DELAYED" /\ n \in now)
    BY <1>4, <1>5 DEF IsNextSuspendThread, Candidates
  <2>2. CASE c \in Ids
    <3>1. d[c] = s /\ \A j \in Ids : j # c => d[j] = desk[j]
      BY <1>3, <2>2 DEF IInv, TypeOK
    <3>2. n # c
      BY <1>1, <2>1, <3>1
    <3> QED  BY <1>5, <2>1, <3>1, <3>2
  <2>3. CASE c \notin Ids
    BY <1>3, <1>5, <2>1, <2>3
  <2> QED  BY <2>2, <2>3
<1>6. ctx' = SDK
  BY <1>1, <1>3 DEF Yield
<1>7. waits' \cap Ids \subseteq waits \cup {c}
  BY <1>1
<1>8. c \in waits' => s = "SUSPENDED" \/ c \in waits \/ c = LOOP
  BY <1>1
<1> QED  BY <1>1, <1>3, <1>4, <1>5, <1>6, <1>7, <1>8

----------------------------------------------------------------------------
(***************************************************************************)
(* Who connects, and whose session it is (Promised).                       *)
(***************************************************************************)
\* Types, as far as they are needed, and whom the list and the desks hold.
Basics ==
  /\ NoThread \notin Threads /\ Connectors \subseteq Threads /\ Destroyable \subseteq Threads
  /\ Connectors \cap Destroyable = {}
  /\ Listing \subseteq Connectors /\ Listing = heap \ Destroyable
  /\ heap \subseteq Threads
  /\ at \in [Threads -> Places] /\ host \in [Connectors -> Sessions \cup {NoSession}]
  /\ owner \in [Ids -> Threads \cup {NoThread}] /\ desk \in [Ids -> DeskState]
  /\ frames \in [Ids -> Threads \cup {NoThread}]
  /\ closed \subseteq Threads
  /\ \A i \in Ids : owner[i] \in heap \cup {NoThread}
  /\ \A i \in Ids : owner[i] \in Connectors => owner[i] \in Listing
  /\ \A i, j \in Ids : owner[i] = owner[j] /\ owner[i] # NoThread => i = j
  /\ \A i \in Ids : desk[i] = "ABSENT" <=> owner[i] = NoThread

LEMMA BasicsHold == PInv /\ mode = "up" => Basics
<1> SUFFICES ASSUME PInv, mode = "up" PROVE Basics
  OBVIOUS
<1>1. /\ NoThread \notin Threads /\ Connectors \subseteq Threads /\ Destroyable \subseteq Threads
      /\ Connectors \cap Destroyable = {} /\ Threads \ Destroyable = Connectors
  BY ThreadAssumption DEF Connectors
<1>2. /\ heap \subseteq Threads /\ owner \in [Ids -> Threads \cup {NoThread}]
      /\ desk \in [Ids -> DeskState] /\ frames \in [Ids -> Threads \cup {NoThread}]
      /\ at \in [Threads -> Places] /\ host \in [Connectors -> Sessions \cup {NoSession}]
      /\ closed \subseteq Threads
  BY DEF PInv, IInv, TypeOK, ClientTypeOK
<1>3. Listing = heap \ Destroyable
  BY DEF PInv, Listed, Listing
<1>4. /\ \A i \in Ids : owner[i] \in heap \cup {NoThread}
      /\ \A i, j \in Ids : owner[i] = owner[j] /\ owner[i] # NoThread => i = j
      /\ \A i \in Ids : desk[i] = "ABSENT" <=> owner[i] = NoThread
  BY DEF PInv, IInv, AbsentMeansFree
<1> QED  BY <1>1, <1>2, <1>3, <1>4 DEF Basics

\* The thread in desk i runs.
LEMMA RunnerIs ==
  ASSUME PInv, Basics, Promised, NEW i \in Ids, Executing(i)
  PROVE  /\ current = i /\ ctx = i /\ ctx # LOOP /\ ctx # SDK
         /\ desk[i] \in {"RUNNING", "STOP_PENDING"} /\ owner[i] # NoThread
         /\ todo \in Pausing
<1>1. current = i /\ ctx = i /\ ctx # LOOP /\ ctx # SDK /\ desk[i] \in {"RUNNING", "STOP_PENDING"}
  BY IdsFacts DEF PInv, IInv, OneRunner, Executing
<1>2. todo \in Pausing
  BY <1>1 DEF PInv, ClientTypeOK, Chores, Promised, Handled, Pausing
<1> QED  BY <1>1, <1>2 DEF Basics

\* A step that changes neither who connects nor what the loop has to do.
LEMMA QuietPromised ==
  ASSUME Promised, Listing \subseteq Connectors,
         owner' = owner, at' = at,
         UNCHANGED <<status, moduleVars, connectors, host, choreVars>>,
         todo = "nothing" \/ phase' = phase,
         todo \in Pausing \/ ctx' = ctx
  PROVE  Promised'
<1>1. /\ UNCHANGED <<status, stopConnect, session, connectThread, connectors, host, todo, victim>>
      /\ Attempts' = Attempts /\ Listing' = Listing
  BY DEF moduleVars, choreVars, Attempts, Listing
<1>2. Alone'
  BY <1>1 DEF Promised, Alone
<1>3. Sessioned'
  BY <1>1 DEF Promised, Sessioned
<1>4. Handled'
  BY <1>1 DEF Promised, Handled, Pausing
<1> QED  BY <1>2, <1>3, <1>4 DEF Promised

\* The one attempt there is, or none, when a thread of that kind is started and
\* no other attempts.
LEMMA LaunchAttempts ==
  ASSUME Basics, NEW t \in Destroyable, NEW n \in Ids, owner[n] = NoThread,
         owner' = [owner EXCEPT ![n] = t], at'[t] = "begin",
         \A u \in Destroyable : u # t /\ at'[u] \in {"begin", "retry"} =>
           at[u] \in {"begin", "retry"} /\ u \notin Attempts
  PROVE  Attempts' = {t}
<1>1. t \in Attempts'
  BY DEF Attempts, Basics
<1>2. ASSUME NEW u \in Attempts' PROVE u = t
  <2>1. PICK i \in Ids : owner'[i] = u
    BY DEF Attempts
  <2>2. u \in Destroyable /\ at'[u] \in {"begin", "retry"}
    BY DEF Attempts
  <2>3. CASE u # t
    <3>1. at[u] \in {"begin", "retry"} /\ u \notin Attempts
      BY <2>2, <2>3
    <3>2. owner[i] = u
      BY <2>1, <2>3 DEF Basics
    <3> QED  BY <2>2, <3>1, <3>2 DEF Attempts
  <2> QED  BY <2>3
<1> QED  BY <1>1, <1>2

\* Attempts end when desks are released, none begins.
LEMMA FewerAttempts ==
  ASSUME Basics, at' = at, \A i \in Ids : owner'[i] \in {owner[i], NoThread}
  PROVE  Attempts' \subseteq Attempts
<1> SUFFICES ASSUME NEW u \in Attempts' PROVE u \in Attempts
  OBVIOUS
<1>1. PICK i \in Ids : owner'[i] = u
  BY DEF Attempts
<1>2. u \in Destroyable /\ at[u] \in {"begin", "retry"} /\ u # NoThread
  BY DEF Attempts, Basics
<1> QED  BY <1>1, <1>2 DEF Attempts

LEMMA SameAttempts ==
  ASSUME Basics, owner' = owner, \A u \in Destroyable : at'[u] = at[u]
  PROVE  Attempts' = Attempts
BY DEF Attempts

----------------------------------------------------------------------------
\* The loop connects: there was no attempt, and there is one now.
LEMMA ConnectPromises ==
  ASSUME PInv, Basics, NEW c, Connect(c), mode' = "up", Attempts = {},
         connectors' = connectors
  PROVE  /\ Attempts' # {} /\ Attempts' = {connectThread'} /\ ~stopConnect' /\ Listing' = Listing
         /\ \A k \in Connectors : at'[k] = at[k]
         /\ \A t \in Threads : at'[t] \in {at[t], "begin"}
         /\ ctx' = ctx /\ phase' = phase
<1>1. PICK t \in Destroyable :
        /\ Start(c, t) /\ at' = [at EXCEPT ![t] = "begin"] /\ closed' = closed \ {t}
        /\ connectThread' = t /\ stopConnect' = FALSE
  BY DEF Connect, Launch
<1>2. t \in Threads /\ t \notin Connectors
  BY DEF Basics
<1>3. PICK n \in Ids : /\ owner[n] = NoThread /\ owner' = [owner EXCEPT ![n] = t]
                       /\ UNCHANGED <<ctx, phase>>
  BY <1>1, <1>2, StartDoes DEF PInv
<1>4. \A u \in Threads : at'[u] = IF u = t THEN "begin" ELSE at[u]
  BY <1>1, <1>2 DEF Basics
<1>5. Attempts' = {t}
  BY <1>2, <1>3, <1>4, LaunchAttempts DEF Basics
<1> QED  BY <1>1, <1>2, <1>3, <1>4, <1>5 DEF Basics, Listing

LEMMA WifiUpPromises ==
  ASSUME PInv, Basics, Promised, WifiUp, mode' = "up"
  PROVE  Promised'
<1>1. /\ ~status /\ todo = "nothing" /\ ctx = LOOP /\ phase = "body"
      /\ status' /\ Connect(LOOP) /\ todo' = "delay" /\ session' = session
      /\ connectors' = connectors
  BY DEF WifiUp, LoopIdle, Executing, listVars
<1>2. Attempts = {} /\ Listing = {} /\ session = NoSession
  BY <1>1 DEF Promised, Alone, Sessioned
<1>3. /\ Attempts' # {} /\ Attempts' = {connectThread'} /\ ~stopConnect' /\ Listing' = {}
      /\ \A t \in Threads : at'[t] \in {at[t], "begin"}
      /\ ctx' = ctx /\ phase' = phase
  BY <1>1, <1>2, ConnectPromises
<1>4. Alone'
  BY <1>1, <1>3 DEF Promised, Alone
<1>5. Sessioned'
  BY <1>1, <1>2, <1>3 DEF Sessioned
<1>6. Handled'
  BY <1>1, <1>3 DEF Handled
<1> QED  BY <1>4, <1>5, <1>6 DEF Promised

LEMMA WifiDownPromises ==
  ASSUME PInv, Basics, Promised, WifiDown
  PROVE  Promised'
<1>1. /\ status /\ todo = "nothing" /\ ctx = LOOP /\ phase = "body" /\ ~status'
      /\ UNCHANGED <<stopConnect, session, connectThread, connectors, host, at, closed, owner,
                     ctx, phase>>
      /\ \/ \E k \in Connectors : /\ IsFirstWithHost(k, session)
                                  /\ victim' = k
                                  /\ todo' = IF Fires(k) THEN "tell" ELSE "stop"
         \/ NoneWithHost(session) /\ todo' = "halt"
  BY DEF WifiDown, LoopIdle, Executing, vars, deskVars, loopVars, moduleVars, listVars, threadVars
<1>2. Attempts' = Attempts /\ Listing' = Listing
  BY <1>1 DEF Attempts, Listing
<1>3. \A k \in Listing : host[k] = session
  BY <1>1 DEF Promised, Sessioned
<1>4. CASE NoneWithHost(session) /\ todo' = "halt"
  <2>1. Listing = {}
    BY <1>3, <1>4 DEF NoneWithHost, Listing, ToSet
  <2>2. Alone'
    BY <1>1, <1>2, <1>4, <2>1 DEF Promised, Alone
  <2>3. Sessioned'
    BY <1>1, <1>2, <1>4, <2>1 DEF Promised, Sessioned
  <2>4. Handled'
    BY <1>1, <1>2, <1>4, <2>1 DEF Handled
  <2> QED  BY <2>2, <2>3, <2>4 DEF Promised
<1>5. ASSUME NEW k \in Connectors, IsFirstWithHost(k, session), victim' = k,
             todo' = IF Fires(k) THEN "tell" ELSE "stop"
      PROVE  Promised'
  <2>1. k \in Listing /\ host[k] = session
    BY <1>5 DEF IsFirstWithHost, Listing, ToSet
  <2>2. todo' \in {"tell", "stop"} /\ (todo' = "stop" => stopConnect)
    BY <1>5, <2>1 DEF Fires
  <2>3. Alone'
    BY <1>1, <1>2, <2>2 DEF Promised, Alone
  <2>4. Sessioned'
    BY <1>1, <1>2, <1>3, <2>2 DEF Promised, Sessioned
  <2>5. Handled'
    BY <1>1, <1>2, <1>5, <2>1, <2>2 DEF Handled
  <2> QED  BY <2>3, <2>4, <2>5 DEF Promised
<1> QED  BY <1>1, <1>4, <1>5

LEMMA TellsPromises ==
  ASSUME PInv, Basics, Promised, NoticeTells, mode' = "up"
  PROVE  Promised'
<1>1. /\ todo \in {"tell", "report"} /\ ctx = LOOP /\ Connect(LOOP) /\ session' = NoSession
      /\ todo' = IF todo = "tell" THEN "stop" ELSE "delete"
      /\ UNCHANGED <<status, connectors, host, victim>>
  BY DEF NoticeTells, OnFireConnector, Executing, listVars
<1>2. /\ victim \in Listing /\ Attempts = {}
      /\ todo = "tell" => ~status /\ phase = "body"
      /\ todo = "report" => status /\ phase \in {"check", "reaped"}
  BY <1>1 DEF Promised, Alone, Handled
<1>3. /\ Attempts' # {} /\ Attempts' = {connectThread'} /\ ~stopConnect' /\ Listing' = Listing
      /\ \A k \in Connectors : at'[k] = at[k]
      /\ \A t \in Threads : at'[t] \in {at[t], "begin"}
      /\ ctx' = ctx /\ phase' = phase
  BY <1>1, <1>2, ConnectPromises
<1>4. Alone'
  BY <1>1, <1>2, <1>3 DEF Promised, Alone
<1>5. Sessioned'
  BY <1>1, <1>3 DEF Promised, Sessioned, Basics
<1>6. Handled'
  BY <1>1, <1>2, <1>3 DEF Handled
<1> QED  BY <1>4, <1>5, <1>6 DEF Promised

\* The list has one connector; without it, it is empty.
LEMMA LastGoes ==
  ASSUME PInv, Promised, NEW k \in Listing,
         NEW h \in [Connectors -> Sessions \cup {NoSession}], Forget(k, h)
  PROVE  Listing' = {}
<1>1. Listing' = Listing \ {k}
  BY ForgetRemoves DEF PInv, Listing
<1> QED  BY <1>1 DEF Promised, Alone

LEMMA StopPromises ==
  ASSUME PInv, Basics, Promised, DisconnectStop, mode' = "up"
  PROVE  Promised'
<1>1. /\ todo = "stop" /\ ctx = LOOP /\ StopAndDelete(LOOP, victim, host) /\ todo' = "halt"
      /\ UNCHANGED <<status, stopConnect, session, connectThread, at>>
  BY DEF DisconnectStop, Executing, moduleVars
<1>2. victim \in Listing /\ session = NoSession /\ ~status /\ phase = "body"
  BY <1>1 DEF Promised, Sessioned, Handled
<1>3. Listing' = {}
  BY <1>1, <1>2, LastGoes DEF StopAndDelete, Basics
<1>4. ctx' = ctx /\ phase' = phase
  BY <1>1, DeletionDoes
<1>5. \A i \in Ids : owner'[i] \in {owner[i], NoThread}
  BY <1>1, DeletionDoes DEF Basics
<1>6. Attempts' \subseteq Attempts
  BY <1>1, <1>5, FewerAttempts
<1>7. Alone'
  BY <1>1, <1>2, <1>3, <1>6 DEF Promised, Alone
<1>8. Sessioned'
  BY <1>1, <1>2, <1>3 DEF Sessioned
<1>9. Handled'
  BY <1>1, <1>2, <1>3, <1>4 DEF Handled
<1> QED  BY <1>7, <1>8, <1>9 DEF Promised

\* What Disconnect finds in m_connectThread is the attempt, if there is one, and
\* not in the desk that g_current_threadId still names: that one is through.
LEMMA GoneIsThrough ==
  ASSUME Basics, Stacked, CurrentGone
  PROVE  owner[current] = NoThread \/ at[owner[current]] = "end"
BY DEF Basics, Stacked, CurrentGone

LEMMA LoopCurrentGone ==
  ASSUME Turns, ctx = LOOP, phase = "body", current \in Ids
  PROVE  CurrentGone /\ Untaken
BY DEF Turns, LoopCurrent

LEMMA HaltEndsAttempts ==
  ASSUME PInv, ThreadNamed, Basics, Promised, Stacked, Turns, DisconnectHalt
  PROVE  /\ Attempts' = {} /\ Listing = {} /\ Listing' = {} /\ session = NoSession
         /\ ctx = LOOP /\ ~status /\ phase = "body" /\ ctx' = ctx /\ phase' = phase
<1>1. /\ todo = "halt" /\ ctx = LOOP /\ at' = at /\ connectors' = connectors /\ HaltConnectThread
  BY DEF DisconnectHalt, Executing, listVars
<1>2. Listing = {} /\ session = NoSession /\ ~status /\ phase = "body" /\ connectThread # NoThread
  BY <1>1 DEF Promised, Handled, Sessioned, ThreadNamed
<1>3. CASE \E i \in Ids : owner[i] = connectThread /\ Halt(LOOP, i)
  <2>1. PICK i \in Ids : owner[i] = connectThread /\ Halt(LOOP, i)
    BY <1>3
  <2>2. \A j \in Ids : owner'[j] \in {owner[j], NoThread}
    BY <2>1, HaltDoes DEF Basics
  <2>3. connectThread \notin Attempts'
    <3>1. CASE i = current
      <4>1. owner[current] = NoThread \/ at[owner[current]] = "end"
        BY <1>1, <1>2, <3>1, LoopCurrentGone, GoneIsThrough
      <4>2. at[connectThread] = "end"
        BY <1>2, <2>1, <3>1, <4>1
      <4> QED  BY <1>1, <4>2 DEF Attempts
    <3>2. CASE i # current
      <4>1. owner' = [owner EXCEPT ![i] = NoThread]
        BY <2>1, <3>2, HaltDoes
      <4>2. \A j \in Ids : owner'[j] # connectThread
        BY <1>2, <2>1, <4>1 DEF Basics
      <4> QED  BY <4>2 DEF Attempts
    <3> QED  BY <3>1, <3>2
  <2>4. Attempts' \subseteq Attempts
    BY <1>1, <2>2, FewerAttempts
  <2>5. Attempts' = {}
    BY <2>3, <2>4 DEF Promised, Alone
  <2>6. ctx' = ctx /\ phase' = phase
    BY <2>1, HaltDoes
  <2> QED  BY <1>1, <1>2, <2>5, <2>6 DEF Listing
<1>4. CASE (\A i \in Ids : owner[i] # connectThread) /\ UNCHANGED vars
  <2>1. owner' = owner /\ ctx' = ctx /\ phase' = phase
    BY <1>4 DEF vars, deskVars, loopVars
  <2>2. Attempts' = Attempts /\ connectThread \notin Attempts
    BY <1>1, <1>4, <2>1 DEF Attempts
  <2> QED  BY <1>1, <1>2, <2>1, <2>2 DEF Promised, Alone, Listing
<1> QED  BY <1>1, <1>3, <1>4 DEF HaltConnectThread

LEMMA HaltPromises ==
  ASSUME PInv, ThreadNamed, Basics, Promised, Stacked, Turns, DisconnectHalt
  PROVE  Promised'
<1>1. /\ at' = at /\ todo' = "delay" /\ stopConnect' = TRUE
      /\ UNCHANGED <<status, session>>
  BY DEF DisconnectHalt
<1>2. /\ Attempts' = {} /\ Listing' = {} /\ session = NoSession
      /\ ctx = LOOP /\ ~status /\ phase = "body" /\ ctx' = ctx /\ phase' = phase
  BY HaltEndsAttempts
<1>3. Alone'
  BY <1>1, <1>2 DEF Promised, Alone
<1>4. Sessioned'
  BY <1>1, <1>2 DEF Sessioned
<1>5. Handled'
  BY <1>1, <1>2 DEF Handled
<1> QED  BY <1>3, <1>4, <1>5 DEF Promised

LEMMA DelayPromises ==
  ASSUME Promised, Delay
  PROVE  Promised'
<1>1. /\ todo \in {"nothing", "delay"} /\ todo' = "nothing"
      /\ UNCHANGED <<status, stopConnect, session, connectThread, connectors, host, at, closed,
                     owner, victim>>
  BY DEF Delay, LoopDelay, moduleVars, listVars, threadVars, deskVars
<1>2. Attempts' = Attempts /\ Listing' = Listing
  BY <1>1 DEF Attempts, Listing
<1>3. Alone'
  BY <1>1, <1>2 DEF Promised, Alone
<1>4. Sessioned'
  BY <1>1, <1>2 DEF Promised, Sessioned
<1>5. Handled'
  BY <1>1 DEF Handled
<1> QED  BY <1>3, <1>4, <1>5 DEF Promised

\* The connector whose loss is noticed is in no desk.
LEMMA NoticePromises ==
  ASSUME PInv, Basics, Promised, NoticeLost
  PROVE  Promised'
<1>1. /\ todo = "nothing" /\ ctx = LOOP /\ phase \in {"check", "reaped"}
      /\ UNCHANGED <<status, stopConnect, session, connectThread, connectors, host, at, owner,
                     ctx, phase>>
      /\ \E n \in DOMAIN connectors :
           /\ connectors[n] \in AbsentConnectors /\ victim' = connectors[n]
           /\ todo' = IF Fires(connectors[n]) THEN "report" ELSE "delete"
  BY DEF NoticeLost, LoopIdle, Executing, vars, deskVars, loopVars, moduleVars, listVars,
         threadVars
<1>2. PICK k \in Listing : /\ k \in AbsentConnectors /\ victim' = k
                           /\ todo' = IF Fires(k) THEN "report" ELSE "delete"
  BY <1>1 DEF Listing, ToSet
<1>3. Attempts = {} /\ status /\ host[k] = session
  BY <1>1, <1>2 DEF Promised, Alone, Sessioned
<1>4. \A i \in Ids : owner[i] # k
  BY <1>2 DEF AbsentConnectors, PInv, IInv, AbsentMeansFree
<1>5. todo' = IF stopConnect THEN "delete" ELSE "report"
  BY <1>2, <1>3 DEF Fires
<1>6. Attempts' = Attempts /\ Listing' = Listing
  BY <1>1 DEF Attempts, Listing
<1>7. Alone'
  BY <1>1, <1>3, <1>5, <1>6 DEF Promised, Alone
<1>8. Sessioned'
  BY <1>1, <1>5, <1>6 DEF Promised, Sessioned
<1>9. Handled'
  BY <1>1, <1>2, <1>4, <1>5, <1>6 DEF Handled
<1> QED  BY <1>7, <1>8, <1>9 DEF Promised

LEMMA DeletePromises ==
  ASSUME PInv, Basics, Promised, DeleteLost
  PROVE  Promised'
<1>1. /\ todo = "delete" /\ todo' = "nothing" /\ Forget(victim, host)
      /\ UNCHANGED <<status, stopConnect, session, connectThread, at, owner, ctx, phase>>
  BY DEF DeleteLost, DropConnection, Executing, moduleVars, loopVars
<1>2. victim \in Listing /\ session = NoSession /\ (status \/ Listing = {})
  BY <1>1 DEF Promised, Alone, Sessioned, Handled
<1>3. Listing' = {} /\ Attempts' = Attempts
  BY <1>1, <1>2, LastGoes, SameAttempts DEF Basics
<1>4. Alone'
  BY <1>1, <1>2, <1>3 DEF Promised, Alone
<1>5. Sessioned'
  BY <1>1, <1>2, <1>3 DEF Sessioned
<1>6. Handled'
  BY <1>1 DEF Handled
<1> QED  BY <1>4, <1>5, <1>6 DEF Promised

\* A checker stops a connector, the sweep releases desks whose threads are through:
\* neither is an attempt.
LEMMA ReleasePromises ==
  ASSUME Basics, Promised, at' = at, todo = "nothing",
         UNCHANGED <<status, moduleVars, connectors, host, choreVars>>,
         \A i \in Ids : \/ owner'[i] = owner[i]
                        \/ owner'[i] = NoThread /\ (owner[i] \in Connectors \/ at[owner[i]] = "end")
  PROVE  Promised'
<1>1. /\ UNCHANGED <<status, stopConnect, session, connectThread, connectors, host, todo, victim>>
      /\ Listing' = Listing
  BY DEF moduleVars, choreVars, Listing
<1>2. Attempts' \subseteq Attempts
  BY FewerAttempts DEF Basics
<1>3. Attempts \subseteq Attempts'
  <2> SUFFICES ASSUME NEW u \in Attempts PROVE u \in Attempts'
    OBVIOUS
  <2>1. PICK i \in Ids : owner[i] = u
    BY DEF Attempts
  <2>2. owner'[i] = u
    BY <2>1 DEF Attempts, Basics
  <2> QED  BY <2>2 DEF Attempts
<1>4. Alone'
  BY <1>1, <1>2, <1>3 DEF Promised, Alone
<1>5. Sessioned'
  BY <1>1 DEF Promised, Sessioned, Basics
<1>6. Handled'
  BY <1>1 DEF Handled
<1> QED  BY <1>4, <1>5, <1>6 DEF Promised

LEMMA CheckerPromises ==
  ASSUME PInv, Basics, Promised, CheckerExpires
  PROVE  Promised'
<1>1. PICK i \in Ids : owner[i] \in checked /\ Halt(LOOP, i)
  BY DEF CheckerExpires
<1>2. /\ todo = "nothing" /\ at' = at
      /\ UNCHANGED <<status, moduleVars, connectors, host, choreVars>>
  BY DEF CheckerExpires, LoopIdle
<1>3. owner[i] \in Connectors
  BY <1>1 DEF PInv, ClientTypeOK
<1>4. owner' = owner \/ owner' = [owner EXCEPT ![i] = NoThread]
  BY <1>1, HaltDoes
<1>5. \A j \in Ids : \/ owner'[j] = owner[j]
                     \/ owner'[j] = NoThread /\ (owner[j] \in Connectors \/ at[owner[j]] = "end")
  BY <1>3, <1>4 DEF Basics
<1> QED  BY <1>2, <1>4, <1>5, ReleasePromises

LEMMA RestPromises ==
  ASSUME PInv, Basics, Promised, Stacked, LoopRest
  PROVE  Promised'
<1>1. /\ todo = "nothing" /\ at' = at
      /\ UNCHANGED <<status, moduleVars, connectors, host, choreVars>>
  BY DEF LoopRest, clientVars, listVars, threadVars
<1>2. CASE LoopReapThreads
  <2>1. owner' = [i \in Ids |-> IF i \in {j \in Ids : desk[j] = "STOPPED"} THEN NoThread ELSE owner[i]]
    BY <1>2 DEF LoopReapThreads, ReapThreads
  <2>2. \A i \in Ids : \/ owner'[i] = owner[i]
                       \/ owner'[i] = NoThread /\ (owner[i] \in Connectors \/ at[owner[i]] = "end")
    BY <2>1 DEF Stacked
  <2> QED  BY <1>1, <2>2, ReleasePromises
<1>3. CASE LoopConnectorsSwept \/ LoopSwitch
  <2>1. owner' = owner
    BY <1>3 DEF LoopConnectorsSwept, LoopSwitch, SwitchThread, deskVars
  <2> QED  BY <1>1, <2>1, QuietPromised DEF Basics, Pausing
<1> QED  BY <1>2, <1>3 DEF LoopRest

LEMMA LogPromises ==
  ASSUME PInv, Basics, Promised, NEW k, LogTo(k), todo \in Pausing, mode' = "up"
  PROVE  Promised'
<1>1. UNCHANGED <<status, moduleVars, connectors, host, choreVars, at>>
  BY DEF LogTo, clientVars, listVars, threadVars
<1>2. owner' = owner /\ phase' = phase
  BY WaitStays DEF LogTo, PInv, DesksStay, WaitForSocket, WaitForTime, loopVars
<1> QED  BY <1>1, <1>2, QuietPromised DEF Basics

LEMMA LoopPromises ==
  ASSUME PInv, ThreadNamed, Basics, Promised, Stacked, Turns, ClientLoopStep, mode' = "up"
  PROVE  Promised'
<1>1. CASE LoopTalks \/ NoticeLogs
  BY <1>1, LogPromises DEF LoopTalks, NoticeLogs, LoopIdle, Pausing
<1> QED
  BY <1>1, WifiUpPromises, WifiDownPromises, TellsPromises, StopPromises, HaltPromises,
     NoticePromises, DeletePromises, CheckerPromises, DelayPromises, RestPromises
  DEF ClientLoopStep

----------------------------------------------------------------------------
\* Whose desk i is and where it stands.
LEMMA ConnectingIs ==
  ASSUME PInv, Basics, Promised, NEW i \in Ids, NEW t \in Destroyable, NEW p \in {"begin", "retry"},
         Runs(i, t, p)
  PROVE  /\ current = i /\ ctx = i /\ ctx # LOOP /\ owner[i] = t /\ at[t] = p
         /\ t \in heap /\ t \notin Connectors
         /\ Attempts = {t} /\ Listing = {} /\ session = NoSession /\ ~stopConnect /\ status
         /\ todo = "nothing"
<1>1. /\ owner[i] = t /\ at[t] = p /\ current = i /\ ctx = i /\ ctx # LOOP
      /\ todo \in Pausing
  BY RunnerIs DEF Runs
<1>2. t \in Attempts
  BY <1>1 DEF Attempts
<1>3. Attempts = {t} /\ Listing = {} /\ ~stopConnect
  BY <1>1, <1>2 DEF Promised, Alone, Pausing
<1>4. todo = "nothing"
  BY <1>1, <1>3 DEF Promised, Handled, Pausing
<1>5. status /\ session = NoSession
  BY <1>3, <1>4 DEF Promised, Alone, Sessioned
<1> QED  BY <1>1, <1>3, <1>4, <1>5 DEF Basics

LEMMA ConnectorIs ==
  ASSUME PInv, Basics, Promised, NEW i \in Ids, NEW c \in Connectors, NEW p \in {"begin", "talk"},
         Runs(i, c, p)
  PROVE  /\ current = i /\ ctx = i /\ ctx # LOOP /\ owner[i] = c /\ at[c] = p
         /\ Listing = {c} /\ Attempts = {} /\ host[c] = session /\ ~stopConnect
         /\ todo \in {"nothing", "tell"} /\ c \notin Destroyable
<1>1. /\ owner[i] = c /\ at[c] = p /\ current = i /\ ctx = i /\ ctx # LOOP
      /\ todo \in Pausing
  BY RunnerIs DEF Runs
<1>2. c \in Listing /\ c \notin Destroyable
  BY <1>1 DEF Basics
<1>3. Listing = {c} /\ Attempts = {}
  BY <1>1, <1>2 DEF Promised, Alone, Pausing
<1>4. host[c] = session /\ ~stopConnect
  BY <1>1, <1>2 DEF Promised, Sessioned, Pausing
<1>5. todo # "report"
  BY <1>1, <1>3 DEF Promised, Handled
<1> QED  BY <1>1, <1>2, <1>3, <1>4, <1>5 DEF Pausing

LEMMA WaitPromises ==
  ASSUME PInv, Basics, Promised, NEW i \in Ids, Connecting(i) \/ Talk(i), mode' = "up"
  PROVE  Promised'
<1>1. Executing(i)
  BY DEF Connecting, Talk, Talking, Runs
<1>2. todo \in Pausing
  BY <1>1, RunnerIs
<1>3. /\ UNCHANGED <<status, moduleVars, connectors, host, choreVars, at>>
      /\ owner' = owner /\ phase' = phase
  BY WaitStays DEF Connecting, Talk, PInv, DesksStay, WaitForSocket, WaitForName, WaitForTime,
                   loopVars, clientVars, listVars, threadVars
<1> QED  BY <1>2, <1>3, QuietPromised DEF Basics

LEMMA ConnectedPromises ==
  ASSUME PInv, Basics, Promised, NEW i \in Ids, Connected(i), mode' = "up"
  PROVE  Promised'
<1>1. PICK t \in Destroyable, c \in Connectors :
        /\ Runs(i, t, "begin")
        /\ Start(i, c)
        /\ connectors' = <<c>> \o connectors
        /\ host' = [host EXCEPT ![c] = NoSession]
        /\ at' = [at EXCEPT ![t] = "end", ![c] = "begin"]
        /\ closed' = closed \ {c}
  BY DEF Connected
<1>2. /\ UNCHANGED <<status, stopConnect, session, connectThread, todo, victim>>
  BY DEF Connected, moduleVars, choreVars
<1>3. /\ ctx = i /\ owner[i] = t /\ t \notin Connectors
      /\ Attempts = {t} /\ Listing = {} /\ session = NoSession /\ ~stopConnect /\ status
      /\ todo = "nothing"
  BY <1>1, ConnectingIs
<1>4. PICK n \in Ids : /\ owner[n] = NoThread /\ owner' = [owner EXCEPT ![n] = c]
                       /\ UNCHANGED <<ctx, phase>>
  BY <1>1, StartDoes DEF PInv, Basics
<1>5. Listing' = {c}
  <2>1. c \notin ToSet(connectors)
    BY <1>3 DEF Listing
  <2>2. ToSet(connectors') = ToSet(connectors) \cup {c}
    BY <1>1, <2>1, SetAddedFirst DEF PInv, ClientTypeOK
  <2> QED  BY <1>3, <2>2 DEF Listing
<1>6. \A u \in Threads : at'[u] = IF u = c THEN "begin" ELSE IF u = t THEN "end" ELSE at[u]
  BY <1>1, <1>3 DEF Basics
<1>7. Attempts' = {}
  <2> SUFFICES ASSUME NEW u \in Attempts' PROVE FALSE
    OBVIOUS
  <2>1. PICK j \in Ids : owner'[j] = u /\ u \in Destroyable /\ at'[u] \in {"begin", "retry"}
    BY DEF Attempts
  <2>2. u # c /\ u # t /\ at[u] \in {"begin", "retry"}
    BY <1>6, <2>1 DEF Basics
  <2>3. owner[j] = u
    BY <1>4, <2>1, <2>2 DEF Basics
  <2>4. u \in Attempts
    BY <2>1, <2>2, <2>3 DEF Attempts
  <2> QED  BY <1>3, <2>2, <2>4
<1>8. Alone'
  BY <1>2, <1>3, <1>5, <1>6, <1>7 DEF Promised, Alone, Basics
<1>9. Sessioned'
  BY <1>1, <1>2, <1>3, <1>5, <1>6 DEF Sessioned, Basics
<1>10. Handled'
  BY <1>2, <1>3, <1>4 DEF Handled
<1> QED  BY <1>8, <1>9, <1>10 DEF Promised

LEMMA FailedPromises ==
  ASSUME PInv, Basics, Promised, NEW i \in Ids, ConnectFailed(i), mode' = "up"
  PROVE  Promised'
<1>1. PICK t \in Destroyable :
        /\ Runs(i, t, "begin")
        /\ IF stopConnect
           THEN Goes(t, "end") /\ UNCHANGED <<vars, session>>
           ELSE Goes(t, "retry") /\ session' = NoSession /\ WaitForTime(i)
  BY DEF ConnectFailed
<1>2. UNCHANGED <<status, stopConnect, connectThread, connectors, host, closed, todo, victim>>
  BY DEF ConnectFailed, listVars, choreVars
<1>3. /\ owner[i] = t /\ Attempts = {t} /\ Listing = {} /\ ~stopConnect /\ status
      /\ todo = "nothing"
  BY <1>1, ConnectingIs
<1>4. at' = [at EXCEPT ![t] = "retry"] /\ session' = NoSession /\ WaitForTime(i)
  BY <1>1, <1>3 DEF Goes
<1>5. owner' = owner
  BY <1>4, WaitStays DEF PInv, DesksStay
<1>6. \A u \in Threads : at'[u] = IF u = t THEN "retry" ELSE at[u]
  BY <1>4 DEF Basics
<1>7. Attempts' = Attempts
  BY <1>3, <1>5, <1>6 DEF Attempts, Basics
<1>8. Listing' = {}
  BY <1>2, <1>3 DEF Listing
<1>9. Alone'
  BY <1>2, <1>3, <1>6, <1>7, <1>8 DEF Promised, Alone
<1>10. Sessioned'
  BY <1>2, <1>4, <1>8 DEF Sessioned
<1>11. Handled'
  BY <1>2, <1>3 DEF Handled
<1> QED  BY <1>9, <1>10, <1>11 DEF Promised

LEMMA RetryPromises ==
  ASSUME PInv, Basics, Promised, NEW i \in Ids, Retry(i), mode' = "up"
  PROVE  Promised'
<1>1. PICK t \in Destroyable, u \in Destroyable :
        /\ Runs(i, t, "retry")
        /\ Start(i, u)
        /\ connectThread' = u
        /\ at' = [at EXCEPT ![t] = "end", ![u] = "begin"]
  BY DEF Retry
<1>2. stopConnect' = FALSE /\ UNCHANGED <<status, session, connectors, todo>>
  BY DEF Retry, listVars, choreVars
<1>3. /\ owner[i] = t /\ t \in heap /\ Attempts = {t} /\ Listing = {} /\ session = NoSession
      /\ status /\ todo = "nothing"
  BY <1>1, ConnectingIs
<1>4. u # t /\ \E n \in Ids : owner[n] = NoThread /\ owner' = [owner EXCEPT ![n] = u]
  BY <1>1, <1>3, StartDoes DEF PInv, Basics
<1>5. \A v \in Threads : at'[v] = IF v = u THEN "begin" ELSE IF v = t THEN "end" ELSE at[v]
  BY <1>1, <1>4 DEF Basics
<1>6. Attempts' = {u}
  <2>1. \A v \in Destroyable : v # u /\ at'[v] \in {"begin", "retry"} =>
          at[v] \in {"begin", "retry"} /\ v \notin Attempts
    BY <1>3, <1>5 DEF Basics
  <2>2. at'[u] = "begin"
    BY <1>5 DEF Basics
  <2> QED  BY <1>4, <2>1, <2>2, LaunchAttempts
<1>7. Listing' = {}
  BY <1>2, <1>3 DEF Listing
<1>8. Alone'
  <2>1. /\ \A v \in Threads : at'[v] = "retry" => v \in Destroyable
        /\ \A v \in Threads : at'[v] = "talk" => v \in Connectors
    BY <1>5 DEF Promised, Alone
  <2>2. status' = status /\ todo' = todo /\ ~stopConnect' /\ connectThread' = u
    BY <1>1, <1>2
  <2> QED  BY <1>3, <1>6, <1>7, <2>1, <2>2 DEF Alone
<1>9. Sessioned'
  BY <1>2, <1>3, <1>7 DEF Sessioned
<1>10. Handled'
  BY <1>2, <1>3 DEF Handled
<1> QED  BY <1>8, <1>9, <1>10 DEF Promised

\* A connector's own steps leave attempts and list alone.
LEMMA TalkerPromises ==
  ASSUME PInv, Basics, Promised, NEW i \in Ids, NEW c \in Connectors, NEW p \in {"begin", "talk"},
         Runs(i, c, p), owner' = owner, phase' = phase,
         UNCHANGED <<status, connectThread, connectors, choreVars>>,
         NEW q \in {"talk", "end"}, at' = [at EXCEPT ![c] = q],
         host'[c] = session',
         stopConnect' => q = "end" /\ session' = NoSession
  PROVE  Promised'
<1>1. /\ Listing = {c} /\ Attempts = {} /\ todo \in {"nothing", "tell"} /\ c \notin Destroyable
  BY ConnectorIs
<1>2. Listing' = Listing /\ todo' = todo /\ victim' = victim
  BY DEF Listing, choreVars
<1>3. \A u \in Threads : at'[u] = IF u = c THEN q ELSE at[u]
  BY DEF Basics
<1>4. Attempts' = {}
  BY <1>1, <1>3, SameAttempts DEF Basics
<1>5. Alone'
  BY <1>1, <1>2, <1>3, <1>4 DEF Promised, Alone
<1>6. Sessioned'
  BY <1>1, <1>2, <1>3 DEF Sessioned, Basics
<1>7. Handled'
  BY <1>1, <1>2 DEF Promised, Handled
<1> QED  BY <1>5, <1>6, <1>7 DEF Promised

LEMMA LoginPromises ==
  ASSUME PInv, Basics, Promised, NEW i \in Ids, Login(i)
  PROVE  Promised'
<1>1. PICK c \in Connectors : Runs(i, c, "begin") /\ at' = [at EXCEPT ![c] = "talk"]
  BY DEF Login, Goes
<1>2. /\ UNCHANGED <<status, stopConnect, session, connectThread, connectors, host, choreVars,
                     owner, phase>>
  BY DEF Login, vars, deskVars, loopVars, moduleVars
<1>3. host[c] = session /\ ~stopConnect
  BY <1>1, ConnectorIs
<1> QED  BY <1>1, <1>2, <1>3, TalkerPromises

\* The only connector there is gets the session, none is deleted.
LEMMA SuccessIs ==
  ASSUME PInv, Basics, Promised, NEW i \in Ids, LoginSuccess(i)
  PROVE  \E c \in Connectors, s \in Sessions :
           /\ Runs(i, c, "talk") /\ c \notin closed /\ session = NoSession /\ session' = s
           /\ host' = [host EXCEPT ![c] = s]
           /\ UNCHANGED <<vars, connectors, checked, closed, status, stopConnect, connectThread, at,
                          choreVars, reruns>>
<1>1. PICK c \in Connectors, s \in Sessions :
        /\ Talking(i, c) /\ host[c] = NoSession
        /\ session = NoSession => /\ session' = s
                                  /\ host' = [host EXCEPT ![c] = s]
                                  /\ UNCHANGED <<vars, connectors, checked, closed>>
  BY DEF LoginSuccess
<1>2. host[c] = session
  BY <1>1, ConnectorIs DEF Talking
<1> QED  BY <1>1, <1>2 DEF LoginSuccess, Talking

LEMMA SuccessPromises ==
  ASSUME PInv, Basics, Promised, NEW i \in Ids, LoginSuccess(i)
  PROVE  Promised'
<1>1. PICK c \in Connectors, s \in Sessions :
        /\ Runs(i, c, "talk") /\ session' = s /\ host' = [host EXCEPT ![c] = s]
        /\ UNCHANGED <<vars, connectors, status, stopConnect, connectThread, at, choreVars>>
  BY SuccessIs
<1>2. owner' = owner /\ phase' = phase
  BY <1>1 DEF vars, deskVars, loopVars
<1>3. at[c] = "talk" /\ ~stopConnect
  BY <1>1, ConnectorIs
<1>4. at' = [at EXCEPT ![c] = "talk"] /\ host'[c] = session'
  BY <1>1, <1>3 DEF Basics
<1> QED  BY <1>1, <1>2, <1>3, <1>4, TalkerPromises

\* A connector that ends itself is in the desk that runs.
LEMMA OwnHalt ==
  ASSUME PInv, Basics, Promised, NEW i \in Ids, Halt(i, i)
  PROVE  /\ owner' = owner /\ phase' = phase /\ UNCHANGED <<frames, current, posted, ctx, mode>>
         /\ waits' = waits \ {i}
         /\ desk' = [desk EXCEPT ![i] = "STOP_PENDING"] /\ closed' = closed \cup {owner[i]}
<1>1. current = i
  BY RunnerIs DEF Halt, Stop
<1> QED  BY <1>1, HaltDoes

LEMMA EndingPromises ==
  ASSUME PInv, Basics, Promised, NEW i \in Ids, LoginFailure(i) \/ ModuleExists(i)
  PROVE  Promised'
<1>1. PICK c \in Connectors :
        /\ Runs(i, c, "talk") /\ at' = [at EXCEPT ![c] = "end"]
        /\ stopConnect' => stopConnect \/ host[c] = NoSession
  BY DEF LoginFailure, ModuleExists, Talking, Goes, moduleVars
<1>2. /\ Halt(i, i) /\ UNCHANGED <<status, session, connectThread, connectors, host, choreVars>>
  BY DEF LoginFailure, ModuleExists, moduleVars, listVars
<1>3. owner[i] = c /\ host[c] = session /\ ~stopConnect
  BY <1>1, ConnectorIs
<1>4. owner' = owner /\ phase' = phase
  BY <1>2, <1>3, OwnHalt
<1> QED  BY <1>1, <1>2, <1>3, <1>4, TalkerPromises

LEMMA LostPromises ==
  ASSUME PInv, Basics, Promised, NEW i \in Ids, Lost(i)
  PROVE  Promised'
<1>1. PICK c \in Connectors :
        Runs(i, c, "talk") /\ at' = [at EXCEPT ![c] = "end"]
  BY DEF Lost, Goes
<1>2. /\ UNCHANGED <<status, stopConnect, session, connectThread, connectors, host, choreVars,
                     owner, phase>>
  BY DEF Lost, vars, deskVars, loopVars, moduleVars, listVars
<1>3. host[c] = session /\ ~stopConnect
  BY <1>1, ConnectorIs
<1> QED  BY <1>1, <1>2, <1>3, TalkerPromises

LEMMA NamePromises ==
  ASSUME PInv, Basics, Promised, NEW i \in Ids, ModuleName(i) \/ End(i)
  PROVE  Promised'
<1>1. Executing(i)
  BY DEF ModuleName, End, Talking, Runs
<1>2. todo \in Pausing
  BY <1>1, RunnerIs
<1>3. /\ UNCHANGED <<status, moduleVars, connectors, host, choreVars, at>>
      /\ owner' = owner /\ phase' = phase
  BY DEF ModuleName, End, Return, vars, deskVars, loopVars, threadVars
<1> QED  BY <1>2, <1>3, QuietPromised DEF Basics

LEMMA ThreadPromises ==
  ASSUME PInv, Basics, Promised, NEW i \in Ids, ClientThreadStep(i), mode' = "up"
  PROVE  Promised'
BY WaitPromises, ConnectedPromises, FailedPromises, RetryPromises, LoginPromises, SuccessPromises,
   EndingPromises, LostPromises, NamePromises
DEF ClientThreadStep

----------------------------------------------------------------------------
\* A thread that is started from its beginning stood there already.
LEMMA DispatchIs ==
  ASSUME PInv, Basics, Stacked, NEW i \in Ids, Dispatch(i), reruns = 0, reruns' = 0
  PROVE  /\ at' = at /\ ctx = SDK
         /\ ctx' = i /\ frames[i] = NoThread => at[owner[i]] # "end"
<1>1. CASE ctx' = i /\ frames[i] = NoThread
  <2>1. /\ at' = [at EXCEPT ![owner[i]] = "begin"]
        /\ closed' = closed \ ({owner[i]} \cap Destroyable)
        /\ reruns' = IF at[owner[i]] = "end" THEN reruns + 1 ELSE reruns
        /\ DispatchThread(i) /\ ctx = SDK
    BY <1>1 DEF Dispatch, DispatchThread, Goes
  <2>2. at[owner[i]] # "end"
    BY <2>1
  <2>3. desk[i] \in Runnable
    BY <1>1, <2>1, IdsFacts DEF DispatchThread
  <2>4. owner[i] # NoThread
    BY <2>3 DEF Runnable, Basics
  <2>5. at[owner[i]] = "begin"
    BY <1>1, <2>2, <2>4 DEF Stacked
  <2> QED  BY <2>1, <2>2, <2>5 DEF Basics
<1>2. CASE ~(ctx' = i /\ frames[i] = NoThread)
  BY <1>2 DEF Dispatch, DispatchThread, threadVars
<1> QED  BY <1>1, <1>2

LEMMA SdkPromises ==
  ASSUME PInv, Basics, Promised, Stacked, reruns = 0, reruns' = 0, mode = "up",
         ClientSdkStep, mode' = "up"
  PROVE  Promised'
<1>1. ASSUME NEW i \in Ids, Dispatch(i) PROVE Promised'
  <2>1. at' = at /\ ctx = SDK
    BY <1>1, DispatchIs
  <2>2. /\ owner' = owner /\ phase' = phase
        /\ UNCHANGED <<status, moduleVars, connectors, host, choreVars>>
    BY <1>1 DEF Dispatch, DispatchThread, loopVars, listVars
  <2>3. todo \in Pausing
    BY <2>1, IdsFacts DEF PInv, ClientTypeOK, Chores, Promised, Handled, Pausing
  <2> QED  BY <2>1, <2>2, <2>3, QuietPromised DEF Basics
<1>2. CASE SdkRest
  <2>1. ctx = SDK /\ phase' = phase
    BY <1>2 DEF SdkRest, DelayElapses, Callback, DispatchLoop, TimerFires, loopVars
  <2>2. owner' = owner
    BY <1>2, SdkStays DEF SdkRest, PInv, DesksStay
  <2>3. UNCHANGED <<status, moduleVars, connectors, host, choreVars, at>>
    BY <1>2 DEF SdkRest, clientVars, listVars, threadVars
  <2>4. todo \in Pausing
    BY <2>1, IdsFacts DEF PInv, ClientTypeOK, Chores, Promised, Handled, Pausing
  <2> QED  BY <2>1, <2>2, <2>3, <2>4, QuietPromised DEF Basics
<1>3. CASE ClientReboot
  BY <1>3 DEF ClientReboot, Reboot
<1> QED  BY <1>1, <1>2, <1>3 DEF ClientSdkStep

----------------------------------------------------------------------------
(***************************************************************************)
(* Whose stack, event or callback is whose (Stacked, Turns).               *)
(***************************************************************************)
\* The loop starts a ConnectThread.
LEMMA LoopStarts ==
  ASSUME PInv, Basics, Stacked, Turns, ctx = LOOP, todo \in Pausing,
         Connect(LOOP), mode' = "up", UNCHANGED <<connectors, host>>,
         todo' \in {"delay", "stop", "delete"}
  PROVE  Stacked' /\ Turns'
<1> USE IdsFacts
<1>1. PICK t \in Destroyable :
        /\ Start(LOOP, t) /\ at' = [at EXCEPT ![t] = "begin"] /\ closed' = closed \ {t}
  BY DEF Connect, Launch
<1>2. t \in Threads /\ t \notin Connectors /\ t # NoThread
  BY DEF Basics
<1>3. t \notin heap
  BY <1>1, <1>2, StartDoes DEF PInv
<1>4. PICK n \in Ids :
        /\ desk[n] = "ABSENT" /\ owner[n] = NoThread
        /\ desk' = [desk EXCEPT ![n] = "CREATED"]
        /\ owner' = [owner EXCEPT ![n] = t]
        /\ frames' = [frames EXCEPT ![n] = NoThread]
        /\ posted' = posted \cup {n}
        /\ UNCHANGED <<current, ctx, phase, waits>>
  BY <1>1, <1>2, StartDoes DEF PInv
<1>5. desk'[n] = "CREATED" /\ owner'[n] = t /\ frames'[n] = NoThread /\ at'[t] = "begin"
  BY <1>1, <1>2, <1>4 DEF Basics
<1>6. ASSUME NEW j \in Ids, j # n
      PROVE  /\ desk'[j] = desk[j] /\ owner'[j] = owner[j] /\ frames'[j] = frames[j]
             /\ owner[j] # NoThread => at'[owner[j]] = at[owner[j]]
  BY <1>1, <1>3, <1>4, <1>6 DEF Basics
<1>7. Stacked'
  <2> SUFFICES ASSUME NEW j \in Ids
               PROVE  /\ desk'[j] \in {"STOPPED", "STOP_PENDING"} => at'[owner'[j]] = "end"
                      /\ owner'[j] # NoThread /\ frames'[j] = NoThread =>
                           at'[owner'[j]] \in {"begin", "end"}
                      /\ owner'[j] # NoThread /\ at'[owner'[j]] = "end" /\ ctx' # j =>
                           frames'[j] = NoThread
                      /\ ctx' = j => frames'[j] # NoThread
    BY DEF Stacked
  <2>1. CASE j = n
    BY <1>4, <1>5, <2>1
  <2>2. CASE j # n
    BY <1>4, <1>6, <2>2 DEF Stacked, Basics
  <2> QED  BY <2>1, <2>2
<1>8. \A j \in Ids \cap posted : j # n /\ desk[j] = "CREATED" /\ owner[j] \in Destroyable
  BY <1>4 DEF Turns, PostedByLoop, Pausing
<1>9. \A j \in Ids \cap posted' : desk'[j] = "CREATED" /\ owner'[j] \in Destroyable
  BY <1>4, <1>5, <1>6, <1>8
<1>10. Awaited'
  <2>1. \A j \in Ids \cap waits : j # n /\ owner[j] # NoThread
    BY <1>4 DEF Turns, Awaited, Runnable, Basics
  <2> QED  BY <1>4, <1>6, <2>1 DEF Turns, Awaited
<1>11. LoopCurrent'
  <2> SUFFICES ASSUME current \in Ids
               PROVE  /\ Untaken'
                      /\ \/ CurrentGone'
                         \/ /\ phase' # "body"
                            /\ desk'[current'] = "CREATED" /\ owner'[current'] \in Destroyable
    BY <1>4 DEF LoopCurrent
  <2>1. /\ Untaken
        /\ \/ CurrentGone
           \/ phase # "body" /\ desk[current] = "CREATED" /\ owner[current] \in Destroyable
    BY DEF Turns, LoopCurrent
  <2>3. Untaken'
    BY DEF Untaken, Pausing
  <2>4. CASE current = n
    <3>1. phase # "body"
      BY <1>4, <2>1, <2>4 DEF Untaken
    <3> QED  BY <1>4, <1>5, <2>3, <2>4, <3>1
  <2>5. CASE current # n
    <3>1. desk'[current'] = desk[current] /\ owner'[current'] = owner[current]
      BY <1>4, <1>6, <2>5
    <3> QED  BY <1>4, <2>1, <2>3, <3>1 DEF CurrentGone
  <2> QED  BY <2>4, <2>5
<1>12. Posted' /\ PostedByLoop' /\ SdkCurrent'
  BY <1>4, <1>9 DEF Posted, PostedByLoop, SdkCurrent, Runnable
<1> QED  BY <1>7, <1>10, <1>11, <1>12 DEF Turns

\* The loop goes on; it may have released desks that nothing is posted for.
LEMMA LoopGoesOn ==
  ASSUME Basics, Stacked, Turns, ctx = LOOP, todo # "delay", ctx' = LOOP, current' = current,
         posted' = posted, frames' = frames, at' = at, waits' \subseteq waits,
         \A i \in Ids :
           \/ desk'[i] = desk[i] /\ owner'[i] = owner[i]
           \/ /\ desk'[i] = "ABSENT" /\ owner'[i] = NoThread /\ i \notin waits' /\ i \notin posted
              /\ i = current => desk[i] = "STOPPED"
           \/ /\ desk'[i] = "STOP_PENDING" /\ owner'[i] = owner[i] /\ at[owner[i]] = "end"
              /\ i \notin waits' /\ i \notin posted,
         phase = "body" \/ phase' # "body",
         phase' = "body" /\ todo' \in Pausing =>
           phase = "body" /\ todo \in Pausing /\ desk' = desk
  PROVE  Stacked' /\ Turns'
<1> USE IdsFacts
<1>1. Stacked'
  BY DEF Stacked, Basics
<1>2. \A j \in Ids \cap posted : desk[j] = "CREATED" /\ owner[j] \in Destroyable
  BY DEF Turns, PostedByLoop
<1>3. \A j \in Ids \cap posted' : desk'[j] = "CREATED" /\ owner'[j] \in Destroyable
  BY <1>2
<1>4. Awaited'
  BY DEF Turns, Awaited
<1>5. LoopCurrent'
  <2> SUFFICES ASSUME current \in Ids
               PROVE  /\ Untaken'
                      /\ \/ CurrentGone'
                         \/ /\ phase' # "body"
                            /\ desk'[current] = "CREATED" /\ owner'[current] \in Destroyable
    BY DEF LoopCurrent
  <2>1. /\ Untaken
        /\ \/ CurrentGone
           \/ phase # "body" /\ desk[current] = "CREATED" /\ owner[current] \in Destroyable
    BY DEF Turns, LoopCurrent
  <2>2. Untaken'
    BY <2>1 DEF Untaken
  <2>3. \/ desk'[current] = desk[current] /\ owner'[current] = owner[current]
        \/ desk'[current] \in {"ABSENT", "STOP_PENDING"}
    OBVIOUS
  <2> QED  BY <2>1, <2>2, <2>3 DEF CurrentGone
<1>6. Posted' /\ PostedByLoop' /\ SdkCurrent'
  BY <1>3 DEF Posted, PostedByLoop, SdkCurrent, Runnable
<1> QED  BY <1>1, <1>4, <1>5, <1>6 DEF Turns

\* The loop leaves the CPU to the SDK, and to a thread that waits for it.
LEMMA LoopYields ==
  ASSUME IInv, Basics, Stacked, Turns, ctx = LOOP, ctx' = SDK,
         UNCHANGED <<desk, owner, frames, at, connectors, host, status>>, closed' = closed,
         waits' \cap Ids \subseteq waits, posted \subseteq posted',
         \A i \in Ids \cap posted' : i \in posted \/ desk[i] \in {"WAITING", "DELAYED"},
         todo = "delay" => phase' # "body",
         current' \in Ids => /\ current' = current
                             /\ \/ Ids \cap posted' # {}
                                \/ phase = "body" /\ phase' # "body"
  PROVE  Stacked' /\ Turns'
<1> USE IdsFacts
<1>1. Stacked'
  BY DEF Stacked
<1>2. Attempts' = Attempts /\ Listing' = Listing
  BY DEF Attempts, Listing
<1>3. Posted'
  <2> SUFFICES ASSUME NEW j \in Ids \cap posted'
               PROVE  \/ desk[j] \in Runnable
                      \/ /\ desk[j] = "ABSENT" /\ Listing = {} /\ Attempts = {} /\ ~status
                         /\ phase' = "body" => todo' = "delay"
    BY <1>2 DEF Posted
  <2>1. CASE j \notin posted
    BY <2>1 DEF Runnable
  <2>2. CASE j \in posted /\ todo # "delay"
    BY <2>2 DEF Turns, PostedByLoop, Runnable
  <2>3. CASE j \in posted /\ todo = "delay"
    BY <2>3 DEF Turns, Posted
  <2> QED  BY <2>1, <2>2, <2>3
<1>4. Awaited'
  BY DEF Turns, Awaited
<1>5. ASSUME current' \in Ids PROVE SdkCurrent'
  <2>1. /\ Untaken /\ current' = current
        /\ \/ CurrentGone
           \/ phase # "body" /\ desk[current] = "CREATED" /\ owner[current] \in Destroyable
    BY <1>5 DEF Turns, LoopCurrent
  <2>2. owner[current] # NoThread /\ at[owner[current]] # "end" => current \in posted
    BY <1>5, <2>1 DEF CurrentGone, Stacked, Basics, IInv, StartIsPosted
  <2>3. Ids \cap posted' = {} => Untaken' /\ CurrentGone'
    BY <1>5, <2>1 DEF Untaken, CurrentGone
  <2> QED  BY <2>1, <2>2, <2>3 DEF SdkCurrent
<1>6. PostedByLoop' /\ LoopCurrent' /\ SdkCurrent'
  BY <1>5 DEF PostedByLoop, LoopCurrent, SdkCurrent
<1> QED  BY <1>1, <1>3, <1>4, <1>6 DEF Turns

\* When the loop waits for the answer to a log line, no thread is current, ...
LEMMA LogDoes ==
  ASSUME PInv, NEW k, LogTo(k), mode' = "up"
  PROVE  /\ current = LOOP /\ current' = LOOP /\ ctx' = SDK
         /\ UNCHANGED <<status, connectors, host, at, closed, todo, desk, owner, frames, phase>>
         /\ waits' \cap Ids \subseteq waits
         /\ WaitForSocket(LOOP) \/ WaitForTime(LOOP)
         /\ \E n \in Ids \cup {LOOP} : /\ posted' = posted \cup {n}
                                       /\ n \in Ids => desk[n] \in {"WAITING", "DELAYED"}
<1> USE IdsFacts
<1>1. current = LOOP
  <2>1. current \in Ids \cup {LOOP}
    BY DEF PInv, IInv, TypeOK
  <2>2. CASE current \in Ids
    <3>1. owner[current] = NoThread
      BY <2>2 DEF LogTo
    <3> QED  BY <2>2, <3>1 DEF LogTo, WaitForSocket, WaitForTime, SuspendThread, DelayThread, Block,
                               GoDown
  <2> QED  BY <2>1, <2>2
<1>2. UNCHANGED <<status, connectors, host, at, closed, todo>>
  BY DEF LogTo, clientVars, listVars, threadVars, choreVars
<1>3. WaitForSocket(LOOP) \/ WaitForTime(LOOP)
  BY DEF LogTo
<1>4. /\ ctx' = SDK /\ UNCHANGED <<owner, frames, heap, phase>>
      /\ waits' \cap Ids \subseteq waits \cup {LOOP}
      /\ \E s \in {"SUSPENDED", "DELAYED"}, m \in Ids \cup {LOOP} :
           /\ desk' = IF LOOP \in Ids THEN [desk EXCEPT ![LOOP] = s] ELSE desk
           /\ posted' = posted \cup {m}
           /\ current' = IF m = LOOP THEN LOOP ELSE LOOP
           /\ m \in Ids => m # LOOP /\ desk[m] \in {"WAITING", "DELAYED"}
           /\ LOOP \in waits' => s = "SUSPENDED" \/ LOOP \in waits
  BY <1>1, <1>3, WaitDoes DEF PInv
<1>5. /\ desk' = desk /\ current' = LOOP
      /\ \E n \in Ids \cup {LOOP} : /\ posted' = posted \cup {n}
                                    /\ n \in Ids => desk[n] \in {"WAITING", "DELAYED"}
  BY <1>4
<1>6. waits' \cap Ids \subseteq waits
  BY <1>4
<1> QED  BY <1>1, <1>2, <1>3, <1>4, <1>5, <1>6

\* ... and if the wait puts the chip down, the current thread is gone.
LEMMA LogFails ==
  ASSUME PInv, NEW k, LogTo(k), mode' # "up"
  PROVE  /\ mode' = "fault" /\ current \in Ids /\ desk[current] = "ABSENT"
         /\ CurrentGone' /\ UNCHANGED <<todo, phase>>
<1> USE IdsFacts
<1>1. Block(current, "SUSPENDED", due) \/ Block(current, "DELAYED", due \ {current})
  BY DEF LogTo, WaitForSocket, WaitForTime, SuspendThread, DelayThread
<1>2. mode = "up"
  BY DEF LogTo, WaitForSocket, WaitForTime, Executing
<1>3. current \in Ids /\ owner[current] = NoThread /\ GoDown("fault")
  BY <1>1, <1>2 DEF Block
<1>4. desk[current] = "ABSENT" /\ UNCHANGED <<desk, current>> /\ mode' = "fault"
  BY <1>3 DEF PInv, IInv, AbsentMeansFree, GoDown, deskVars
<1>5. UNCHANGED <<todo, phase>>
  BY DEF LogTo, WaitForSocket, WaitForTime, clientVars, choreVars, loopVars
<1> QED  BY <1>3, <1>4, <1>5 DEF CurrentGone

LEMMA LogTurns ==
  ASSUME PInv, Basics, Stacked, Turns, ctx = LOOP, NEW k, LogTo(k), mode' = "up", todo # "delay"
  PROVE  Stacked' /\ Turns'
<1>1. /\ UNCHANGED <<status, connectors, host, at, closed, desk, owner, frames>>
      /\ ctx' = SDK /\ current' = LOOP /\ waits' \cap Ids \subseteq waits
  BY LogDoes
<1>2. \E n \in Ids \cup {LOOP} : /\ posted' = posted \cup {n}
                                 /\ n \in Ids => desk[n] \in {"WAITING", "DELAYED"}
  BY LogDoes
<1>3. PICK n \in Ids \cup {LOOP} : /\ posted' = posted \cup {n}
                                   /\ n \in Ids => desk[n] \in {"WAITING", "DELAYED"}
  BY <1>2
<1>4. /\ posted \subseteq posted'
      /\ \A i \in Ids \cap posted' : i \in posted \/ desk[i] \in {"WAITING", "DELAYED"}
  BY <1>3, IdsFacts
<1>5. IInv /\ current' \notin Ids
  BY <1>1, IdsFacts DEF PInv
<1> QED  BY <1>1, <1>4, <1>5, LoopYields

LEMMA DownTurns ==
  ASSUME PInv, Basics, Stacked, Turns, ctx = LOOP, WifiDown
  PROVE  Stacked' /\ Turns'
<1>1. /\ todo = "nothing" /\ phase = "body"
      /\ UNCHANGED <<desk, owner, frames, at, ctx, current, posted, waits, connectors, host, closed,
                     phase>>
  BY DEF WifiDown, LoopIdle, vars, deskVars, loopVars, listVars, threadVars
<1> QED  BY <1>1, LoopGoesOn DEF Pausing

LEMMA StopTurns ==
  ASSUME PInv, Basics, Promised, Stacked, Turns, ctx = LOOP, DisconnectStop, mode' = "up"
  PROVE  Stacked' /\ Turns'
<1>1. /\ todo = "stop" /\ todo' = "halt" /\ StopAndDelete(LOOP, victim, host) /\ at' = at
  BY DEF DisconnectStop
<1>2. victim \in Listing /\ phase = "body"
  BY <1>1 DEF Promised, Handled
<1>4. UNCHANGED <<frames, current, posted, ctx, phase>>
  BY <1>1, DeletionDoes
<1>5. \/ UNCHANGED <<desk, owner, waits>>
      \/ \E i \in Ids : /\ owner[i] = victim /\ i # current
                        /\ desk' = [desk EXCEPT ![i] = "ABSENT"]
                        /\ owner' = [owner EXCEPT ![i] = NoThread]
                        /\ waits' = waits \ {i}
  BY <1>1, DeletionDoes
<1>6. \A i \in Ids : owner[i] = victim => i \notin posted
  BY <1>1, <1>2 DEF Turns, PostedByLoop, Basics
<1>7. /\ waits' \subseteq waits
      /\ \A i \in Ids :
           \/ desk'[i] = desk[i] /\ owner'[i] = owner[i]
           \/ /\ desk'[i] = "ABSENT" /\ owner'[i] = NoThread /\ i \notin waits' /\ i \notin posted
              /\ i # current
  <2>1. CASE UNCHANGED <<desk, owner, waits>>
    BY <2>1
  <2>2. ASSUME NEW i \in Ids, owner[i] = victim, i # current,
               desk' = [desk EXCEPT ![i] = "ABSENT"], owner' = [owner EXCEPT ![i] = NoThread],
               waits' = waits \ {i}
        PROVE  /\ waits' \subseteq waits
               /\ \A j \in Ids :
                    \/ desk'[j] = desk[j] /\ owner'[j] = owner[j]
                    \/ /\ desk'[j] = "ABSENT" /\ owner'[j] = NoThread /\ j \notin waits'
                       /\ j \notin posted /\ j # current
    BY <1>6, <2>2 DEF Basics
  <2> QED  BY <1>5, <2>1, <2>2
<1> QED  BY <1>1, <1>2, <1>4, <1>7, LoopGoesOn DEF Pausing

LEMMA DeleteTurns ==
  ASSUME PInv, Basics, Promised, Stacked, Turns, ctx = LOOP, DeleteLost
  PROVE  Stacked' /\ Turns'
<1>1. /\ todo = "delete" /\ todo' = "nothing" /\ Forget(victim, host) /\ at' = at
      /\ UNCHANGED <<desk, owner, frames, ctx, current, posted, waits, phase>>
  BY DEF DeleteLost, DropConnection, loopVars
<1>2. victim \in Listing /\ phase # "body"
  BY <1>1 DEF Promised, Handled
<1> QED  BY <1>1, <1>2, LoopGoesOn

LEMMA NoticeTurns ==
  ASSUME Basics, Stacked, Turns, ctx = LOOP, NoticeLost
  PROVE  Stacked' /\ Turns'
<1>1. /\ todo = "nothing" /\ phase \in {"check", "reaped"}
      /\ UNCHANGED <<desk, owner, frames, at, ctx, current, posted, waits, phase>>
  BY DEF NoticeLost, LoopIdle, vars, deskVars, loopVars, threadVars
<1> QED  BY <1>1, LoopGoesOn

LEMMA CheckerTurns ==
  ASSUME PInv, Basics, Stacked, Turns, ctx = LOOP, CheckerExpires
  PROVE  Stacked' /\ Turns'
<1>1. PICK i \in Ids : owner[i] \in checked /\ Halt(LOOP, i)
  BY DEF CheckerExpires
<1>2. todo = "nothing" /\ phase = "switch" /\ at' = at /\ UNCHANGED <<connectors, host, todo>>
  BY DEF CheckerExpires, LoopIdle, choreVars
<1>3. owner[i] \in Connectors /\ owner[i] \notin Destroyable
  BY <1>1 DEF PInv, ClientTypeOK, Basics
<1>4. i \notin posted
  BY <1>2, <1>3 DEF Turns, PostedByLoop
<1>5. UNCHANGED <<frames, current, posted, ctx, phase>> /\ waits' = waits \ {i}
  BY <1>1, HaltDoes
<1>6. CASE i # current
  <2>1. desk' = [desk EXCEPT ![i] = "ABSENT"] /\ owner' = [owner EXCEPT ![i] = NoThread]
    BY <1>1, <1>6, HaltDoes
  <2>2. \A j \in Ids :
          \/ desk'[j] = desk[j] /\ owner'[j] = owner[j]
          \/ /\ desk'[j] = "ABSENT" /\ owner'[j] = NoThread /\ j \notin waits' /\ j \notin posted
             /\ j # current
    BY <1>4, <1>5, <1>6, <2>1 DEF Basics
  <2> QED  BY <1>2, <1>5, <2>2, LoopGoesOn
<1>7. CASE i = current
  <2>1. desk' = [desk EXCEPT ![i] = "STOP_PENDING"] /\ owner' = owner
    BY <1>1, <1>7, HaltDoes
  <2>2. CurrentGone
    BY <1>3, <1>7 DEF Turns, LoopCurrent
  <2>3. at[owner[i]] = "end"
    BY <1>3, <1>7, <2>2, GoneIsThrough DEF Basics
  <2>4. \A j \in Ids :
          \/ desk'[j] = desk[j] /\ owner'[j] = owner[j]
          \/ /\ desk'[j] = "STOP_PENDING" /\ owner'[j] = owner[j] /\ at[owner[j]] = "end"
             /\ j \notin waits' /\ j \notin posted
    BY <1>4, <1>5, <2>1, <2>3 DEF Basics
  <2> QED  BY <1>2, <1>5, <2>4, LoopGoesOn
<1> QED  BY <1>6, <1>7

LEMMA RestTurns ==
  ASSUME PInv, Basics, Stacked, Turns, ctx = LOOP, LoopRest, mode' = "up"
  PROVE  Stacked' /\ Turns'
<1> USE IdsFacts
<1>1. /\ todo = "nothing" /\ UNCHANGED <<status, connectors, host, at, closed, todo>>
  BY DEF LoopRest, clientVars, listVars, threadVars, choreVars
<1>3. CASE LoopReapThreads
  <2>1. PICK done \in {{i \in Ids : desk[i] = "STOPPED"}} :
          /\ desk' = [i \in Ids |-> IF i \in done THEN "ABSENT" ELSE desk[i]]
          /\ owner' = [i \in Ids |-> IF i \in done THEN NoThread ELSE owner[i]]
          /\ UNCHANGED <<frames, current, posted, ctx, waits>> /\ phase' # "body"
    BY <1>3 DEF LoopReapThreads, ReapThreads
  <2>2. \A i \in Ids : desk[i] = "STOPPED" => i \notin posted /\ i \notin waits
    BY <1>1 DEF Turns, PostedByLoop, Awaited, Runnable
  <2>3. \A i \in Ids :
          \/ desk'[i] = desk[i] /\ owner'[i] = owner[i]
          \/ /\ desk'[i] = "ABSENT" /\ owner'[i] = NoThread /\ i \notin waits' /\ i \notin posted
             /\ desk[i] = "STOPPED"
    BY <2>1, <2>2
  <2> QED  BY <1>1, <2>1, <2>3, LoopGoesOn
<1>4. CASE LoopConnectorsSwept
  <2>1. /\ UNCHANGED <<desk, owner, frames, ctx, current, posted, waits>> /\ phase' # "body"
    BY <1>4 DEF LoopConnectorsSwept, deskVars
  <2> QED  BY <1>1, <2>1, LoopGoesOn
<1>5. CASE LoopSwitch
  <2>1. SwitchThread /\ waits' = waits /\ phase = "switch"
    BY <1>5 DEF LoopSwitch
  <2>2. ~ (current \in Ids /\ desk[current] = "RUNNING")
    BY DEF PInv, IInv, OneRunner
  <2>3. ctx' = SDK /\ UNCHANGED <<desk, owner, frames>> /\ HandOver(desk, due)
    BY <2>1, <2>2 DEF SwitchThread, Yield
  <2>4. PICK n \in Ids \cup {LOOP} :
          /\ IsNextSuspendThread(desk, due, n)
          /\ posted' = posted \cup {n}
          /\ current' = IF n = LOOP THEN LOOP ELSE current
    BY <2>3 DEF HandOver, EtsPost
  <2>5. n \in Ids => desk[n] \in {"WAITING", "DELAYED"}
    BY <2>4 DEF IsNextSuspendThread, Candidates
  <2> QED  BY <1>1, <2>1, <2>3, <2>4, <2>5, LoopYields DEF PInv
<1> QED  BY <1>3, <1>4, <1>5 DEF LoopRest

LEMMA DelayTurns ==
  ASSUME PInv, Basics, Stacked, Turns, ctx = LOOP, Delay
  PROVE  Stacked' /\ Turns'
<1>1. /\ phase = "body" /\ phase' = "check" /\ ctx' = SDK
      /\ UNCHANGED <<desk, owner, frames, at, connectors, host, status, closed, current, posted, waits>>
  BY DEF Delay, LoopDelay, deskVars, listVars, threadVars
<1> QED  BY <1>1, LoopYields DEF PInv

\* The desk of the last attempt may keep an event.
LEMMA HaltTurns ==
  ASSUME PInv, ThreadNamed, Basics, Promised, Stacked, Turns, DisconnectHalt
  PROVE  Stacked' /\ Turns'
<1> USE IdsFacts
<1>1. /\ todo = "halt" /\ todo' = "delay" /\ at' = at /\ status' = status /\ HaltConnectThread
  BY DEF DisconnectHalt
<1>2. /\ Attempts' = {} /\ Listing' = {} /\ ctx = LOOP /\ ~status /\ phase = "body"
      /\ ctx' = ctx /\ phase' = phase
  BY HaltEndsAttempts
<1>3. /\ UNCHANGED <<current, posted, frames>>
      /\ waits' \subseteq waits
      /\ \A j \in Ids :
           \/ desk'[j] = desk[j] /\ owner'[j] = owner[j]
           \/ /\ desk'[j] = "ABSENT" /\ owner'[j] = NoThread /\ j \notin waits'
              /\ j # current
           \/ /\ desk'[j] = "STOP_PENDING" /\ owner'[j] = owner[j] /\ j \notin waits'
              /\ j = current /\ owner[j] # NoThread
  <2>1. CASE UNCHANGED vars
    BY <2>1 DEF vars, deskVars
  <2>2. ASSUME NEW i \in Ids, Halt(LOOP, i)
        PROVE  /\ UNCHANGED <<current, posted, frames>>
               /\ waits' \subseteq waits
               /\ \A j \in Ids :
                    \/ desk'[j] = desk[j] /\ owner'[j] = owner[j]
                    \/ /\ desk'[j] = "ABSENT" /\ owner'[j] = NoThread /\ j \notin waits'
                       /\ j # current
                    \/ /\ desk'[j] = "STOP_PENDING" /\ owner'[j] = owner[j] /\ j \notin waits'
                       /\ j = current /\ owner[j] # NoThread
    BY <2>2, HaltDoes DEF Basics
  <2> QED  BY <1>1, <2>1, <2>2 DEF HaltConnectThread
<1>4. current \in Ids => CurrentGone
  BY <1>2 DEF Turns, LoopCurrent
<1>5. current \in Ids => owner[current] = NoThread \/ at[owner[current]] = "end"
  BY <1>4, GoneIsThrough
<1>6. Stacked'
  BY <1>1, <1>2, <1>3, <1>5 DEF Stacked, Basics
<1>7. \A j \in Ids \cap posted : desk[j] = "CREATED" /\ j # current
  BY <1>1, <1>2, <1>4 DEF Turns, PostedByLoop, CurrentGone
<1>8. Posted'
  BY <1>1, <1>2, <1>3, <1>7 DEF Posted, Runnable
<1>9. Awaited'
  BY <1>1, <1>3 DEF Turns, Awaited
<1>10. LoopCurrent'
  <2> SUFFICES ASSUME current \in Ids PROVE Untaken' /\ CurrentGone'
    BY <1>3 DEF LoopCurrent
  <2>1. Untaken'
    BY <1>1 DEF Untaken, Pausing
  <2>2. CurrentGone'
    BY <1>3, <1>4 DEF CurrentGone
  <2> QED  BY <2>1, <2>2
<1>11. PostedByLoop' /\ SdkCurrent'
  BY <1>1, <1>2 DEF PostedByLoop, SdkCurrent
<1> QED  BY <1>6, <1>8, <1>9, <1>10, <1>11 DEF Turns

LEMMA LoopTurns ==
  ASSUME PInv, ThreadNamed, Basics, Promised, Stacked, Turns, ctx = LOOP, ClientLoopStep, mode' = "up"
  PROVE  Stacked' /\ Turns'
<1>1. CASE WifiUp \/ NoticeTells
  <2>1. /\ Connect(LOOP) /\ todo \in Pausing /\ todo' \in {"delay", "stop", "delete"}
        /\ UNCHANGED <<connectors, host>>
    BY <1>1 DEF WifiUp, NoticeTells, OnFireConnector, LoopIdle, listVars, Pausing
  <2> QED  BY <2>1, LoopStarts
<1>2. CASE LoopTalks
  BY <1>2, LogTurns DEF LoopTalks, LoopIdle
<1>3. CASE NoticeLogs
  BY <1>3, LogTurns DEF NoticeLogs
<1> QED
  BY <1>1, <1>2, <1>3, DownTurns, StopTurns, HaltTurns, NoticeTurns, DeleteTurns, CheckerTurns,
     DelayTurns, RestTurns
  DEF ClientLoopStep

----------------------------------------------------------------------------
\* The thread in desk i is in the middle of its function.
LEMMA RunnerStands ==
  ASSUME PInv, Basics, Promised, Stacked, NEW i \in Ids, Executing(i), at[owner[i]] # "end"
  PROVE  /\ desk[i] = "RUNNING" /\ frames[i] # NoThread
         /\ owner[i] \in Attempts \cup Listing
         /\ Turns => /\ i \notin posted /\ i \notin waits
                     /\ \A j \in Ids \cap posted : desk[j] \in Runnable
<1>1. ctx = i /\ desk[i] \in {"RUNNING", "STOP_PENDING"} /\ owner[i] # NoThread
  BY RunnerIs
<1>2. desk[i] = "RUNNING" /\ frames[i] # NoThread
  BY <1>1 DEF Stacked
<1>3. owner[i] \in Attempts \cup Listing
  <2>1. CASE owner[i] \in Connectors
    BY <2>1 DEF Basics
  <2>2. CASE owner[i] \in Destroyable
    <3>1. at[owner[i]] \in {"begin", "retry"}
      BY <2>2 DEF Basics, Promised, Alone, Places
    <3> QED  BY <2>2, <3>1 DEF Attempts
  <2> QED  BY <1>1, <2>1, <2>2 DEF Basics, Connectors
<1>4. ASSUME Turns
      PROVE  /\ i \notin posted /\ i \notin waits
             /\ \A j \in Ids \cap posted : desk[j] \in Runnable
  BY <1>2, <1>3, <1>4 DEF Turns, Posted, Awaited, Runnable
<1> QED  BY <1>2, <1>3, <1>4

\* Whatever the thread in desk i does, the others stay as they are.
LEMMA DoomStays ==
  ASSUME Basics, Doomed, NEW i \in Ids, ~Armed(i), posted \ {i} \subseteq posted',
         ctx' # LOOP,
         \A j \in Ids : j # i /\ owner[j] # NoThread =>
           desk'[j] = desk[j] /\ owner'[j] = owner[j] /\ at'[owner[j]] = at[owner[j]]
  PROVE  Doomed'
<1>1. PICK j \in Ids \cap posted : Armed(j)
  BY DEF Doomed
<1>2. j # i
  BY <1>1
<1> QED  BY <1>1, <1>2 DEF Doomed, Armed

\* A connector goes on.
LEMMA TalkerTurns ==
  ASSUME PInv, Basics, Promised, Stacked, Doomed \/ Turns, NEW i \in Ids, NEW c \in Connectors,
         NEW p \in {"begin", "talk"}, Runs(i, c, p), NEW q \in Places, at' = [at EXCEPT ![c] = q],
         UNCHANGED <<owner, frames, posted, ctx, current>>, waits' \subseteq waits,
         \/ desk' = desk
         \/ desk' = [desk EXCEPT ![i] = "STOP_PENDING"] /\ q = "end"
  PROVE  Stacked' /\ (Doomed' \/ Turns')
<1> USE IdsFacts
<1>1. Executing(i) /\ owner[i] = c /\ ctx = i /\ ctx # LOOP /\ ctx # SDK /\ at[c] # "end"
  BY ConnectorIs DEF Runs
<1>2. desk[i] = "RUNNING" /\ frames[i] # NoThread
  BY <1>1, RunnerStands
<1>3. at'[c] = q /\ \A j \in Ids : j # i /\ owner[j] # NoThread => at'[owner[j]] = at[owner[j]]
  BY <1>1 DEF Basics
<1>4. \A j \in Ids : j # i => desk'[j] = desk[j]
  BY DEF Basics
<1>5. desk'[i] = "RUNNING" \/ (desk'[i] = "STOP_PENDING" /\ q = "end")
  BY <1>2 DEF Basics
<1>6. Stacked'
  <2> SUFFICES ASSUME NEW j \in Ids
               PROVE  /\ desk'[j] \in {"STOPPED", "STOP_PENDING"} => at'[owner'[j]] = "end"
                      /\ owner'[j] # NoThread /\ frames'[j] = NoThread =>
                           at'[owner'[j]] \in {"begin", "end"}
                      /\ owner'[j] # NoThread /\ at'[owner'[j]] = "end" /\ ctx' # j =>
                           frames'[j] = NoThread
                      /\ ctx' = j => frames'[j] # NoThread
    BY DEF Stacked
  <2>1. CASE j = i
    BY <1>1, <1>2, <1>3, <1>5, <2>1
  <2>2. CASE j # i /\ owner[j] # NoThread
    BY <1>1, <1>3, <1>4, <2>2 DEF Stacked
  <2>3. CASE j # i /\ owner[j] = NoThread
    BY <1>1, <1>4, <2>3 DEF Stacked, Basics
  <2> QED  BY <2>1, <2>2, <2>3
<1>7. CASE Doomed
  BY <1>1, <1>2, <1>3, <1>4, <1>6, <1>7, DoomStays DEF Armed, Runnable
<1>8. CASE Turns
  <2>1. i \notin posted /\ i \notin waits /\ \A j \in Ids \cap posted : desk[j] \in Runnable
    BY <1>1, <1>8, RunnerStands
  <2>2. Posted'
    BY <1>4, <2>1 DEF Posted
  <2>3. Awaited'
    <3>1. \A j \in Ids \cap waits : j # i /\ owner[j] # NoThread
      BY <1>8, <2>1 DEF Turns, Awaited, Runnable, Basics
    <3> QED  BY <1>3, <1>4, <1>8, <3>1 DEF Turns, Awaited
  <2>4. owner[ctx] \notin Destroyable
    BY <1>1 DEF Basics
  <2>5. PostedByLoop' /\ LoopCurrent' /\ SdkCurrent'
    BY <1>1, <2>4 DEF PostedByLoop, LoopCurrent, SdkCurrent
  <2> QED  BY <1>6, <2>2, <2>3, <2>5 DEF Turns
<1> QED  BY <1>7, <1>8

\* A ConnectThread starts the thread that goes on for it.
LEMMA StarterTurns ==
  ASSUME PInv, Basics, Promised, Stacked, Doomed \/ Turns, NEW i \in Ids, NEW t \in Destroyable,
         NEW p \in {"begin", "retry"}, Runs(i, t, p), NEW u \in Threads, Start(i, u), mode' = "up",
         at' = [at EXCEPT ![t] = "end", ![u] = "begin"]
  PROVE  Stacked' /\ (Doomed' \/ Turns')
<1> USE IdsFacts
<1>1. /\ Executing(i) /\ owner[i] = t /\ ctx = i /\ ctx # LOOP /\ ctx # SDK /\ at[t] # "end"
      /\ current = i /\ t \in heap
  BY ConnectingIs DEF Runs
<1>2. desk[i] = "RUNNING" /\ frames[i] # NoThread
  BY <1>1, RunnerStands
<1>3. u \notin heap
  BY StartDoes DEF PInv
<1>4. PICK n \in Ids :
        /\ desk[n] = "ABSENT" /\ owner[n] = NoThread
        /\ desk' = [desk EXCEPT ![n] = "CREATED"]
        /\ owner' = [owner EXCEPT ![n] = u]
        /\ frames' = [frames EXCEPT ![n] = NoThread]
        /\ posted' = posted \cup {n}
        /\ UNCHANGED <<current, ctx, phase, waits>>
  BY StartDoes DEF PInv
<1>5. /\ desk'[n] = "CREATED" /\ owner'[n] = u /\ frames'[n] = NoThread /\ at'[u] = "begin"
      /\ n # i /\ u # NoThread
  BY <1>2, <1>4 DEF Basics
<1>6. ASSUME NEW j \in Ids, j # n
      PROVE  /\ desk'[j] = desk[j] /\ owner'[j] = owner[j] /\ frames'[j] = frames[j]
             /\ owner[j] # NoThread /\ j # i => at'[owner[j]] = at[owner[j]]
  <2>1. desk'[j] = desk[j] /\ owner'[j] = owner[j] /\ frames'[j] = frames[j]
    BY <1>4, <1>6 DEF Basics
  <2>2. ASSUME owner[j] # NoThread, j # i PROVE at'[owner[j]] = at[owner[j]]
    <3>1. owner[j] # u /\ owner[j] # t
      BY <1>1, <1>3, <2>2 DEF Basics
    <3> QED  BY <2>2, <3>1 DEF Basics
  <2> QED  BY <2>1, <2>2
<1>7. Stacked'
  <2> SUFFICES ASSUME NEW j \in Ids
               PROVE  /\ desk'[j] \in {"STOPPED", "STOP_PENDING"} => at'[owner'[j]] = "end"
                      /\ owner'[j] # NoThread /\ frames'[j] = NoThread =>
                           at'[owner'[j]] \in {"begin", "end"}
                      /\ owner'[j] # NoThread /\ at'[owner'[j]] = "end" /\ ctx' # j =>
                           frames'[j] = NoThread
                      /\ ctx' = j => frames'[j] # NoThread
    BY DEF Stacked
  <2>1. CASE j = n
    BY <1>1, <1>4, <1>5, <2>1
  <2>2. CASE j = i
    BY <1>1, <1>2, <1>4, <1>5, <1>6, <2>2
  <2>3. CASE j # n /\ j # i
    BY <1>1, <1>4, <1>6, <2>3 DEF Stacked, Basics
  <2> QED  BY <2>1, <2>2, <2>3
<1>8. CASE Doomed
  <2>1. \A j \in Ids : owner[j] # NoThread => j # n
    BY <1>4
  <2>2. Doomed'
    BY <1>1, <1>2, <1>4, <1>6, <1>8, <2>1, DoomStays DEF Armed, Runnable
  <2> QED  BY <1>7, <2>2
<1>9. CASE Turns
  <2>1. i \notin posted /\ i \notin waits /\ \A j \in Ids \cap posted : desk[j] \in Runnable
    BY <1>1, <1>9, RunnerStands
  <2>2. Posted'
    <3>1. \A j \in Ids \cap posted : j # n
      BY <1>4, <2>1 DEF Runnable
    <3> QED  BY <1>4, <1>5, <1>6, <2>1, <3>1 DEF Posted, Runnable
  <2>3. Awaited'
    <3>1. \A j \in Ids \cap waits : j # i /\ j # n /\ owner[j] # NoThread
      BY <1>4, <1>9, <2>1 DEF Turns, Awaited, Runnable, Basics
    <3>2. \A j \in Ids \cap waits :
            desk'[j] = desk[j] /\ owner'[j] = owner[j] /\ at'[owner[j]] = at[owner[j]]
      BY <1>6, <3>1
    <3>3. Awaited /\ waits' = waits
      BY <1>4, <1>9 DEF Turns
    <3> QED  BY <1>4, <3>1, <3>2, <3>3 DEF Awaited
  <2>4. PostedByLoop' /\ LoopCurrent' /\ SdkCurrent'
    BY <1>1, <1>4 DEF PostedByLoop, LoopCurrent, SdkCurrent
  <2> QED  BY <1>7, <2>2, <2>3, <2>4 DEF Turns
<1> QED  BY <1>8, <1>9

\* Only one desk holds a thread that is in the middle of its function, ...
LEMMA OthersAreThrough ==
  ASSUME PInv, Basics, Promised, Stacked, NEW i \in Ids, Executing(i), at[owner[i]] # "end",
         NEW n \in Ids, n # i, owner[n] # NoThread
  PROVE  at[owner[n]] = "end"
<1> SUFFICES ASSUME at[owner[n]] # "end" PROVE FALSE
  OBVIOUS
<1>1. owner[i] \in Attempts \cup Listing /\ todo \in Pausing
  BY RunnerStands, RunnerIs
<1>2. owner[n] \in Attempts \cup Listing
  <2>1. CASE owner[n] \in Connectors
    BY <2>1 DEF Basics
  <2>2. CASE owner[n] \in Destroyable
    <3>1. at[owner[n]] \in {"begin", "retry"}
      BY <2>2 DEF Basics, Promised, Alone, Places
    <3> QED  BY <2>2, <3>1 DEF Attempts
  <2> QED  BY <2>1, <2>2 DEF Basics, Connectors
<1>3. owner[i] = owner[n]
  BY <1>1, <1>2 DEF Promised, Alone, Pausing
<1> QED  BY <1>3 DEF Basics

\* ... so when that one waits, the CPU goes to the loop, or to a thread that has
\* returned.
LEMMA WaiterTurns ==
  ASSUME PInv, Basics, Promised, Stacked, Doomed \/ Turns, NEW i \in Ids, Executing(i),
         at[owner[i]] # "end", WaitForSocket(i) \/ WaitForName(i) \/ WaitForTime(i), mode' = "up",
         NEW q \in Places \ {"end", "begin"}, at' = at \/ at' = [at EXCEPT ![owner[i]] = q]
  PROVE  Stacked' /\ (Doomed' \/ Turns')
<1> USE IdsFacts
<1>1. ctx = i /\ current = i /\ owner[i] # NoThread /\ owner[i] \in Threads
  BY RunnerIs DEF Basics
<1>2. desk[i] = "RUNNING" /\ frames[i] # NoThread
  BY RunnerStands
<1>3. /\ ctx' = SDK /\ UNCHANGED <<owner, frames, heap, phase>>
      /\ waits' \cap Ids \subseteq waits \cup {i}
      /\ \E s \in {"SUSPENDED", "DELAYED"}, n \in Ids \cup {LOOP} :
           /\ desk' = IF i \in Ids THEN [desk EXCEPT ![i] = s] ELSE desk
           /\ posted' = posted \cup {n}
           /\ current' = IF n = LOOP THEN LOOP ELSE i
           /\ n \in Ids => n # i /\ desk[n] \in {"WAITING", "DELAYED"}
           /\ i \in waits' => s = "SUSPENDED" \/ i \in waits
  BY <1>1, WaitDoes DEF PInv
<1>4. PICK s \in {"SUSPENDED", "DELAYED"}, n \in Ids \cup {LOOP} :
        /\ desk' = [desk EXCEPT ![i] = s]
        /\ posted' = posted \cup {n}
        /\ current' = IF n = LOOP THEN LOOP ELSE i
        /\ n \in Ids => n # i /\ desk[n] \in {"WAITING", "DELAYED"}
        /\ i \in waits' => s = "SUSPENDED" \/ i \in waits
  BY <1>3
<1>5. /\ desk'[i] = s /\ at'[owner[i]] # "end"
      /\ \A j \in Ids : j # i => desk'[j] = desk[j]
      /\ \A j \in Ids : j # i /\ owner[j] # NoThread => at'[owner[j]] = at[owner[j]]
  BY <1>1, <1>4 DEF Basics
<1>6. Stacked'
  <2> SUFFICES ASSUME NEW j \in Ids
               PROVE  /\ desk'[j] \in {"STOPPED", "STOP_PENDING"} => at'[owner'[j]] = "end"
                      /\ owner'[j] # NoThread /\ frames'[j] = NoThread =>
                           at'[owner'[j]] \in {"begin", "end"}
                      /\ owner'[j] # NoThread /\ at'[owner'[j]] = "end" /\ ctx' # j =>
                           frames'[j] = NoThread
                      /\ ctx' = j => frames'[j] # NoThread
    BY DEF Stacked
  <2>1. CASE j = i
    BY <1>2, <1>3, <1>4, <1>5, <2>1
  <2>2. CASE j # i
    BY <1>1, <1>3, <1>5, <2>2 DEF Stacked, Basics
  <2> QED  BY <2>1, <2>2
<1>7. CASE n \in Ids
  <2>1. n # i /\ desk[n] \in {"WAITING", "DELAYED"} /\ owner[n] # NoThread
    BY <1>4, <1>7 DEF Basics
  <2>2. at[owner[n]] = "end"
    BY <1>7, <2>1, OthersAreThrough
  <2>3. Armed(n)'
    BY <1>3, <1>5, <1>7, <2>1, <2>2 DEF Armed, Runnable
  <2> QED  BY <1>3, <1>4, <1>6, <1>7, <2>3 DEF Doomed
<1>8. CASE Doomed
  BY <1>2, <1>3, <1>4, <1>5, <1>6, <1>8, DoomStays DEF Armed, Runnable
<1>9. CASE n = LOOP /\ Turns
  <2>1. i \notin posted /\ i \notin waits /\ \A j \in Ids \cap posted : desk[j] \in Runnable
    BY <1>9, RunnerStands
  <2>2. Posted'
    BY <1>4, <1>5, <1>9, <2>1 DEF Posted
  <2>3. Awaited'
    <3> SUFFICES ASSUME NEW j \in Ids \cap waits'
                 PROVE  /\ desk'[j] \in Runnable
                        /\ at'[owner'[j]] # "end" => desk'[j] = "SUSPENDED" /\ j \notin posted'
      BY DEF Awaited
    <3>1. CASE j = i
      BY <1>4, <1>5, <1>9, <2>1, <3>1 DEF Runnable
    <3>2. CASE j # i
      <4>1. j \in waits
        BY <1>3, <3>2
      <4>2. owner[j] # NoThread
        BY <1>9, <4>1 DEF Turns, Awaited, Runnable, Basics
      <4> QED  BY <1>3, <1>4, <1>5, <1>9, <3>2, <4>1, <4>2 DEF Turns, Awaited
    <3> QED  BY <3>1, <3>2
  <2>4. PostedByLoop' /\ LoopCurrent' /\ SdkCurrent'
    BY <1>3, <1>4, <1>9 DEF PostedByLoop, LoopCurrent, SdkCurrent
  <2> QED  BY <1>6, <2>2, <2>3, <2>4 DEF Turns
<1> QED  BY <1>7, <1>8, <1>9

\* A thread that returns leaves its desk to nobody.
LEMMA EndTurns ==
  ASSUME PInv, Basics, Promised, Stacked, Doomed \/ Turns, NEW i \in Ids, End(i)
  PROVE  Stacked' /\ (Doomed' \/ Turns')
<1> USE IdsFacts
<1>1. /\ Executing(i) /\ at[owner[i]] = "end"
      /\ desk' = [desk EXCEPT ![i] = "STOPPED"] /\ frames' = [frames EXCEPT ![i] = NoThread]
      /\ ctx' = SDK
      /\ UNCHANGED <<owner, current, posted, waits, phase, at, closed, connectors, host, status, todo>>
  BY DEF End, Runs, Return, loopVars, threadVars, choreVars
<1>2. /\ ctx = i /\ current = i /\ owner[i] # NoThread /\ desk[i] \in {"RUNNING", "STOP_PENDING"}
  BY <1>1, RunnerIs
<1>3. /\ desk'[i] = "STOPPED" /\ frames'[i] = NoThread
      /\ \A j \in Ids : j # i => desk'[j] = desk[j] /\ frames'[j] = frames[j]
  BY <1>1 DEF Basics
<1>4. Stacked'
  BY <1>1, <1>2, <1>3 DEF Stacked
<1>5. CASE Doomed
  BY <1>1, <1>2, <1>3, <1>4, <1>5, DoomStays DEF Armed, Runnable
<1>6. CASE Turns
  <2>1. Attempts' = Attempts /\ Listing' = Listing
    BY <1>1 DEF Attempts, Listing
  <2>2. i \notin posted /\ i \notin waits
    BY <1>2, <1>6 DEF Turns, Posted, Awaited, Runnable
  <2>3. Posted'
    BY <1>1, <1>3, <1>6, <2>1, <2>2 DEF Turns, Posted
  <2>4. Awaited'
    BY <1>1, <1>3, <1>6, <2>2 DEF Turns, Awaited
  <2>5. SdkCurrent'
    BY <1>1, <1>2, <1>3 DEF SdkCurrent, Untaken, CurrentGone
  <2>6. PostedByLoop' /\ LoopCurrent'
    BY <1>1 DEF PostedByLoop, LoopCurrent
  <2> QED  BY <1>4, <2>3, <2>4, <2>5, <2>6 DEF Turns
<1> QED  BY <1>5, <1>6

LEMMA ThreadTurns ==
  ASSUME PInv, Basics, Promised, Stacked, Doomed \/ Turns, NEW i \in Ids, ClientThreadStep(i),
         mode' = "up"
  PROVE  Stacked' /\ (Doomed' \/ Turns')
<1>1. CASE Connecting(i) \/ Talk(i)
  <2>1. Executing(i) /\ at[owner[i]] # "end" /\ at' = at
    BY <1>1 DEF Connecting, Talk, Talking, Runs, clientVars, threadVars
  <2>2. WaitForSocket(i) \/ WaitForName(i) \/ WaitForTime(i)
    BY <1>1 DEF Connecting, Talk
  <2> QED  BY <2>1, <2>2, WaiterTurns DEF Places
<1>2. CASE ConnectFailed(i)
  <2>1. PICK t \in Destroyable :
          /\ Runs(i, t, "begin")
          /\ IF stopConnect
             THEN Goes(t, "end") /\ UNCHANGED <<vars, session>>
             ELSE Goes(t, "retry") /\ session' = NoSession /\ WaitForTime(i)
    BY <1>2 DEF ConnectFailed
  <2>2. ~stopConnect /\ owner[i] = t /\ at[t] = "begin" /\ Executing(i)
    BY <2>1, ConnectingIs DEF Runs
  <2>3. at' = [at EXCEPT ![owner[i]] = "retry"] /\ WaitForTime(i)
    BY <2>1, <2>2 DEF Goes
  <2> QED  BY <2>2, <2>3, WaiterTurns DEF Places
<1>3. CASE Connected(i)
  BY <1>3, StarterTurns DEF Connected, Basics
<1>4. CASE Retry(i)
  BY <1>4, StarterTurns DEF Retry, Basics
<1>5. CASE Login(i) \/ Lost(i)
  <2>1. PICK c \in Connectors, p \in {"begin", "talk"}, q \in {"talk", "end"} :
          Runs(i, c, p) /\ at' = [at EXCEPT ![c] = q]
    BY <1>5 DEF Login, Lost, Goes
  <2>2. UNCHANGED <<desk, owner, frames, posted, ctx, current, waits>>
    BY <1>5 DEF Login, Lost, vars, deskVars
  <2> QED  BY <2>1, <2>2, TalkerTurns DEF Places
<1>6. CASE LoginSuccess(i)
  <2>1. PICK c \in Connectors : Runs(i, c, "talk") /\ at' = at /\ UNCHANGED vars
    BY <1>6, SuccessIs
  <2>2. at' = [at EXCEPT ![c] = "talk"]
    BY <2>1, ConnectorIs DEF Basics
  <2>3. UNCHANGED <<desk, owner, frames, posted, ctx, current, waits>>
    BY <2>1 DEF vars, deskVars
  <2> QED  BY <2>1, <2>2, <2>3, TalkerTurns DEF Places
<1>7. CASE ModuleName(i)
  <2>1. PICK c \in Connectors : Runs(i, c, "talk") /\ at' = at /\ UNCHANGED vars
    BY <1>7 DEF ModuleName, Talking, PInv, ClientTypeOK, threadVars
  <2>2. at' = [at EXCEPT ![c] = "talk"]
    BY <2>1, ConnectorIs DEF Basics
  <2>3. UNCHANGED <<desk, owner, frames, posted, ctx, current, waits>>
    BY <2>1 DEF vars, deskVars
  <2> QED  BY <2>1, <2>2, <2>3, TalkerTurns DEF Places
<1>8. CASE LoginFailure(i) \/ ModuleExists(i)
  <2>1. PICK c \in Connectors : Runs(i, c, "talk") /\ at' = [at EXCEPT ![c] = "end"]
    BY <1>8 DEF LoginFailure, ModuleExists, Talking, Goes
  <2>2. Halt(i, i)
    BY <1>8 DEF LoginFailure, ModuleExists
  <2>3. /\ UNCHANGED <<owner, frames, posted, ctx, current>> /\ waits' \subseteq waits
        /\ desk' = [desk EXCEPT ![i] = "STOP_PENDING"]
    BY <2>2, OwnHalt
  <2> QED  BY <2>1, <2>3, TalkerTurns DEF Places
<1>9. CASE End(i)
  BY <1>9, EndTurns
<1> QED  BY <1>1, <1>2, <1>3, <1>4, <1>5, <1>6, <1>7, <1>8, <1>9 DEF ClientThreadStep

----------------------------------------------------------------------------
\* A thread that gets the CPU is not at its end: the run would count as a rerun.
LEMMA DispatchTurns ==
  ASSUME PInv, Basics, Stacked, Doomed \/ Turns, NEW i \in Ids, Dispatch(i), reruns = 0, reruns' = 0
  PROVE  Stacked' /\ (Doomed' \/ Turns')
<1> USE IdsFacts
<1>1. /\ at' = at /\ ctx = SDK
      /\ ctx' = i /\ frames[i] = NoThread => at[owner[i]] # "end"
  BY DispatchIs
<1>2. /\ i \in posted /\ posted' = posted \ {i} /\ current' = i
      /\ UNCHANGED <<owner, waits, phase, status, todo, connectors, host>>
      /\ IF desk[i] \in Runnable
         THEN /\ desk' = [desk EXCEPT ![i] = "RUNNING"]
              /\ frames' = [frames EXCEPT ![i] = IF @ = NoThread THEN owner[i] ELSE @]
              /\ ctx' = i
         ELSE UNCHANGED <<desk, frames, ctx>>
  BY DEF Dispatch, DispatchThread, loopVars, listVars, choreVars
<1>3. Attempts' = Attempts /\ Listing' = Listing
  BY <1>1, <1>2 DEF Attempts, Listing
<1>4. CASE desk[i] \in Runnable
  <2>1. owner[i] # NoThread /\ at[owner[i]] # "end"
    BY <1>1, <1>2, <1>4 DEF Basics, Stacked, Runnable
  <2>2. /\ desk'[i] = "RUNNING" /\ frames'[i] # NoThread
        /\ \A j \in Ids : j # i => desk'[j] = desk[j] /\ frames'[j] = frames[j]
    BY <1>2, <1>4, <2>1 DEF Basics
  <2>3. Stacked'
    BY <1>1, <1>2, <1>4, <2>1, <2>2 DEF Stacked
  <2>4. CASE Doomed
    <3>1. Doomed'
      BY <1>1, <1>2, <1>4, <2>1, <2>2, <2>4, DoomStays DEF Armed
    <3> QED  BY <2>3, <3>1
  <2>5. CASE Turns
    <3>1. Posted'
      BY <1>2, <1>3, <2>2, <2>5 DEF Turns, Posted
    <3>2. i \notin waits
      BY <1>2, <2>1, <2>5 DEF Turns, Awaited
    <3>3. Awaited'
      BY <1>1, <1>2, <2>2, <2>5, <3>2 DEF Turns, Awaited
    <3>4. PostedByLoop' /\ LoopCurrent' /\ SdkCurrent'
      BY <1>1, <1>2, <1>4, <2>1 DEF PostedByLoop, LoopCurrent, SdkCurrent
    <3> QED  BY <2>3, <3>1, <3>3, <3>4 DEF Turns
  <2> QED  BY <2>4, <2>5
<1>5. CASE desk[i] \notin Runnable
  <2>1. Stacked'
    BY <1>1, <1>2, <1>5 DEF Stacked
  <2>2. CASE Doomed
    <3>1. Doomed'
      BY <1>1, <1>2, <1>5, <2>2, DoomStays DEF Armed
    <3> QED  BY <2>1, <3>1
  <2>3. CASE Turns
    <3>1. /\ desk[i] = "ABSENT" /\ Listing = {}
          /\ phase = "body" => todo = "delay"
      BY <1>2, <1>5, <2>3 DEF Turns, Posted
    <3>2. Posted'
      BY <1>2, <1>3, <1>5, <2>3 DEF Turns, Posted
    <3>3. Awaited'
      BY <1>1, <1>2, <1>5, <2>3 DEF Turns, Awaited
    <3>4. SdkCurrent'
      BY <1>1, <1>2, <1>3, <1>5, <3>1 DEF SdkCurrent, Untaken, CurrentGone, Basics, Pausing
    <3>5. PostedByLoop' /\ LoopCurrent'
      BY <1>1, <1>2, <1>5 DEF PostedByLoop, LoopCurrent
    <3> QED  BY <2>1, <3>2, <3>3, <3>4, <3>5 DEF Turns
  <2> QED  BY <2>2, <2>3
<1> QED  BY <1>4, <1>5

\* A callback posts one event more, for a desk or for the loop.
LEMMA CallbackTurns ==
  ASSUME PInv, Basics, Stacked, Doomed \/ Turns, NEW id \in Ids \cup {LOOP}, Callback(id),
         UNCHANGED clientVars, mode' = "up"
  PROVE  Stacked' /\ (Doomed' \/ Turns')
<1> USE IdsFacts
<1>1. /\ ctx = SDK /\ id \in waits /\ waits' = waits \ {id} /\ phase' = phase /\ ResumeThread(id)
      /\ mode = "up" /\ UNCHANGED <<at, closed, connectors, host, status, todo>>
  BY DEF Callback, loopVars, clientVars, listVars, threadVars, choreVars
<1>2. ~ (current \in Ids /\ owner[current] = NoThread)
  BY <1>1 DEF ResumeThread, GoDown
<1>3. /\ posted' = posted \cup {id} /\ current' = (IF id = LOOP THEN LOOP ELSE current)
      /\ current \in Ids => desk' = [desk EXCEPT ![current] = "WAITING"]
      /\ current \notin Ids => desk' = desk
      /\ ctx' = SDK /\ UNCHANGED <<owner, frames>>
  BY <1>1, <1>2 DEF ResumeThread, EtsPost, SetState, Yield
<1>4. \A j \in Ids : \/ desk'[j] = desk[j]
                     \/ j = current /\ desk'[j] = "WAITING" /\ owner[j] # NoThread
  BY <1>2, <1>3 DEF Basics
<1>5. Attempts' = Attempts /\ Listing' = Listing
  BY <1>1, <1>3 DEF Attempts, Listing
<1>6. Stacked'
  BY <1>1, <1>3, <1>4 DEF Stacked
<1>7. CASE Doomed
  <2>1. PICK j \in Ids \cap posted : Armed(j)
    BY <1>7 DEF Doomed
  <2>2. Armed(j)'
    BY <1>1, <1>3, <1>4, <2>1 DEF Armed, Runnable
  <2>3. j \in posted' /\ ctx' # LOOP
    BY <1>3, <2>1
  <2> QED  BY <1>6, <2>1, <2>2, <2>3 DEF Doomed
<1>8. CASE Turns
  <2>1. Posted'
    <3> SUFFICES ASSUME NEW j \in Ids \cap posted'
                 PROVE  \/ desk'[j] \in Runnable
                        \/ /\ desk'[j] = "ABSENT" /\ Listing = {} /\ Attempts = {} /\ ~status
                           /\ phase = "body" => todo = "delay"
      BY <1>1, <1>5 DEF Posted
    <3>1. CASE j = id
      BY <1>1, <1>4, <1>8, <3>1 DEF Turns, Awaited, Runnable
    <3>2. CASE j \in posted
      BY <1>4, <1>8, <3>2 DEF Turns, Posted, Runnable
    <3> QED  BY <1>3, <3>1, <3>2
  <2>2. Awaited'
    <3> SUFFICES ASSUME NEW j \in Ids \cap waits'
                 PROVE  /\ desk'[j] \in Runnable
                        /\ at[owner[j]] # "end" => desk'[j] = "SUSPENDED" /\ j \notin posted'
      BY <1>1, <1>3 DEF Awaited
    <3>1. /\ j \in waits /\ j # id /\ desk[j] \in Runnable
          /\ at[owner[j]] # "end" => desk[j] = "SUSPENDED" /\ j \notin posted
      BY <1>1, <1>8 DEF Turns, Awaited
    <3>2. owner[j] # NoThread
      BY <3>1 DEF Runnable, Basics
    <3>3. at[owner[j]] # "end" => j # current
      BY <1>1, <1>8, <3>1, <3>2 DEF Turns, SdkCurrent
    <3> QED  BY <1>3, <1>4, <3>1, <3>3 DEF Runnable
  <2>3. SdkCurrent'
    BY <1>1, <1>3, <1>8 DEF Turns, SdkCurrent
  <2>4. PostedByLoop' /\ LoopCurrent'
    BY <1>3 DEF PostedByLoop, LoopCurrent
  <2> QED  BY <1>6, <2>1, <2>2, <2>3, <2>4 DEF Turns
<1> QED  BY <1>7, <1>8

LEMMA SdkTurns ==
  ASSUME PInv, Basics, Stacked, Doomed \/ Turns, mode = "up", reruns = 0, reruns' = 0,
         ClientSdkStep, mode' = "up"
  PROVE  Stacked' /\ (Doomed' \/ Turns')
<1> USE IdsFacts
<1>1. CASE DispatchLoop /\ UNCHANGED clientVars
  <2>1. /\ ctx = SDK /\ posted = {LOOP} /\ posted' = {} /\ ctx' = LOOP
        /\ UNCHANGED <<desk, owner, frames, current, waits, phase, at, closed, connectors, host, todo>>
    BY <1>1 DEF DispatchLoop, deskVars, clientVars, listVars, threadVars, choreVars
  <2>2. Turns
    BY <2>1 DEF Doomed
  <2>3. Stacked'
    BY <2>1 DEF Stacked
  <2>4. Awaited'
    BY <2>1, <2>2 DEF Turns, Awaited
  <2>5. LoopCurrent'
    <3> SUFFICES ASSUME current \in Ids PROVE Untaken' /\ CurrentGone'
      BY <2>1 DEF LoopCurrent
    <3>1. Untaken /\ CurrentGone
      BY <2>1, <2>2 DEF Turns, SdkCurrent
    <3> QED  BY <2>1, <3>1 DEF Untaken, CurrentGone
  <2>6. Posted' /\ PostedByLoop' /\ SdkCurrent'
    BY <2>1 DEF Posted, PostedByLoop, SdkCurrent
  <2> QED  BY <2>3, <2>4, <2>5, <2>6 DEF Turns
<1>2. CASE (TimerFires \/ \E i \in Ids : DelayElapses(i)) /\ UNCHANGED clientVars
  <2>1. /\ ctx = SDK /\ posted' \cap Ids = posted \cap Ids
        /\ UNCHANGED <<desk, owner, frames, current, waits, ctx, phase, at, closed, connectors, host,
                       todo, status>>
    BY <1>2 DEF TimerFires, DelayElapses, EtsPost, deskVars, loopVars, clientVars, listVars,
                threadVars, choreVars
  <2>2. Stacked'
    BY <2>1 DEF Stacked
  <2>3. Attempts' = Attempts /\ Listing' = Listing
    BY <2>1 DEF Attempts, Listing
  <2>4. Doomed => Doomed'
    BY <2>1 DEF Doomed, Armed
  <2>5. ASSUME Turns PROVE Turns'
    <3>1. Posted' /\ Awaited'
      BY <2>1, <2>3, <2>5 DEF Turns, Posted, Awaited
    <3>2. SdkCurrent'
      BY <2>1, <2>3, <2>5 DEF Turns, SdkCurrent, Untaken, CurrentGone
    <3>3. PostedByLoop' /\ LoopCurrent'
      BY <2>1 DEF PostedByLoop, LoopCurrent
    <3> QED  BY <3>1, <3>2, <3>3 DEF Turns
  <2> QED  BY <2>2, <2>4, <2>5
<1>3. CASE ClientReboot
  BY <1>3 DEF ClientReboot, Reboot
<1> QED  BY <1>1, <1>2, <1>3, DispatchTurns, CallbackTurns DEF ClientSdkStep, SdkRest

----------------------------------------------------------------------------
(***************************************************************************)
(* The walk over the list is not cut short by a reset (Told).              *)
(***************************************************************************)
LEMMA ToldStays ==
  ASSUME Told, todo' = todo,
         \A i \in Ids :
           desk'[i] = "ABSENT" =>
             /\ desk[i] = "ABSENT"
             /\ i \in posted' \/ i \in waits' \/ i = current' =>
                  i \in posted \/ i \in waits \/ i = current
  PROVE  Told'
BY DEF Told

LEMMA LoopTold ==
  ASSUME PInv, Basics, Promised, Turns, Told, ctx = LOOP, ClientLoopStep, mode' = "up"
  PROVE  Told'
<1> USE IdsFacts
<1>1. CASE WifiDown
  <2>1. /\ todo = "nothing" /\ phase = "body" /\ UNCHANGED <<desk, posted, waits, current>>
    BY <1>1 DEF WifiDown, LoopIdle, vars, deskVars
  <2>2. ASSUME NEW i \in Ids, desk[i] = "ABSENT"
        PROVE  i \notin posted /\ i \notin waits /\ i # current
    BY <2>1, <2>2 DEF Turns, PostedByLoop, Awaited, Runnable, LoopCurrent, Untaken, Pausing
  <2> QED  BY <2>1, <2>2 DEF Told
<1>2. CASE NoticeLogs
  <2>1. LogTo(victim)
    BY <1>2 DEF NoticeLogs
  <2>2. /\ todo' = todo /\ desk' = desk /\ waits' \cap Ids \subseteq waits /\ current' = LOOP
        /\ \E n \in Ids \cup {LOOP} : /\ posted' = posted \cup {n}
                                      /\ n \in Ids => desk[n] \in {"WAITING", "DELAYED"}
    BY <2>1, LogDoes
  <2>3. PICK n \in Ids \cup {LOOP} : /\ posted' = posted \cup {n}
                                     /\ n \in Ids => desk[n] \in {"WAITING", "DELAYED"}
    BY <2>2
  <2>4. \A i \in Ids : desk[i] = "ABSENT" => (i \in posted' => i \in posted)
    BY <2>3
  <2> QED  BY <2>2, <2>4, ToldStays
<1>3. CASE ~WifiDown /\ ~NoticeLogs
  <2>1. todo' # "tell"
    BY <1>3
    DEF ClientLoopStep, WifiUp, LoopTalks, LogTo, NoticeTells, DisconnectStop, DisconnectHalt,
        NoticeLost, DeleteLost, CheckerExpires, Delay, LoopRest, LoopIdle, clientVars, choreVars
  <2> QED  BY <2>1 DEF Told
<1> QED  BY <1>1, <1>2, <1>3

LEMMA WaitTold ==
  ASSUME PInv, Basics, Promised, Told, NEW i \in Ids, Executing(i),
         WaitForSocket(i) \/ WaitForName(i) \/ WaitForTime(i), mode' = "up", todo' = todo
  PROVE  Told'
<1> USE IdsFacts
<1>1. current = i
  BY RunnerIs
<1>2. /\ waits' \cap Ids \subseteq waits \cup {i}
      /\ \E s \in {"SUSPENDED", "DELAYED"}, n \in Ids \cup {LOOP} :
           /\ desk' = IF i \in Ids THEN [desk EXCEPT ![i] = s] ELSE desk
           /\ posted' = posted \cup {n}
           /\ current' = IF n = LOOP THEN LOOP ELSE i
           /\ n \in Ids => n # i /\ desk[n] \in {"WAITING", "DELAYED"}
           /\ i \in waits' => s = "SUSPENDED" \/ i \in waits
  BY <1>1, WaitDoes DEF PInv
<1>3. PICK s \in {"SUSPENDED", "DELAYED"}, n \in Ids \cup {LOOP} :
        /\ desk' = [desk EXCEPT ![i] = s]
        /\ posted' = posted \cup {n}
        /\ current' = IF n = LOOP THEN LOOP ELSE i
        /\ n \in Ids => n # i /\ desk[n] \in {"WAITING", "DELAYED"}
  BY <1>2
<1>4. desk'[i] = s /\ \A j \in Ids : j # i => desk'[j] = desk[j]
  BY <1>3 DEF Basics
<1>5. ASSUME NEW j \in Ids, desk'[j] = "ABSENT"
      PROVE  /\ desk[j] = "ABSENT"
             /\ j \in posted' \/ j \in waits' \/ j = current' =>
                  j \in posted \/ j \in waits \/ j = current
  <2>1. j # i /\ desk[j] = "ABSENT"
    BY <1>4, <1>5
  <2>2. j # n
    BY <1>3, <2>1
  <2> QED  BY <1>2, <1>3, <2>1, <2>2
<1> QED  BY <1>5, ToldStays

LEMMA ThreadTold ==
  ASSUME PInv, Basics, Promised, Told, NEW i \in Ids, ClientThreadStep(i), mode' = "up"
  PROVE  Told'
<1>1. CASE Connecting(i) \/ Talk(i)
  <2>1. Executing(i) /\ todo' = todo
    BY <1>1 DEF Connecting, Talk, Talking, Runs, clientVars, choreVars
  <2> QED  BY <1>1, <2>1, WaitTold DEF Connecting, Talk
<1>2. CASE ConnectFailed(i) \/ Connected(i) \/ Retry(i)
  <2>1. todo' = todo /\ \E t \in Destroyable, p \in {"begin", "retry"} : Runs(i, t, p)
    BY <1>2 DEF ConnectFailed, Connected, Retry, choreVars
  <2>2. todo' = "nothing"
    BY <2>1, ConnectingIs
  <2> QED  BY <2>2 DEF Told
<1>3. CASE Login(i) \/ Lost(i) \/ LoginSuccess(i) \/ ModuleName(i)
  <2>1. UNCHANGED vars /\ todo' = todo
    BY <1>3, SuccessIs DEF Login, Lost, ModuleName, choreVars
  <2> QED  BY <2>1, ToldStays DEF vars, deskVars
<1>4. CASE LoginFailure(i) \/ ModuleExists(i)
  <2>1. Halt(i, i) /\ todo' = todo
    BY <1>4 DEF LoginFailure, ModuleExists, choreVars
  <2>2. desk' = [desk EXCEPT ![i] = "STOP_PENDING"] /\ UNCHANGED <<posted, current>> /\ waits' \subseteq waits
    BY <2>1, OwnHalt
  <2>3. \A j \in Ids : desk'[j] = "ABSENT" => desk[j] = "ABSENT"
    BY <2>2 DEF Basics
  <2> QED  BY <2>1, <2>2, <2>3, ToldStays
<1>5. CASE End(i)
  <2>1. desk' = [desk EXCEPT ![i] = "STOPPED"] /\ UNCHANGED <<posted, current, waits, todo>>
    BY <1>5 DEF End, Return, choreVars
  <2>2. \A j \in Ids : desk'[j] = "ABSENT" => desk[j] = "ABSENT"
    BY <2>1 DEF Basics
  <2> QED  BY <2>1, <2>2, ToldStays
<1> QED  BY <1>1, <1>2, <1>3, <1>4, <1>5 DEF ClientThreadStep

LEMMA SdkTold ==
  ASSUME PInv, Basics, Told, ClientSdkStep, mode = "up", mode' = "up"
  PROVE  Told'
<1> USE IdsFacts
<1>1. ASSUME NEW i \in Ids, Dispatch(i) PROVE Told'
  <2>1. /\ i \in posted /\ posted' \subseteq posted /\ current' = i /\ UNCHANGED <<waits, todo>>
        /\ desk' \in {desk, [desk EXCEPT ![i] = "RUNNING"]}
    BY <1>1 DEF Dispatch, DispatchThread, choreVars
  <2>2. \A j \in Ids : desk'[j] = "ABSENT" => desk[j] = "ABSENT"
    BY <2>1 DEF Basics
  <2> QED  BY <2>1, <2>2, ToldStays
<1>2. ASSUME NEW id \in Ids \cup {LOOP}, Callback(id), UNCHANGED clientVars PROVE Told'
  <2>1. /\ id \in waits /\ waits' \subseteq waits /\ todo' = todo /\ ResumeThread(id)
    BY <1>2 DEF Callback, clientVars, choreVars
  <2>2. /\ posted' = posted \cup {id} /\ current' \in {LOOP, current}
        /\ desk' = desk \/ desk' = [desk EXCEPT ![current] = "WAITING"]
    BY <2>1 DEF ResumeThread, EtsPost, SetState, GoDown
  <2>3. \A j \in Ids : desk'[j] = "ABSENT" => desk[j] = "ABSENT"
    BY <2>2 DEF Basics
  <2> QED  BY <2>1, <2>2, <2>3, ToldStays
<1>3. CASE (DispatchLoop \/ TimerFires \/ \E i \in Ids : DelayElapses(i)) /\ UNCHANGED clientVars
  <2>1. UNCHANGED <<desk, current, waits, todo>> /\ posted' \cap Ids \subseteq posted
    BY <1>3 DEF DispatchLoop, TimerFires, DelayElapses, EtsPost, deskVars, clientVars, choreVars
  <2> QED  BY <2>1, ToldStays
<1>4. CASE ClientReboot
  BY <1>4 DEF ClientReboot, Reboot
<1> QED  BY <1>1, <1>2, <1>3, <1>4 DEF ClientSdkStep, SdkRest

----------------------------------------------------------------------------
(***************************************************************************)
(* Why the chip resets.                                                    *)
(***************************************************************************)
Cause ==
  /\ mode = "panic" => \E i \in Ids : Returned(i)
  /\ mode = "fault" => CurrentGone

LEMMA StartFails ==
  ASSUME PInv, Basics, NEW c, NEW t \in Threads, Start(c, t), mode' # "up"
  PROVE  /\ mode' = "panic" /\ UNCHANGED <<owner, frames>> /\ t \notin heap
         /\ \A i \in Ids : owner[i] # NoThread /\ owner[i] # t
<1>1. StartThread(t) /\ mode = "up"
  BY DEF Start, Executing
<1>2. mode' # mode
  BY <1>1
<1>3. \A i \in Ids : desk[i] # "ABSENT"
  BY <1>1, <1>2 DEF StartThread
<1> QED  BY <1>1, <1>3 DEF StartThread, GoDown, deskVars, Basics

\* Nobody waits on behalf of a desk that holds no thread.
LEMMA WaitFails ==
  ASSUME NEW c, current = c, WaitForSocket(c) \/ WaitForName(c) \/ WaitForTime(c), mode' # "up"
  PROVE  c \in Ids /\ owner[c] = NoThread
<1>1. PICK s \in {"SUSPENDED", "DELAYED"}, now \in {due, due \ {c}} : Block(c, s, now) /\ mode = "up"
  BY DEF WaitForSocket, WaitForName, WaitForTime, SuspendThread, DelayThread, Executing
<1>2. CASE ~(c \in Ids /\ owner[c] = NoThread)
  BY <1>1, <1>2 DEF Block
<1> QED  BY <1>2

LEMMA HaltStaysUp ==
  ASSUME NEW c, NEW i \in Ids, Halt(c, i)
  PROVE  mode' = "up"
BY HaltDoes DEF Halt, Stop, Executing

\* The loop finds no desk for a ConnectThread: what it finds in a desk has returned.
LEMMA ConnectFails ==
  ASSUME PInv, Basics, Stacked, ctx = LOOP, NEW c, Connect(c), mode' # "up",
         NEW i \in Ids, owner[i] # NoThread => at[owner[i]] = "end"
  PROVE  Cause'
<1>1. PICK t \in Destroyable : Start(c, t) /\ at' = [at EXCEPT ![t] = "begin"]
  BY DEF Connect, Launch
<1>2. /\ mode' = "panic" /\ UNCHANGED <<owner, frames>> /\ owner[i] # NoThread /\ owner[i] # t
  BY <1>1, StartFails DEF Basics
<1>3. at[owner[i]] = "end" /\ at'[owner[i]] = "end"
  BY <1>1, <1>2 DEF Basics
<1>4. frames[i] = NoThread
  BY <1>2, <1>3, IdsFacts DEF Stacked
<1> QED  BY <1>2, <1>3, <1>4 DEF Cause, Returned

\* With two desks there is always another one.
LEMMA OtherDesk ==
  ASSUME THREAD_MAX >= 2, NEW i
  PROVE  \E j \in Ids : j # i
<1>1. THREAD_START_ID \in Ids /\ THREAD_START_ID + 1 \in Ids /\ THREAD_START_ID + 1 # THREAD_START_ID
  BY DeskAssumption DEF Ids, THREAD_START_ID
<1> QED  BY <1>1

\* Every desk but the one of the connector in question holds a thread that has
\* returned, as long as nothing attempts to connect.
LEMMA OthersReturned ==
  ASSUME Basics, Promised, Attempts = {}, NEW k \in Listing, NEW i \in Ids,
         owner[i] # NoThread, owner[i] # k
  PROVE  at[owner[i]] = "end"
<1>1. owner[i] \in Destroyable
  BY DEF Basics, Promised, Alone, Connectors
<1>2. at[owner[i]] \notin {"begin", "retry"}
  BY <1>1 DEF Attempts
<1> QED  BY <1>1, <1>2 DEF Basics, Promised, Alone, Places

LEMMA LoopFails ==
  ASSUME PInv, Basics, Promised, Stacked, Turns, ctx = LOOP, ClientLoopStep, mode' # "up"
  PROVE  todo' # "tell" /\ (THREAD_MAX >= 2 => Cause')
<1> USE IdsFacts
<1>1. CASE WifiUp
  <2>1. /\ ~status /\ todo = "nothing" /\ Connect(LOOP) /\ todo' = "delay"
    BY <1>1 DEF WifiUp, LoopIdle
  <2>2. Attempts = {} /\ Listing = {}
    BY <2>1 DEF Promised, Alone
  <2>3. owner[THREAD_START_ID] # NoThread => at[owner[THREAD_START_ID]] = "end"
    <3> SUFFICES ASSUME owner[THREAD_START_ID] # NoThread
                 PROVE  at[owner[THREAD_START_ID]] = "end"
      OBVIOUS
    <3>1. owner[THREAD_START_ID] \in Destroyable
      BY <2>2 DEF Basics, Connectors
    <3>2. at[owner[THREAD_START_ID]] \notin {"begin", "retry"}
      BY <2>2, <3>1 DEF Attempts
    <3> QED  BY <3>1, <3>2 DEF Basics, Promised, Alone, Places
  <2> QED  BY <2>1, <2>3, ConnectFails
<1>3. CASE NoticeTells
  <2>1. /\ todo \in {"tell", "report"} /\ Connect(LOOP) /\ todo' \in {"stop", "delete"}
    BY <1>3 DEF NoticeTells, OnFireConnector
  <2>2. Attempts = {} /\ victim \in Listing
    BY <2>1 DEF Promised, Alone, Handled
  <2>3. ASSUME THREAD_MAX >= 2 PROVE Cause'
    <3>1. PICK i \in Ids : owner[i] # victim
      <4>1. PICK j \in Ids : j # THREAD_START_ID
        BY <2>3, OtherDesk
      <4>2. THREAD_START_ID \in Ids
        BY DeskAssumption DEF Ids, THREAD_START_ID
      <4> QED  BY <2>2, <4>1, <4>2 DEF Basics
    <3>2. owner[i] # NoThread => at[owner[i]] = "end"
      BY <2>2, <3>1, OthersReturned
    <3> QED  BY <2>1, <3>2, ConnectFails
  <2> QED  BY <2>1, <2>3
<1>4. CASE DisconnectStop
  <2>1. todo = "stop" /\ todo' = "halt" /\ StopAndDelete(LOOP, victim, host)
    BY <1>4 DEF DisconnectStop
  <2>2. PICK i \in Ids : StopConnection(LOOP, i)
    BY <2>1 DEF StopAndDelete, DropConnection, Executing
  <2>3. i = current /\ mode' = "fault" /\ UNCHANGED <<desk, current>>
    BY <2>2 DEF StopConnection, StopThread, Executing, GoDown, deskVars
  <2>4. phase = "body"
    BY <2>1 DEF Promised, Handled
  <2>5. CurrentGone'
    BY <2>3, <2>4 DEF Turns, LoopCurrent, CurrentGone
  <2> QED  BY <2>1, <2>3, <2>5 DEF Cause
<1>5. CASE LoopTalks
  <2>1. todo = "nothing" /\ \E k : LogTo(k)
    BY <1>5 DEF LoopTalks, LoopIdle
  <2>2. mode' = "fault" /\ CurrentGone' /\ todo' = todo
    BY <2>1, LogFails
  <2> QED  BY <2>1, <2>2 DEF Cause
<1>6. CASE NoticeLogs
  <2>1. LogTo(victim)
    BY <1>6 DEF NoticeLogs
  <2>2. /\ mode' = "fault" /\ CurrentGone' /\ todo' = todo
        /\ current \in Ids /\ desk[current] = "ABSENT"
    BY <2>1, LogFails
  <2>3. todo # "tell"
    BY <2>2 DEF Promised, Handled, Turns, LoopCurrent, Untaken, Pausing
  <2> QED  BY <2>2, <2>3 DEF Cause
<1>7. CASE DisconnectHalt
  <2>1. CASE UNCHANGED vars
    BY <1>7, <2>1 DEF DisconnectHalt, Executing, vars
  <2>2. CASE \E i \in Ids : Halt(LOOP, i)
    BY <2>2, HaltStaysUp
  <2> QED  BY <1>7, <2>1, <2>2 DEF DisconnectHalt, HaltConnectThread
<1>8. CASE CheckerExpires
  BY <1>8, HaltStaysUp DEF CheckerExpires
<1>9. CASE WifiDown \/ NoticeLost \/ DeleteLost \/ Delay
  BY <1>9 DEF WifiDown, NoticeLost, DeleteLost, Delay, LoopDelay, DropConnection, LoopIdle, Executing, vars
<1>10. CASE LoopRest
  BY <1>10 DEF LoopRest, LoopReapThreads, ReapThreads, LoopConnectorsSwept, LoopSwitch,
               SwitchThread, Executing
<1> QED
  BY <1>1, <1>3, <1>4, <1>5, <1>6, <1>7, <1>8, <1>9, <1>10 DEF ClientLoopStep

LEMMA ThreadFails ==
  ASSUME PInv, Basics, Promised, Stacked, NEW i \in Ids, ClientThreadStep(i), mode' # "up"
  PROVE  todo' # "tell" /\ (THREAD_MAX >= 2 => Cause')
<1>1. CASE Connecting(i) \/ Talk(i) \/ ConnectFailed(i)
  <2>1. Executing(i)
    BY <1>1 DEF Connecting, Talk, Talking, ConnectFailed, Runs
  <2>2. current = i /\ owner[i] # NoThread
    BY <2>1, RunnerIs
  <2>3. mode' # mode
    BY <2>1 DEF Executing
  <2>4. WaitForSocket(i) \/ WaitForName(i) \/ WaitForTime(i)
    BY <1>1, <2>3 DEF Connecting, Talk, ConnectFailed, vars
  <2> QED  BY <2>2, <2>4, WaitFails
<1>2. CASE Connected(i) \/ Retry(i)
  <2>1. PICK t \in Destroyable, u \in Threads, p \in {"begin", "retry"} :
          Runs(i, t, p) /\ Start(i, u) /\ at' = [at EXCEPT ![t] = "end", ![u] = "begin"]
    BY <1>2 DEF Connected, Retry, Basics
  <2>2. todo' = todo /\ todo = "nothing" /\ owner[i] = t
    BY <1>2, <2>1, ConnectingIs DEF Connected, Retry, choreVars
  <2>3. ASSUME THREAD_MAX >= 2 PROVE Cause'
    <3>1. PICK j \in Ids : j # i
      BY <2>3, OtherDesk
    <3>2. /\ mode' = "panic" /\ UNCHANGED <<owner, frames>>
          /\ owner[i] # NoThread /\ owner[j] # NoThread /\ owner[j] # u
      BY <2>1, StartFails
    <3>3. Executing(i) /\ at[owner[i]] # "end" /\ ctx = i
      BY <2>1, <2>2 DEF Runs, Executing
    <3>4. at[owner[j]] = "end"
      BY <3>1, <3>2, <3>3, OthersAreThrough
    <3>5. frames[j] = NoThread
      BY <3>1, <3>2, <3>3, <3>4 DEF Stacked
    <3>6. at'[owner[j]] = "end"
      BY <2>1, <2>2, <3>1, <3>2, <3>4 DEF Basics
    <3> QED  BY <3>2, <3>5, <3>6 DEF Cause, Returned
  <2> QED  BY <2>2, <2>3
<1>3. CASE Login(i) \/ Lost(i) \/ LoginSuccess(i) \/ ModuleName(i)
  <2>1. UNCHANGED vars /\ mode = "up"
    BY <1>3, SuccessIs DEF Login, Lost, ModuleName, Talking, Runs, Executing
  <2> QED  BY <2>1 DEF vars
<1>4. CASE LoginFailure(i) \/ ModuleExists(i)
  BY <1>4, HaltStaysUp DEF LoginFailure, ModuleExists
<1>5. CASE End(i)
  BY <1>5 DEF End, Return, Executing
<1> QED  BY <1>1, <1>2, <1>3, <1>4, <1>5 DEF ClientThreadStep

LEMMA SdkFails ==
  ASSUME PInv, Basics, Told, mode = "up", ClientSdkStep, mode' # "up"
  PROVE  todo' # "tell" /\ Cause'
<1>1. CASE \E i \in Ids : Dispatch(i)
  BY <1>1 DEF Dispatch, DispatchThread
<1>2. CASE (DispatchLoop \/ TimerFires \/ \E i \in Ids : DelayElapses(i))
  BY <1>2 DEF DispatchLoop, TimerFires, DelayElapses
<1>3. ASSUME NEW id \in Ids \cup {LOOP}, Callback(id), UNCHANGED clientVars
      PROVE  todo' # "tell" /\ Cause'
  <2>1. ResumeThread(id) /\ todo' = todo /\ mode' # mode
    BY <1>3 DEF Callback, clientVars, choreVars
  <2>2. current \in Ids /\ owner[current] = NoThread /\ mode' = "fault" /\ UNCHANGED <<desk, current>>
    BY <2>1 DEF ResumeThread, GoDown, deskVars
  <2>3. desk[current] = "ABSENT"
    BY <2>2 DEF Basics
  <2>4. todo # "tell"
    BY <2>2, <2>3 DEF Told
  <2> QED  BY <2>1, <2>2, <2>3, <2>4 DEF Cause, CurrentGone
<1>4. CASE ClientReboot
  BY <1>4 DEF ClientReboot, Reboot
<1> QED  BY <1>1, <1>2, <1>3, <1>4 DEF ClientSdkStep, SdkRest

----------------------------------------------------------------------------
\* Steps are made while the chip is up, and what is run again is counted.
LEMMA StepIsUp ==
  ASSUME PInv, ClientNext, ~ClientReboot
  PROVE  /\ mode = "up" /\ reruns' \in {reruns, reruns + 1}
         /\ ClientLoopStep => ctx = LOOP
<1>1. CASE ClientLoopStep
  BY <1>1
  DEF ClientLoopStep, WifiUp, LoopTalks, LogTo, WaitForSocket, WaitForTime, WifiDown,
      NoticeLogs, NoticeTells, DisconnectStop, DisconnectHalt, NoticeLost, DeleteLost,
      CheckerExpires, Delay, LoopDelay, LoopRest, LoopReapThreads, LoopConnectorsSwept,
      LoopSwitch, LoopIdle, Executing, clientVars
<1>2. ASSUME NEW i \in Ids, ClientThreadStep(i) PROVE mode = "up" /\ reruns' = reruns /\ ctx = i
  BY <1>2
  DEF ClientThreadStep, Connecting, Connected, ConnectFailed, Retry, Login, Talk, LoginSuccess,
      LoginFailure, ModuleName, ModuleExists, Lost, End, Talking, Runs, Executing, clientVars
<1>3. ASSUME NEW i \in Ids, Dispatch(i)
      PROVE  mode = "up" /\ ctx = SDK /\ reruns' \in {reruns, reruns + 1}
  BY <1>3 DEF Dispatch, DispatchThread
<1>4. ASSUME SdkRest PROVE mode = "up" /\ reruns' = reruns
  BY <1>4 DEF SdkRest, DelayElapses, Callback, DispatchLoop, TimerFires, clientVars
<1> QED  BY <1>1, <1>2, <1>3, <1>4 DEF ClientNext, ClientSdkStep

\* What has been run again stays counted until the next boot.
LEMMA RerunStays ==
  ASSUME PInv, ClientNext, ~ClientReboot, reruns' = 0
  PROVE  reruns = 0
<1>1. reruns \in Nat /\ reruns' \in {reruns, reruns + 1}
  BY StepIsUp, RerunAssumption DEF PInv, ClientTypeOK
<1> QED  BY <1>1

\* A fresh boot.
Blank ==
  /\ connectors = <<>> /\ owner = [i \in Ids |-> NoThread] /\ desk = [i \in Ids |-> "ABSENT"]
  /\ at = [t \in Threads |-> "end"] /\ frames = [i \in Ids |-> NoThread]
  /\ posted = {LOOP} /\ waits = {} /\ current = LOOP /\ ctx = SDK /\ mode = "up"
  /\ ~status /\ stopConnect /\ session = NoSession /\ todo = "nothing"

LEMMA BlankCInv == Blank => CInv
<1> SUFFICES ASSUME Blank PROVE CInv
  OBVIOUS
<1> USE IdsFacts DEF Blank
<1>1. Listing = {}
  BY BlankTyped DEF Listing
<1>2. Attempts = {}
  BY ThreadAssumption DEF Attempts
<1>3. Promised
  BY <1>1, <1>2 DEF Promised, Alone, Sessioned, Handled
<1>4. Stacked /\ Told
  BY DEF Stacked, Told
<1>5. Turns
  BY DEF Turns, Posted, PostedByLoop, Awaited, LoopCurrent, SdkCurrent
<1> QED  BY <1>3, <1>4, <1>5 DEF CInv

LEMMA NextCInv ==
  ASSUME PInv, PInv', ThreadNamed, CInv, ClientNext, ~ClientReboot, reruns' = 0
  PROVE  CInv'
<1>1. /\ mode = "up" /\ reruns = 0 /\ (ClientLoopStep => ctx = LOOP)
      /\ Promised /\ Stacked /\ Told /\ (Doomed \/ Turns)
  BY StepIsUp, RerunStays DEF CInv, Calm
<1>2. Basics
  BY <1>1, BasicsHold
<1>3. ClientLoopStep => Turns
  BY <1>1 DEF Doomed
<1>4. CASE mode' = "up"
  <2>1. Promised'
    BY <1>1, <1>2, <1>3, <1>4, LoopPromises, ThreadPromises, SdkPromises DEF ClientNext
  <2>2. Stacked' /\ (Doomed' \/ Turns')
    BY <1>1, <1>2, <1>3, <1>4, LoopTurns, ThreadTurns, SdkTurns DEF ClientNext
  <2>3. Told'
    BY <1>1, <1>2, <1>3, <1>4, LoopTold, ThreadTold, SdkTold DEF ClientNext
  <2> QED  BY <1>4, <2>1, <2>2, <2>3 DEF CInv
<1>5. CASE mode' # "up"
  <2>1. todo' # "tell"
    BY <1>1, <1>2, <1>3, <1>5, LoopFails, ThreadFails, SdkFails DEF ClientNext
  <2> QED  BY <1>5, <2>1 DEF CInv, Calm
<1> QED  BY <1>4, <1>5

LEMMA StutterCInv == CInv /\ UNCHANGED <<vars, clientVars>> => CInv'
<1> SUFFICES ASSUME CInv, UNCHANGED <<vars, clientVars>> PROVE CInv'
  OBVIOUS
<1>1. UNCHANGED <<desk, owner, frames, heap, current, posted, ctx, phase, waits, mode, status,
                  stopConnect, session, connectThread, connectors, host, at, closed, todo,
                  victim, reruns>>
  BY DEF vars, deskVars, loopVars, clientVars, moduleVars, listVars, threadVars, choreVars
<1>2. Attempts' = Attempts /\ Listing' = Listing /\ Calm' = Calm
  BY <1>1 DEF Attempts, Listing, Calm
<1>3. Promised => Promised'
  <2>1. Alone => Alone'
    BY <1>1, <1>2 DEF Alone
  <2>2. Sessioned => Sessioned'
    BY <1>1, <1>2 DEF Sessioned
  <2>3. Handled => Handled'
    BY <1>1, <1>2 DEF Handled
  <2> QED  BY <2>1, <2>2, <2>3 DEF Promised
<1>4. (Stacked => Stacked') /\ (Told => Told') /\ (Doomed => Doomed')
  BY <1>1 DEF Stacked, Told, Doomed, Armed
<1>5. Turns => Turns'
  <2>1. (Posted => Posted') /\ (PostedByLoop => PostedByLoop') /\ (Awaited => Awaited')
    BY <1>1, <1>2 DEF Posted, PostedByLoop, Awaited
  <2>2. (Untaken => Untaken') /\ (CurrentGone => CurrentGone')
    BY <1>1 DEF Untaken, CurrentGone
  <2>3. (LoopCurrent => LoopCurrent') /\ (SdkCurrent => SdkCurrent')
    BY <1>1, <2>2 DEF LoopCurrent, SdkCurrent
  <2> QED  BY <2>1, <2>3 DEF Turns
<1> QED  BY <1>1, <1>2, <1>3, <1>4, <1>5 DEF CInv

LEMMA StartCInv == ClientInit => CInv
BY BlankCInv DEF ClientInit, Init, Blank

LEMMA RebootCInv == ClientReboot => CInv'
<1>1. Blank' => CInv'
  BY BlankCInv, PTL
<1> QED  BY <1>1 DEF ClientReboot, Reboot, Blank

\* After a step that lost count of nothing the promises hold; after another one
\* they are not made.
LEMMA StepCInv ==
  PInv /\ PInv' /\ ThreadNamed /\ CInv /\ [ClientNext]_<<vars, clientVars>> => CInv'
<1> SUFFICES ASSUME PInv, PInv', ThreadNamed, CInv, [ClientNext]_<<vars, clientVars>> PROVE CInv'
  OBVIOUS
<1>1. CASE UNCHANGED <<vars, clientVars>>
  BY <1>1, StutterCInv
<1>2. CASE ClientReboot
  BY <1>2, RebootCInv
<1>3. CASE ClientNext /\ ~ClientReboot /\ reruns' = 0
  BY <1>3, NextCInv
<1>4. CASE reruns' # 0
  BY <1>4 DEF CInv, Calm
<1> QED  BY <1>1, <1>2, <1>3, <1>4

LEMMA ClientKeepsCInv == ClientSpec => [](PInv /\ ThreadNamed /\ CInv)
<1>1. ClientInit => PInv /\ ThreadNamed /\ CInv
  BY StartPInv, StartCInv DEF ClientInit, ThreadNamed
<1>2. PInv /\ ThreadNamed /\ CInv /\ [ClientNext]_<<vars, clientVars>> => (PInv /\ ThreadNamed /\ CInv)'
  <2>1. PInv /\ [ClientNext]_<<vars, clientVars>> => PInv'
    BY NextPInv
  <2>2. ThreadNamed /\ [ClientNext]_<<vars, clientVars>> => ThreadNamed'
    BY NextThreadNamed
  <2> QED  BY <2>1, <2>2, StepCInv
<1> QED  BY <1>1, <1>2, PTL DEF ClientSpec

----------------------------------------------------------------------------
LEMMA EmptyList ==
  ASSUME PInv
  PROVE  /\ Listing = {} <=> connectors = <<>>
         /\ connectors \in Seq(Connectors) /\ Len(connectors) \in Nat
<1>1. connectors \in Seq(Connectors) /\ Len(connectors) \in Nat /\ DOMAIN connectors = 1 .. Len(connectors)
  BY DEF PInv, ClientTypeOK
<1>2. connectors = <<>> => Listing = {}
  BY BlankTyped DEF Listing
<1>3. ASSUME connectors # <<>> PROVE Listing # {}
  <2>1. Len(connectors) # 0
    BY <1>1, <1>3, EmptySeq
  <2>2. 1 \in DOMAIN connectors
    BY <1>1, <2>1
  <2> QED  BY <2>2 DEF Listing, ToSet
<1> QED  BY <1>1, <1>2, <1>3

LEMMA ShortList ==
  ASSUME PInv, \A j, k \in Listing : j = k
  PROVE  Len(connectors) <= 1
<1>1. /\ Len(connectors) \in Nat /\ DOMAIN connectors = 1 .. Len(connectors)
      /\ IsInjective(connectors)
  BY DEF PInv, ClientTypeOK
<1>2. ASSUME Len(connectors) >= 2 PROVE FALSE
  <2>1. 1 \in DOMAIN connectors /\ 2 \in DOMAIN connectors
    BY <1>1, <1>2
  <2>2. connectors[1] = connectors[2]
    BY <2>1 DEF Listing, ToSet
  <2>3. 1 = 2
    BY <1>1, <2>1, <2>2 DEF IsInjective
  <2> QED  BY <2>3
<1> QED  BY <1>1, <1>2

\* One attempt that m_connectThread names, or one connector, never more, and so one
\* reader of the frame length all connectors share: for any number of desks,
\* however losses, retries, stops and WiFi changes meet, as long as no thread that
\* has returned is run again.
THEOREM OneConnection == ClientSpec => []OneAtATime
<1>1. PInv /\ CInv => OneAtATime
  <2> SUFFICES ASSUME PInv, CInv, Settled
               PROVE  /\ Cardinality(Attempts) + Len(connectors) <= 1
                      /\ Attempts \subseteq {connectThread}
    BY DEF OneAtATime
  <2>1. /\ Attempts \subseteq {connectThread} /\ \A j, k \in Listing : j = k
        /\ Attempts = {} \/ Listing = {}
    BY DEF Settled, CInv, Calm, Promised, Alone
  <2>2. CASE Attempts = {}
    <3>1. Cardinality(Attempts) = 0
      BY <2>2, FS_EmptySet
    <3> QED  BY <2>1, <3>1, ShortList, EmptyList
  <2>3. CASE Attempts # {}
    <3>1. Attempts = {connectThread} /\ connectors = <<>>
      BY <2>1, <2>3, EmptyList
    <3>2. Cardinality(Attempts) = 1 /\ Len(connectors) = 0
      BY <3>1, FS_Singleton
    <3> QED  BY <2>1, <3>2
  <2> QED  BY <2>2, <2>3
<1> QED  BY <1>1, ClientKeepsCInv, PTL

\* Once Disconnect is through, no thread connects and no connector is left, although
\* its own StopConnection has started a reconnect and a failed attempt may be asleep.
THEOREM DisconnectIsThorough == ClientSpec => []NothingAfterDisconnect
<1>1. PInv /\ CInv => NothingAfterDisconnect
  <2> SUFFICES ASSUME PInv, CInv, Settled, ~status PROVE Attempts = {} /\ connectors = <<>>
    BY DEF NothingAfterDisconnect
  <2>1. Attempts = {} /\ Listing = {}
    BY DEF Settled, CInv, Calm, Promised, Alone
  <2> QED  BY <2>1, EmptyList
<1> QED  BY <1>1, ClientKeepsCInv, PTL

\* No loss and no failure is missed: while WiFi is up and no login was refused,
\* somebody connects or is connected, and the session id by which the next loss will
\* be recognised is that of a connector in the list.
THEOREM SomebodyConnects == ClientSpec => []NeverIdle
<1>1. PInv /\ CInv => NeverIdle
  <2> SUFFICES ASSUME PInv, CInv, Settled
               PROVE  /\ status /\ ~stopConnect => Attempts # {} \/ connectors # <<>>
                      /\ session # NoSession => \E k \in ToSet(connectors) : host[k] = session
    BY DEF NeverIdle
  <2>1. /\ status /\ ~stopConnect => Attempts # {} \/ Listing # {}
        /\ session # NoSession => Listing # {} /\ \A k \in Listing : host[k] = session
    BY DEF Settled, CInv, Calm, Promised, Alone, Sessioned
  <2>2. session # NoSession => \E k \in Listing : host[k] = session
    BY <2>1
  <2> QED  BY <2>1, <2>2, EmptyList DEF Listing
<1> QED  BY <1>1, ClientKeepsCInv, PTL

\* What a refused login has stopped is only started again by WiFi that comes up: no
\* retry, no notice of a loss and no reconnect of Disconnect's own does it.
THEOREM RefusalEnds == ClientSpec => RefusalIsFinal
<1>1. PInv /\ CInv /\ [ClientNext]_<<vars, clientVars>> =>
        [stopConnect /\ ~stopConnect' /\ reruns = 0 => ~status]_<<vars, clientVars>>
  <2> SUFFICES ASSUME PInv, CInv, ClientNext, stopConnect, ~stopConnect', reruns = 0
               PROVE  ~status
    OBVIOUS
  <2>1. ~ClientReboot
    BY DEF ClientReboot
  <2>2. mode = "up" /\ Promised
    BY <2>1, StepIsUp DEF CInv, Calm
  <2>3. Basics
    BY <2>2, BasicsHold
  <2>4. CASE ClientLoopStep
    <3>1. CASE WifiUp
      BY <3>1 DEF WifiUp
    <3>2. CASE NoticeTells
      BY <2>2, <3>2 DEF NoticeTells, Promised, Handled
    <3>4. CASE ~WifiUp /\ ~NoticeTells
      BY <2>4, <3>4
      DEF ClientLoopStep, LoopTalks, LogTo, WifiDown, NoticeLogs, DisconnectStop,
          DisconnectHalt, NoticeLost, DeleteLost, CheckerExpires, Delay, LoopRest, clientVars, moduleVars
    <3> QED  BY <3>1, <3>2, <3>4
  <2>5. ASSUME NEW i \in Ids, ClientThreadStep(i) PROVE FALSE
    <3>1. CASE Retry(i)
      BY <2>2, <2>3, <3>1, ConnectingIs DEF Retry
    <3>2. CASE ~Retry(i)
      BY <2>5, <3>2
      DEF ClientThreadStep, Connecting, Connected, ConnectFailed, Login, Talk, LoginSuccess,
          LoginFailure, ModuleName, ModuleExists, Lost, End, clientVars, moduleVars
    <3> QED  BY <3>1, <3>2
  <2>6. CASE ClientSdkStep
    BY <2>1, <2>6 DEF ClientSdkStep, Dispatch, SdkRest, clientVars, moduleVars
  <2> QED  BY <2>4, <2>5, <2>6 DEF ClientNext
<1> QED  BY <1>1, ClientKeepsCInv, PTL DEF ClientSpec, RefusalIsFinal

\* The list that Disconnect, or the sweep, walks with copies of the links is the same
\* after it waited for its log line to be acknowledged, whoever ran meanwhile; nor
\* does a reset come in between when it is Disconnect that walks.
THEOREM WalkIsSafe == ClientSpec => WalkUndisturbed
<1>1. PInv /\ CInv /\ [ClientNext]_<<vars, clientVars>> =>
        [Walking /\ reruns = 0 /\ mode' = "up" => UNCHANGED connectors]_<<vars, clientVars>>
  <2> SUFFICES ASSUME PInv, CInv, ClientNext, Walking, reruns = 0, mode' = "up"
               PROVE  UNCHANGED connectors
    OBVIOUS
  <2>1. mode = "up" /\ todo \in {"tell", "report"}
    BY DEF CInv, Walking
  <2>2. Promised /\ Basics
    BY <2>1, BasicsHold DEF CInv, Calm
  <2>3. CASE ClientLoopStep
    BY <2>1, <2>3
    DEF ClientLoopStep, WifiUp, LoopTalks, LogTo, WifiDown, NoticeLogs, NoticeTells,
        DisconnectStop, DisconnectHalt, NoticeLost, DeleteLost, CheckerExpires, Delay, LoopRest,
        LoopIdle, clientVars, listVars
  <2>4. ASSUME NEW i \in Ids, ClientThreadStep(i) PROVE UNCHANGED connectors
    <3>1. CASE Connected(i)
      BY <2>1, <2>2, <3>1, ConnectingIs DEF Connected
    <3>2. CASE LoginSuccess(i)
      BY <2>2, <3>2, SuccessIs
    <3>3. CASE ~Connected(i) /\ ~LoginSuccess(i)
      BY <2>4, <3>3
      DEF ClientThreadStep, Connecting, ConnectFailed, Retry, Login, Talk, LoginFailure,
          ModuleName, ModuleExists, Lost, End, clientVars, listVars
    <3> QED  BY <3>1, <3>2, <3>3
  <2>5. CASE ClientSdkStep
    BY <2>1, <2>5 DEF ClientSdkStep, Dispatch, SdkRest, ClientReboot, Reboot, clientVars, listVars
  <2> QED  BY <2>3, <2>4, <2>5 DEF ClientNext
<1> QED  BY <1>1, ClientKeepsCInv, PTL DEF ClientSpec, WalkUndisturbed

\* With two desks or more the client runs out of them, in a thread that connects or
\* in the loop, only while another thread has returned and was not reaped, and a store
\* through a deleted Thread* needs a current thread that is gone.
THEOREM ResetsAreExplained ==
  ASSUME THREAD_MAX >= 2
  PROVE  ClientSpec => []ResetsHaveACause
<1> DEFINE Explained == reruns = 0 => Cause
<1>1. ClientInit => Explained
  BY DEF ClientInit, Init, Cause
<1>2. PInv /\ CInv /\ Explained /\ [ClientNext]_<<vars, clientVars>> => Explained'
  <2> SUFFICES ASSUME PInv, CInv, Explained, [ClientNext]_<<vars, clientVars>>, reruns' = 0
               PROVE  Cause'
    OBVIOUS
  <2>1. CASE UNCHANGED <<vars, clientVars>>
    BY <2>1 DEF Cause, Returned, CurrentGone, vars, deskVars, clientVars, threadVars
  <2>2. CASE mode' = "up"
    BY <2>2 DEF Cause
  <2>3. CASE ClientNext /\ mode' # "up"
    <3>1. ~ClientReboot
      BY <2>3 DEF ClientReboot, Reboot
    <3>2. /\ mode = "up" /\ (ClientLoopStep => ctx = LOOP)
          /\ Promised /\ Stacked /\ Told /\ (Doomed \/ Turns)
      BY <2>3, <3>1, StepIsUp, RerunStays DEF CInv, Calm
    <3>3. Basics
      BY <3>2, BasicsHold
    <3>4. ClientLoopStep => Turns
      BY <3>2 DEF Doomed
    <3> QED  BY <2>3, <3>2, <3>3, <3>4, LoopFails, ThreadFails, SdkFails DEF ClientNext
  <2> QED  BY <2>1, <2>2, <2>3
<1>3. Explained => ResetsHaveACause
  BY DEF Cause, ResetsHaveACause
<1> QED  BY <1>1, <1>2, <1>3, ClientKeepsCInv, PTL DEF ClientSpec
=============================================================================
