----------------------------- MODULE ServicesProofs -----------------------------
(******************************************************************************)
(* Theorem about Services: a service that has stopped has no thread left,     *)
(* however many threads it has run and however it was started, stopped and    *)
(* restarted, unless a thread ends before those it started are in the map or  *)
(* the start method throws.                                                   *)
(******************************************************************************)
EXTENDS Services, TLAPS

(* The script is no thread of the service, and two faults do not happen.  With *)
(* either of them a thread outlives the service: with "hasty" because it is    *)
(* not in the map yet, with "fails" because startService() does not wait for   *)
(* it.                                                                         *)
Assumed ==
    /\ Script \notin Threads /\ Nobody \notin Threads \cup {Script}
    /\ Faults \cap {"hasty", "fails"} = {}

--------------------------------------------------------------------------------
(* The inductive invariant.                                                    *)

(* The start method has not returned yet, or a method runs.                    *)
Working(t) == at[t] \in {"created", "runs", "starts"}

(* A stop thread that has not stopped the service, or that restarts it.        *)
Stopper(t) == role[t] = "stopper" /\ at[t] \in {"created", "runs", "waits"}

RolesMeant ==
    \A t \in Threads :
        /\ role[t] = "none" <=> at[t] = "free"
        /\ at[t] \in {"starts", "ends"} => role[t] \in {"starter", "method"}
        /\ at[t] \in {"waits", "stopped"} => role[t] = "stopper"

(* One start at a time: who waits in startService() and the start thread it    *)
(* waits for are those of the same start.                                      *)
StartMeant ==
    /\ starting # Nobody <=> state = "Starting"
    /\ started > 0 => state = "Starting"
    /\ starting \in Threads => at[starting] = "waits"
    /\ \A t \in Threads : role[t] = "starter" /\ Working(t) => state = "Starting" /\ started = 0
    /\ \A t, u \in Threads :
          role[t] = "starter" /\ Working(t) /\ role[u] = "starter" /\ Working(u) => u = t

(* One stop at a time.                                                         *)
StopMeant ==
    /\ \A t \in Threads : Stopper(t) => state = "Stopping" \/ (at[t] = "waits" /\ starting = t)
    /\ state = "Stopping" => \A t, u \in Threads : Stopper(t) /\ Stopper(u) => u = t

(* A thread that is not in the map yet was started by one that is.             *)
ParentsKept ==
    \A u \in Threads : role[u] = "method" /\ at[u] = "created" =>
        /\ parent[u] \in Threads
        /\ at[parent[u]] \in {"runs", "starts", "ends"}
        /\ role[parent[u]] \in {"starter", "method"}

ServiceInv == TypeOK /\ RolesMeant /\ StartMeant /\ StopMeant /\ ParentsKept /\ StoppedIsQuiet

--------------------------------------------------------------------------------
(* What each step keeps.                                                       *)

LEMMA CallThreadFunctionKeeps ==
  ASSUME Assumed, ServiceInv, NEW t \in Threads, callThreadFunction(t)
  PROVE  ServiceInv'
<1>1. TypeOK'
  BY DEF Assumed, ServiceInv, TypeOK, callThreadFunction, Goes, serviceVars
<1>2. RolesMeant'
  BY DEF Assumed, ServiceInv, TypeOK, RolesMeant, callThreadFunction, Goes,
         serviceVars
<1>3. StartMeant'
  BY DEF Assumed, ServiceInv, TypeOK, RolesMeant, StartMeant, Working,
         callThreadFunction, Goes, serviceVars
<1>4. StopMeant'
  BY DEF Assumed, ServiceInv, TypeOK, RolesMeant, StartMeant, StopMeant, Stopper,
         callThreadFunction, Goes, serviceVars
<1>5. ParentsKept'
  BY DEF Assumed, ServiceInv, TypeOK, RolesMeant, StartMeant, ParentsKept, Working,
         callThreadFunction, Goes, serviceVars
<1>6. StoppedIsQuiet'
  BY DEF Assumed, ServiceInv, TypeOK, RolesMeant, StartMeant, StopMeant,
         ParentsKept, StoppedIsQuiet, Stopper, Working, callThreadFunction, Goes,
         serviceVars
<1>7. QED
  BY <1>1, <1>2, <1>3, <1>4, <1>5, <1>6 DEF ServiceInv

LEMMA NotifyThreadStoppedKeeps ==
  ASSUME Assumed, ServiceInv, NEW t \in Threads, notifyThreadStopped(t)
  PROVE  ServiceInv'
<1>1. TypeOK'
  BY DEF Assumed, ServiceInv, TypeOK, notifyThreadStopped, Goes, serviceVars
<1>2. RolesMeant'
  BY DEF Assumed, ServiceInv, TypeOK, RolesMeant, notifyThreadStopped, Goes,
         serviceVars
<1>3. StartMeant'
  BY DEF Assumed, ServiceInv, TypeOK, RolesMeant, StartMeant, Working,
         notifyThreadStopped, Goes, serviceVars
<1>4. StopMeant'
  BY DEF Assumed, ServiceInv, TypeOK, RolesMeant, StartMeant, StopMeant, Stopper,
         notifyThreadStopped, Goes, serviceVars
<1>5. ParentsKept'
  BY DEF Assumed, ServiceInv, TypeOK, RolesMeant, StartMeant, ParentsKept, Working,
         notifyThreadStopped, Goes, serviceVars
<1>6. StoppedIsQuiet'
  BY DEF Assumed, ServiceInv, TypeOK, RolesMeant, StartMeant, StopMeant,
         ParentsKept, StoppedIsQuiet, Stopper, Working, notifyThreadStopped, Goes,
         serviceVars
<1>7. QED
  BY <1>1, <1>2, <1>3, <1>4, <1>5, <1>6 DEF ServiceInv

LEMMA StartServiceKeeps ==
  ASSUME Assumed, ServiceInv, NEW who \in Threads \cup {Script}, startService(who),
         who \in Threads => at[who] = "stopped"
  PROVE  ServiceInv'
<1>1. TypeOK'
  BY DEF Assumed, ServiceInv, TypeOK, startService, startThread, Free, serviceVars
<1>2. RolesMeant'
  BY DEF Assumed, ServiceInv, TypeOK, RolesMeant, startService, startThread, Free,
         serviceVars
<1>3. StartMeant'
  BY DEF Assumed, ServiceInv, TypeOK, RolesMeant, StartMeant, Working,
         startService, startThread, Free, serviceVars
<1>4. StopMeant'
  BY DEF Assumed, ServiceInv, TypeOK, RolesMeant, StartMeant, StopMeant, Stopper,
         startService, startThread, Free, serviceVars
<1>5. ParentsKept'
  BY DEF Assumed, ServiceInv, TypeOK, RolesMeant, StartMeant, ParentsKept, Working,
         startService, startThread, Free, serviceVars
<1>6. StoppedIsQuiet'
  BY DEF Assumed, ServiceInv, TypeOK, RolesMeant, StartMeant, StopMeant,
         ParentsKept, StoppedIsQuiet, Stopper, Working, startService, startThread,
         Free, serviceVars
<1>7. QED
  BY <1>1, <1>2, <1>3, <1>4, <1>5, <1>6 DEF ServiceInv

LEMMA CallStartThreadKeeps ==
  ASSUME Assumed, ServiceInv, NEW t \in Threads, callStartThread(t)
  PROVE  ServiceInv'
<1>1. TypeOK'
  BY DEF Assumed, ServiceInv, TypeOK, StartMeant, Working, callStartThread, Goes,
         serviceVars
<1>2. RolesMeant'
  BY DEF Assumed, ServiceInv, TypeOK, RolesMeant, callStartThread, Goes,
         serviceVars
<1>3. StartMeant'
  BY DEF Assumed, ServiceInv, TypeOK, RolesMeant, StartMeant, Working,
         callStartThread, Goes, serviceVars
<1>4. StopMeant'
  BY DEF Assumed, ServiceInv, TypeOK, RolesMeant, StartMeant, StopMeant, Stopper,
         callStartThread, Goes, serviceVars
<1>5. ParentsKept'
  BY DEF Assumed, ServiceInv, TypeOK, RolesMeant, StartMeant, ParentsKept, Working,
         callStartThread, Goes, serviceVars
<1>6. StoppedIsQuiet'
  BY DEF Assumed, ServiceInv, TypeOK, RolesMeant, StartMeant, StopMeant,
         ParentsKept, StoppedIsQuiet, Stopper, Working, callStartThread, Goes,
         serviceVars
<1>7. QED
  BY <1>1, <1>2, <1>3, <1>4, <1>5, <1>6 DEF ServiceInv

LEMMA WaitStartedKeeps ==
  ASSUME Assumed, ServiceInv, waitStarted
  PROVE  ServiceInv'
<1>1. TypeOK'
  BY DEF Assumed, ServiceInv, TypeOK, waitStarted, serviceVars
<1>2. RolesMeant'
  BY DEF Assumed, ServiceInv, TypeOK, RolesMeant, waitStarted, serviceVars
<1>3. StartMeant'
  BY DEF Assumed, ServiceInv, TypeOK, RolesMeant, StartMeant, Working, waitStarted,
         serviceVars
<1>4. StopMeant'
  BY DEF Assumed, ServiceInv, TypeOK, RolesMeant, StartMeant, StopMeant, Stopper,
         waitStarted, serviceVars
<1>5. ParentsKept'
  BY DEF Assumed, ServiceInv, TypeOK, RolesMeant, StartMeant, ParentsKept, Working,
         waitStarted, serviceVars
<1>6. StoppedIsQuiet'
  BY DEF Assumed, ServiceInv, TypeOK, RolesMeant, StartMeant, StopMeant,
         ParentsKept, StoppedIsQuiet, Stopper, Working, waitStarted, serviceVars
<1>7. QED
  BY <1>1, <1>2, <1>3, <1>4, <1>5, <1>6 DEF ServiceInv

LEMMA SeesNotStoppingKeeps ==
  ASSUME Assumed, ServiceInv, NEW t \in Threads, SeesNotStopping(t)
  PROVE  ServiceInv'
<1>1. TypeOK'
  BY DEF Assumed, ServiceInv, TypeOK, SeesNotStopping, Goes, serviceVars
<1>2. RolesMeant'
  BY DEF Assumed, ServiceInv, TypeOK, RolesMeant, SeesNotStopping, Goes,
         serviceVars
<1>3. StartMeant'
  BY DEF Assumed, ServiceInv, TypeOK, RolesMeant, StartMeant, Working,
         SeesNotStopping, Goes, serviceVars
<1>4. StopMeant'
  BY DEF Assumed, ServiceInv, TypeOK, RolesMeant, StartMeant, StopMeant, Stopper,
         SeesNotStopping, Goes, serviceVars
<1>5. ParentsKept'
  BY DEF Assumed, ServiceInv, TypeOK, RolesMeant, StartMeant, ParentsKept, Working,
         SeesNotStopping, Goes, serviceVars
<1>6. StoppedIsQuiet'
  BY DEF Assumed, ServiceInv, TypeOK, RolesMeant, StartMeant, StopMeant,
         ParentsKept, StoppedIsQuiet, Stopper, Working, SeesNotStopping, Goes,
         serviceVars
<1>7. QED
  BY <1>1, <1>2, <1>3, <1>4, <1>5, <1>6 DEF ServiceInv

LEMMA StartMethodThreadKeeps ==
  ASSUME Assumed, ServiceInv, NEW t \in Threads, startMethodThread(t)
  PROVE  ServiceInv'
<1>1. TypeOK'
  BY DEF Assumed, ServiceInv, TypeOK, startMethodThread, startThread, Free,
         serviceVars
<1>2. RolesMeant'
  BY DEF Assumed, ServiceInv, TypeOK, RolesMeant, startMethodThread, startThread,
         Free, serviceVars
<1>3. StartMeant'
  BY DEF Assumed, ServiceInv, TypeOK, RolesMeant, StartMeant, Working,
         startMethodThread, startThread, Free, serviceVars
<1>4. StopMeant'
  BY DEF Assumed, ServiceInv, TypeOK, RolesMeant, StartMeant, StopMeant, Stopper,
         startMethodThread, startThread, Free, serviceVars
<1>5. ParentsKept'
  BY DEF Assumed, ServiceInv, TypeOK, RolesMeant, StartMeant, ParentsKept, Working,
         startMethodThread, startThread, Free, serviceVars
<1>6. StoppedIsQuiet'
  BY DEF Assumed, ServiceInv, TypeOK, RolesMeant, StartMeant, StopMeant,
         ParentsKept, StoppedIsQuiet, Stopper, Working, startMethodThread,
         startThread, Free, serviceVars
<1>7. QED
  BY <1>1, <1>2, <1>3, <1>4, <1>5, <1>6 DEF ServiceInv

LEMMA StartsNoneKeeps ==
  ASSUME Assumed, ServiceInv, NEW t \in Threads, StartsNone(t)
  PROVE  ServiceInv'
<1>1. TypeOK'
  BY DEF Assumed, ServiceInv, TypeOK, StartsNone, Goes, serviceVars
<1>2. RolesMeant'
  BY DEF Assumed, ServiceInv, TypeOK, RolesMeant, StartsNone, Goes, serviceVars
<1>3. StartMeant'
  BY DEF Assumed, ServiceInv, TypeOK, RolesMeant, StartMeant, Working, StartsNone,
         Goes, serviceVars
<1>4. StopMeant'
  BY DEF Assumed, ServiceInv, TypeOK, RolesMeant, StartMeant, StopMeant, Stopper,
         StartsNone, Goes, serviceVars
<1>5. ParentsKept'
  BY DEF Assumed, ServiceInv, TypeOK, RolesMeant, StartMeant, ParentsKept, Working,
         StartsNone, Goes, serviceVars
<1>6. StoppedIsQuiet'
  BY DEF Assumed, ServiceInv, TypeOK, RolesMeant, StartMeant, StopMeant,
         ParentsKept, StoppedIsQuiet, Stopper, Working, StartsNone, Goes,
         serviceVars
<1>7. QED
  BY <1>1, <1>2, <1>3, <1>4, <1>5, <1>6 DEF ServiceInv

LEMMA StopsKeeps ==
  ASSUME Assumed, ServiceInv, NEW again \in BOOLEAN, Stops(Script, again), manager' \in {"idle", "waits", "posted"}
  PROVE  ServiceInv'
<1>1. TypeOK'
  BY DEF Assumed, ServiceInv, TypeOK, Stops, startThread, Goes, Free, serviceVars
<1>2. RolesMeant'
  BY DEF Assumed, ServiceInv, TypeOK, RolesMeant, Stops, startThread, Goes, Free,
         serviceVars
<1>3. StartMeant'
  BY DEF Assumed, ServiceInv, TypeOK, RolesMeant, StartMeant, Working, Stops,
         startThread, Goes, Free, serviceVars
<1>4. StopMeant'
  BY DEF Assumed, ServiceInv, TypeOK, RolesMeant, StartMeant, StopMeant, Stopper,
         Stops, startThread, Goes, Free, serviceVars
<1>5. ParentsKept'
  BY DEF Assumed, ServiceInv, TypeOK, RolesMeant, StartMeant, ParentsKept, Working,
         Stops, startThread, Goes, Free, serviceVars
<1>6. StoppedIsQuiet'
  BY DEF Assumed, ServiceInv, TypeOK, RolesMeant, StartMeant, StopMeant,
         ParentsKept, StoppedIsQuiet, Stopper, Working, Stops, startThread, Goes,
         Free, serviceVars
<1>7. QED
  BY <1>1, <1>2, <1>3, <1>4, <1>5, <1>6 DEF ServiceInv

LEMMA ClearThreadInfoKeeps ==
  ASSUME Assumed, ServiceInv, NEW t \in Threads, clearThreadInfo(t)
  PROVE  ServiceInv'
<1>1. TypeOK'
  BY DEF Assumed, ServiceInv, TypeOK, clearThreadInfo, Goes, serviceVars
<1>2. RolesMeant'
  BY DEF Assumed, ServiceInv, TypeOK, RolesMeant, clearThreadInfo, Goes,
         serviceVars
<1>3. StartMeant'
  BY DEF Assumed, ServiceInv, TypeOK, RolesMeant, StartMeant, Working,
         clearThreadInfo, Goes, serviceVars
<1>4. StopMeant'
  BY DEF Assumed, ServiceInv, TypeOK, RolesMeant, StartMeant, StopMeant, Stopper,
         clearThreadInfo, Goes, serviceVars
<1>5. ParentsKept'
  BY DEF Assumed, ServiceInv, TypeOK, RolesMeant, StartMeant, ParentsKept, Working,
         clearThreadInfo, Goes, serviceVars
<1>6. StoppedIsQuiet'
  BY DEF Assumed, ServiceInv, TypeOK, RolesMeant, StartMeant, StopMeant,
         ParentsKept, StoppedIsQuiet, Stopper, Working, clearThreadInfo, Goes,
         serviceVars
<1>7. QED
  BY <1>1, <1>2, <1>3, <1>4, <1>5, <1>6 DEF ServiceInv

LEMMA RunStopThreadKeeps ==
  ASSUME Assumed, ServiceInv, NEW t \in Threads, runStopThread(t)
  PROVE  ServiceInv'
<1>1. TypeOK'
  BY DEF Assumed, ServiceInv, TypeOK, runStopThread, Goes, Registered, serviceVars
<1>2. RolesMeant'
  BY DEF Assumed, ServiceInv, TypeOK, RolesMeant, runStopThread, Goes, Registered,
         serviceVars
<1>3. StartMeant'
  BY DEF Assumed, ServiceInv, TypeOK, RolesMeant, StartMeant, Working, StopMeant,
         Stopper, runStopThread, Goes, Registered, serviceVars
<1>4. StopMeant'
  BY DEF Assumed, ServiceInv, TypeOK, RolesMeant, StartMeant, StopMeant, Stopper,
         runStopThread, Goes, Registered, serviceVars
<1>5. ParentsKept'
  BY DEF Assumed, ServiceInv, TypeOK, RolesMeant, StartMeant, ParentsKept, Working,
         runStopThread, Goes, Registered, serviceVars
<1>6. StoppedIsQuiet'
  BY DEF Assumed, ServiceInv, TypeOK, RolesMeant, StartMeant, StopMeant,
         ParentsKept, StoppedIsQuiet, Stopper, Working, runStopThread, Goes,
         Registered, serviceVars
<1>7. QED
  BY <1>1, <1>2, <1>3, <1>4, <1>5, <1>6 DEF ServiceInv

LEMMA GivesUpKeeps ==
  ASSUME Assumed, ServiceInv, NEW t \in Threads, at[t] = "stopped", Goes(t, "free"), role' = [role EXCEPT ![t] = "none"],
         UNCHANGED <<serviceVars, parent, manager>>
  PROVE  ServiceInv'
<1>1. TypeOK'
  BY DEF Assumed, ServiceInv, TypeOK, Goes, serviceVars
<1>2. RolesMeant'
  BY DEF Assumed, ServiceInv, TypeOK, RolesMeant, Goes, serviceVars
<1>3. StartMeant'
  BY DEF Assumed, ServiceInv, TypeOK, RolesMeant, StartMeant, Working, Goes,
         serviceVars
<1>4. StopMeant'
  BY DEF Assumed, ServiceInv, TypeOK, RolesMeant, StartMeant, StopMeant, Stopper,
         Goes, serviceVars
<1>5. ParentsKept'
  BY DEF Assumed, ServiceInv, TypeOK, RolesMeant, StartMeant, ParentsKept, Working,
         Goes, serviceVars
<1>6. StoppedIsQuiet'
  BY DEF Assumed, ServiceInv, TypeOK, RolesMeant, StartMeant, StopMeant,
         ParentsKept, StoppedIsQuiet, Stopper, Working, Goes, serviceVars
<1>7. QED
  BY <1>1, <1>2, <1>3, <1>4, <1>5, <1>6 DEF ServiceInv

LEMMA ServiceInit == Assumed /\ Init => ServiceInv
<1> SUFFICES ASSUME Assumed, Init PROVE ServiceInv
  OBVIOUS
<1>1. TypeOK
  <2>1. role \in [Threads -> {"none"}] /\ at \in [Threads -> {"free"}] /\ parent \in [Threads -> {Nobody}]
    BY DEF Init
  <2>2. 0 \in 0 .. 1
    OBVIOUS
  <2>3. QED
    BY <2>1, <2>2 DEF Init, TypeOK
<1>2. \A t \in Threads : at[t] = "free" /\ role[t] = "none"
  BY DEF Init
<1>3. RolesMeant /\ StopMeant /\ ParentsKept /\ StoppedIsQuiet
  BY <1>2 DEF Init, RolesMeant, StopMeant, Stopper, ParentsKept, StoppedIsQuiet
<1>4. StartMeant
  BY <1>2 DEF Assumed, Init, StartMeant, Working
<1>5. QED
  BY <1>1, <1>3, <1>4 DEF ServiceInv

LEMMA ServiceNext ==
  ASSUME Assumed, ServiceInv, [Next]_vars
  PROVE  ServiceInv'
<1>1. CASE startService(Script)
  BY <1>1, StartServiceKeeps DEF Assumed
<1>2. CASE waitStarted
  BY <1>2, WaitStartedKeeps
<1>3. CASE \E again \in BOOLEAN : stopService(again)
  <2>1. PICK again \in BOOLEAN : stopService(again)
    BY <1>3
  <2>2. Stops(Script, again) /\ manager' \in {"idle", "waits", "posted"}
    BY <2>1 DEF stopService, ServiceInv, TypeOK
  <2>3. QED
    BY <2>2, StopsKeeps
<1>4. ASSUME NEW t \in Threads, ThreadStep(t) PROVE ServiceInv'
  <2>1. CASE Restarts(t)
    <3>1. at[t] = "stopped"
      BY <2>1 DEF Restarts
    <3>2. CASE startService(t)
      BY <3>1, <3>2, StartServiceKeeps
    <3>3. CASE /\ Goes(t, "free") /\ role' = [role EXCEPT ![t] = "none"]
               /\ UNCHANGED <<serviceVars, parent, manager>>
      BY <3>1, <3>3, GivesUpKeeps
    <3>4. QED
      BY <2>1, <3>2, <3>3 DEF Restarts
  <2>2. QED
    BY <1>4, <2>1, CallThreadFunctionKeeps, NotifyThreadStoppedKeeps, CallStartThreadKeeps,
       SeesNotStoppingKeeps, StartMethodThreadKeeps, StartsNoneKeeps, ClearThreadInfoKeeps,
       RunStopThreadKeeps DEF ThreadStep
<1>5. CASE broadcastStopService
  <2>1. CASE Stops(Script, FALSE)
    BY <1>5, <2>1, StopsKeeps DEF broadcastStopService
  <2>2. CASE UNCHANGED <<serviceVars, threadVars>>
    BY <1>5, <2>2 DEF broadcastStopService, serviceVars, threadVars, ServiceInv, TypeOK,
                      RolesMeant, StartMeant, StopMeant, ParentsKept, StoppedIsQuiet, Working,
                      Stopper
  <2>3. QED
    BY <1>5, <2>1, <2>2 DEF broadcastStopService
<1>6. CASE areAllServicesStopped
  BY <1>6 DEF areAllServicesStopped, serviceVars, threadVars, ServiceInv, TypeOK, RolesMeant,
              StartMeant, StopMeant, ParentsKept, StoppedIsQuiet, Working, Stopper
<1>7. CASE UNCHANGED vars
  BY <1>7 DEF vars, serviceVars, threadVars, ServiceInv, TypeOK, RolesMeant, StartMeant,
              StopMeant, ParentsKept, StoppedIsQuiet, Working, Stopper
<1>8. QED
  BY <1>1, <1>2, <1>3, <1>4, <1>5, <1>6, <1>7 DEF Next

(* Service::runStopThread() waits for the map of threads to be empty: when it  *)
(* says that the service has stopped, no thread runs, is waited for, or is     *)
(* about to enter the map.  The manager may have been stopping services while  *)
(* this one was started.                                                       *)
THEOREM StoppedServiceQuiet ==
  ASSUME Assumed
  PROVE  Spec => []StoppedIsQuiet
<1>1. Init => ServiceInv
  BY ServiceInit
<1>2. ServiceInv /\ [Next]_vars => ServiceInv'
  BY ServiceNext
<1>3. ServiceInv => StoppedIsQuiet
  BY DEF ServiceInv
<1>4. QED
  BY <1>1, <1>2, <1>3, PTL DEF Spec
================================================================================
