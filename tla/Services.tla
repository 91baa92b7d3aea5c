--------------------------------- MODULE Services ---------------------------------
(******************************************************************************)
(* A service, the threads it runs, the scripts that start, stop and restart   *)
(* it, and the manager that stops every service before the store is closed    *)
(* (kern/service.cpp, service-threadinfo.cpp, servicemanager.cpp,             *)
(* xemprocessor/xemservice.cpp, xemservicemodule.cpp).                        *)
(*                                                                            *)
(* A thread is in the service's map of threads from its first instructions    *)
(* to its end, and the service has stopped when the map is empty.  A thread   *)
(* that was created and does not run yet is not in the map.                   *)
(******************************************************************************)
EXTENDS Naturals

CONSTANTS
    Threads,  \* bound: the threads at a time
    Script,   \* the thread of the scripts that control services
    Nobody,
    Faults    \* which of these happen:
              \*   "hasty"  a thread ends before those it started are in the map
              \*   "fails"  the start method throws
              \*   "early"  the manager stops services while one starts or restarts

VARIABLES
    state,     \* of the service
    starting,  \* who waits in startService(), or Nobody
    started,   \* starterSemaphore
    restart,   \* whether the stop thread starts the service again
    role,      \* what each thread does
    at,        \* where it is
    parent,    \* the thread that started it
    manager    \* whether the manager stops services

serviceVars == <<state, starting, started, restart>>
threadVars == <<role, at, parent>>
vars == <<serviceVars, threadVars, manager>>

TypeOK ==
    /\ state \in {"Stopped", "Starting", "Running", "Stopping"}
    /\ starting \in Threads \cup {Script, Nobody}
    /\ started \in 0 .. 1
    /\ restart \in BOOLEAN
    /\ role \in [Threads -> {"none", "starter", "method", "stopper"}]
    /\ at \in [Threads -> {"free", "created", "runs", "starts", "ends", "waits", "stopped"}]
    /\ parent \in [Threads -> Threads \cup {Script, Nobody}]
    /\ manager \in {"idle", "waits", "posted"}

Init ==
    /\ state = "Stopped" /\ starting = Nobody /\ started = 0 /\ restart = FALSE
    /\ role = [t \in Threads |-> "none"]
    /\ at = [t \in Threads |-> "free"]
    /\ parent = [t \in Threads |-> Nobody]
    /\ manager = "idle"

(* The map of threads.                                                         *)
\* Mutant: the stop thread stays in the map.
RegisteredWithStopper == {t \in Threads : at[t] \in {"runs", "starts", "ends", "waits"}}

Registered == {t \in Threads : at[t] \in {"runs", "starts", "ends"}}

Goes(t, where) == at' = [at EXCEPT ![t] = where]

Free == {t \in Threads : at[t] = "free"}

startThread(t, what, who) ==
    /\ role' = [role EXCEPT ![t] = what]
    /\ parent' = [parent EXCEPT ![t] = who]

(* getThreadInfo(), the first instructions of the thread.                      *)
callThreadFunction(t) ==
    /\ at[t] = "created"
    /\ Goes(t, "runs")
    /\ UNCHANGED <<serviceVars, role, parent, manager>>

(* Its function has returned: notifyThreadStopped(), in the destructor of the  *)
(* thread's information.                                                       *)
notifyThreadStopped(t) ==
    /\ at[t] = "ends" \/ (role[t] = "method" /\ at[t] = "runs")
    /\ "hasty" \in Faults \/ \A u \in Threads : at[u] = "created" => parent[u] # t
    /\ Goes(t, "free")
    /\ role' = [role EXCEPT ![t] = "none"]
    /\ UNCHANGED <<serviceVars, parent, manager>>

--------------------------------------------------------------------------------
(* startService(): by a script, or by the stop thread to restart.              *)
startService(who) ==
    /\ state = "Stopped"
    /\ "early" \in Faults \/ manager = "idle"
    /\ state' = "Starting"
    /\ starting' = who
    /\ \E t \in Free :
          /\ startThread(t, "starter", who)
          /\ at' = [u \in Threads |-> IF u = t THEN "created"
                                      ELSE IF u = who THEN "waits" ELSE at[u]]
    /\ UNCHANGED <<started, restart, manager>>

(* The start method has returned.                                              *)
callStartThread(t) ==
    /\ role[t] = "starter" /\ at[t] = "runs"
    /\ started' = started + 1
    /\ Goes(t, "ends")
    /\ \/ UNCHANGED state
       \/ "fails" \in Faults /\ state' = "Stopping"
    /\ UNCHANGED <<starting, restart, role, parent, manager>>

(* waitStarted() returns.  The stop thread that restarted the service ends.    *)
waitStarted ==
    /\ starting # Nobody /\ started > 0
    /\ started' = started - 1
    /\ state' = IF state = "Starting" THEN "Running" ELSE "Stopped"
    /\ starting' = Nobody
    /\ at' = [t \in Threads |-> IF t = starting THEN "free" ELSE at[t]]
    /\ role' = [t \in Threads |-> IF t = starting THEN "none" ELSE role[t]]
    /\ UNCHANGED <<restart, parent, manager>>

--------------------------------------------------------------------------------
(* Threads that run methods.                                                   *)

(* A thread of the service sees it does not stop, and later starts a thread    *)
(* (WebServer::runAcceptThread, startMethodThread).                            *)
SeesNotStopping(t) ==
    /\ role[t] \in {"starter", "method"} /\ at[t] = "runs"
    /\ state \in {"Starting", "Running"}
    /\ Goes(t, "starts")
    /\ UNCHANGED <<serviceVars, role, parent, manager>>

startMethodThread(t) ==
    /\ at[t] = "starts"
    /\ \E u \in Free :
          /\ startThread(u, "method", t)
          /\ at' = [at EXCEPT ![u] = "created", ![t] = "runs"]
    /\ UNCHANGED <<serviceVars, manager>>

(* Or it has none to start after all: no client came.                          *)
StartsNone(t) ==
    /\ at[t] = "starts"
    /\ Goes(t, "runs")
    /\ UNCHANGED <<serviceVars, role, parent, manager>>

--------------------------------------------------------------------------------
(* stopService(): returns when the stop thread runs.                           *)
Stops(who, again) ==
    /\ state = "Running"
    /\ state' = "Stopping"
    /\ restart' = again
    /\ \E t \in Free : startThread(t, "stopper", who) /\ Goes(t, "created")
    /\ UNCHANGED <<starting, started>>

stopService(again) ==
    /\ starting # Script
    /\ again => manager = "idle"
    /\ Stops(Script, again)
    /\ UNCHANGED manager

(* The stop method has returned: clearThreadInfo() takes the stop thread out   *)
(* of the map, which it waits for.                                             *)
clearThreadInfo(t) ==
    /\ role[t] = "stopper" /\ at[t] = "runs"
    /\ Goes(t, "waits")
    /\ UNCHANGED <<serviceVars, role, parent, manager>>

\* Mutant: the service has stopped as soon as its stop method returned.
StopsWaitingForNone(t) ==
    /\ role[t] = "stopper" /\ at[t] = "waits" /\ starting # t
    /\ state' = "Stopped"
    /\ Goes(t, IF restart THEN "stopped" ELSE "free")
    /\ role' = [role EXCEPT ![t] = IF restart THEN @ ELSE "none"]
    /\ UNCHANGED <<starting, started, restart, parent, manager>>

runStopThread(t) ==
    /\ role[t] = "stopper" /\ at[t] = "waits" /\ starting # t
    /\ Registered = {}
    /\ state' = "Stopped"
    /\ Goes(t, IF restart THEN "stopped" ELSE "free")
    /\ role' = [role EXCEPT ![t] = IF restart THEN @ ELSE "none"]
    /\ UNCHANGED <<starting, started, restart, parent, manager>>

(* It starts the service again, unless somebody has: startService() throws.    *)
Restarts(t) ==
    /\ at[t] = "stopped"
    /\ \/ startService(t)
       \/ /\ state # "Stopped" \/ manager # "idle"
          /\ Goes(t, "free")
          /\ role' = [role EXCEPT ![t] = "none"]
          /\ UNCHANGED <<serviceVars, parent, manager>>

--------------------------------------------------------------------------------
(* The manager stops the services that run, then waits for all to be stopped.  *)
Settled == state # "Starting" /\ (state = "Stopping" => ~restart)
           /\ \A t \in Threads : at[t] # "stopped"

broadcastStopService ==
    /\ manager = "idle"
    /\ "early" \in Faults \/ Settled
    /\ manager' = "waits"
    /\ \/ Stops(Script, FALSE)
       \/ state # "Running" /\ UNCHANGED <<serviceVars, threadVars>>

areAllServicesStopped ==
    /\ manager = "waits" /\ state = "Stopped"
    /\ manager' = "posted"
    /\ UNCHANGED <<serviceVars, threadVars>>

ThreadStep(t) ==
    \/ callThreadFunction(t) \/ notifyThreadStopped(t) \/ callStartThread(t)
    \/ SeesNotStopping(t) \/ startMethodThread(t) \/ StartsNone(t)
    \/ clearThreadInfo(t) \/ runStopThread(t) \/ Restarts(t)

Next ==
    \/ startService(Script) \/ waitStarted \/ \E again \in BOOLEAN : stopService(again)
    \/ \E t \in Threads : ThreadStep(t)
    \/ broadcastStopService \/ areAllServicesStopped

(* Threads run, and the functions of threads return once the service stops.    *)
Fairness ==
    /\ WF_vars(waitStarted) /\ WF_vars(areAllServicesStopped)
    /\ \A t \in Threads :
          /\ WF_vars(callThreadFunction(t)) /\ WF_vars(notifyThreadStopped(t))
          /\ WF_vars(callStartThread(t)) /\ WF_vars(startMethodThread(t) \/ StartsNone(t))
          /\ WF_vars(clearThreadInfo(t)) /\ WF_vars(runStopThread(t))

Spec == Init /\ [][Next]_vars /\ Fairness

--------------------------------------------------------------------------------
(* Properties.                                                                 *)

(* A service that is stopped, which may be deleted, has no thread left, in its *)
(* map or about to enter it: "Could not unregister", "still has running        *)
(* threads", "Service not starting or running ?" (servicemanager.cpp:129,      *)
(* service.cpp:195).                                                           *)
StoppedIsQuiet == state = "Stopped" => \A t \in Threads : at[t] \in {"free", "stopped"}

(* A service that stops ends up stopped, whatever threads it still starts, and *)
(* the manager that waits for it ends (runStopThread, doStopServiceManager).   *)
StopCompletes ==
    /\ state = "Stopping" ~> state = "Stopped"
    /\ manager = "waits" ~> manager = "posted"
================================================================================
