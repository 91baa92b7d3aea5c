--------------------------------- MODULE Sessions ---------------------------------
(******************************************************************************)
(* The session manager of the web server: sessions are documents shared by    *)
(* the threads that serve requests, which look them up, bind them, write      *)
(* them and send events to them, and by a garbage collector                   *)
(* (webserver/sessionmanager.cpp, sessiondocument.cpp,                        *)
(* sessionmanagermodule.cpp, Env::bindDocument, Store::releaseDocument).      *)
(*                                                                            *)
(* sessionManagerMutex protects the map; each session has a mutex of its own, *)
(* that a request which modifies the session keeps until it ends.             *)
(******************************************************************************)
EXTENDS Naturals, FiniteSets

CONSTANTS
    Requests,  \* the threads that serve requests
    Ids,       \* bound: the ids of sessions that may be drawn, which are numbers
    NoOne,     \* nobody holds a mutex
    Faults     \* which of these happen:
               \*   "stop"  the service stops while a session is being bound
               \*   "write" a request calls the manager holding its session, as the
               \*           code lets it do
               \*   "throw" enqueueEvent() throws: an argument of several values

VARIABLES
    state,         \* of the service
    sessionMap,    \* the sessions in the map
    created,       \* the sessions ever created
    refCount,      \* of each session; a session created with none is deleted
    expired,       \* the sessions whose time to live has passed
    sessionMutex,  \* the thread that has locked each session
    managerMutex,  \* the thread that has locked the manager
    pc,            \* where each request is
    session,       \* the session of each request
    left           \* the sessions an event has still to be put in, by request

mapVars == <<sessionMap, created, expired>>
requestVars == <<pc, session, left>>
vars == <<state, mapVars, refCount, sessionMutex, managerMutex, requestVars>>

Steps == {"idle", "find", "create", "locked", "got", "bound", "waiting", "event", "posting"}

TypeOK ==
    /\ state \in {"Running", "Stopping", "Stopped"}
    /\ sessionMap \subseteq created /\ created \subseteq Ids /\ expired \subseteq created
    /\ refCount \in [Ids -> Nat]
    /\ sessionMutex \in [Ids -> Requests \cup {NoOne}]
    /\ managerMutex \in Requests \cup {NoOne}
    /\ pc \in [Requests -> Steps]
    /\ session \in [Requests -> Ids \cup {NoOne}]
    /\ left \in [Requests -> SUBSET Ids]

Init ==
    /\ state = "Running"
    /\ sessionMap = {} /\ created = {} /\ expired = {}
    /\ refCount = [s \in Ids |-> 0]
    /\ sessionMutex = [s \in Ids |-> NoOne] /\ managerMutex = NoOne
    /\ pc = [r \in Requests |-> "idle"]
    /\ session = [r \in Requests |-> NoOne]
    /\ left = [r \in Requests |-> {}]

Goes(r, step) == pc' = [pc EXCEPT ![r] = step]

(* The request is being given a session, which it has not bound.               *)
Binding(r) == pc[r] \in {"find", "create", "locked", "got"}

--------------------------------------------------------------------------------
(* Looking a session up.                                                       *)

(* getSessionManager() throws when the service does not run.                   *)
getSessionManager(r) ==
    /\ pc[r] = "idle" /\ state = "Running"
    /\ \/ /\ \E s \in created : session' = [session EXCEPT ![r] = s]
          /\ Goes(r, "find")
       \/ /\ created # Ids
          /\ Goes(r, "create")
          /\ UNCHANGED session
    /\ UNCHANGED <<state, mapVars, refCount, sessionMutex, managerMutex, left>>

(* createSession(): the map holds the document; its lock is released.          *)
createSession(r) ==
    /\ pc[r] = "create" /\ managerMutex = NoOne
    /\ \E s \in Ids \ created :
          /\ created' = created \cup {s}
          /\ sessionMap' = sessionMap \cup {s}
          /\ refCount' = [refCount EXCEPT ![s] = 1]
          /\ session' = [session EXCEPT ![r] = s]
    /\ Goes(r, "got")
    /\ UNCHANGED <<state, expired, sessionMutex, managerMutex, left>>

(* getSession() locks the manager; the session is there or not.                *)
getSession(r) ==
    /\ pc[r] = "find" /\ managerMutex = NoOne
    /\ \/ /\ session[r] \in sessionMap
          /\ managerMutex' = r
          /\ Goes(r, "locked")
          /\ UNCHANGED session
       \/ /\ session[r] \notin sessionMap
          /\ session' = [session EXCEPT ![r] = NoOne]
          /\ Goes(r, "idle")
          /\ UNCHANGED managerMutex
    /\ UNCHANGED <<state, mapVars, refCount, sessionMutex, left>>

(* It locks the session with the manager locked, to write the time of access.  *)
setLastAccessTime(r) ==
    /\ pc[r] = "locked" /\ sessionMutex[session[r]] = NoOne
    /\ managerMutex' = NoOne
    /\ expired' = expired \ {session[r]}
    /\ Goes(r, "got")
    /\ UNCHANGED <<state, sessionMap, created, refCount, sessionMutex, session, left>>

(* The caller binds the document to its Env.                                   *)
\* Mutant: the document is bound without a reference.
bindUncounted(r) ==
    /\ pc[r] = "got"
    /\ Goes(r, "bound")
    /\ UNCHANGED <<state, mapVars, refCount, sessionMutex, managerMutex, session, left>>

bindDocument(r) ==
    /\ pc[r] = "got"
    /\ refCount' = [refCount EXCEPT ![session[r]] = @ + 1]
    /\ Goes(r, "bound")
    /\ UNCHANGED <<state, mapVars, sessionMutex, managerMutex, session, left>>

--------------------------------------------------------------------------------
(* What a request does with its session.                                       *)

(* The request modifies the session, and locks it until the request ends.      *)
grantWrite(r) ==
    /\ pc[r] = "bound" /\ sessionMutex[session[r]] = NoOne
    /\ sessionMutex' = [sessionMutex EXCEPT ![session[r]] = r]
    /\ UNCHANGED <<state, mapVars, refCount, managerMutex, requestVars>>

(* The calls to the manager look at the service; nothing in them looks at the  *)
(* session that the request may have locked.                                   *)
MayCall(r) ==
    /\ pc[r] = "bound" /\ state = "Running"
    /\ sessionMutex[session[r]] # r \/ "write" \in Faults

waitNews(r) ==
    /\ MayCall(r)
    /\ Goes(r, "waiting")
    /\ UNCHANGED <<state, mapVars, refCount, sessionMutex, managerMutex, session, left>>

(* News, the end of the service, or the last of the timeouts.                  *)
StopsWaiting(r) ==
    /\ pc[r] = "waiting"
    /\ Goes(r, "bound")
    /\ UNCHANGED <<state, mapVars, refCount, sessionMutex, managerMutex, session, left>>

(* popEnv() at the end of the request: Store::releaseDocument() unlocks the    *)
(* session, and deletes it if nothing refers to it.                            *)
releaseDocument(r) ==
    /\ pc[r] = "bound"
    /\ sessionMutex' = IF sessionMutex[session[r]] # r THEN sessionMutex
                       ELSE [sessionMutex EXCEPT ![session[r]] = NoOne]
    /\ refCount' = [refCount EXCEPT ![session[r]] = @ - 1]
    /\ session' = [session EXCEPT ![r] = NoOne]
    /\ Goes(r, "idle")
    /\ UNCHANGED <<state, mapVars, managerMutex, left>>

--------------------------------------------------------------------------------
(* Events.                                                                     *)

triggerEvent(r) ==
    /\ MayCall(r)
    /\ Goes(r, "event")
    /\ UNCHANGED <<state, mapVars, refCount, sessionMutex, managerMutex, session, left>>

(* broadcastEvent() goes through the sessions with the manager locked.  Those  *)
(* that subscribed to the event have it put in their queues, and are waited    *)
(* for; it goes past the others without touching them.                         *)
broadcastEvent(r) ==
    /\ pc[r] = "event" /\ managerMutex = NoOne
    /\ managerMutex' = r
    /\ \E subscribed \in SUBSET sessionMap : left' = [left EXCEPT ![r] = subscribed]
    /\ Goes(r, "posting")
    /\ UNCHANGED <<state, mapVars, refCount, sessionMutex, session>>

(* The map is in the order of ids: a session that is locked keeps the loop     *)
(* from those after it.                                                        *)
IsNext(r, s) == s \in left[r] /\ \A other \in left[r] : s <= other

(* A session is locked while the event is added to its queue, unless the       *)
(* request has locked it; it is unlocked in both cases.                        *)
\* Mutant: the session stays locked.
enqueueLocked(r) ==
    /\ pc[r] = "posting"
    /\ \E s \in left[r] :
          /\ IsNext(r, s) /\ sessionMutex[s] \in {NoOne, r}
          /\ sessionMutex' = [sessionMutex EXCEPT ![s] = r]
          /\ left' = [left EXCEPT ![r] = @ \ {s}]
    /\ UNCHANGED <<state, mapVars, refCount, managerMutex, pc, session>>

enqueueEvent(r) ==
    /\ pc[r] = "posting"
    /\ \E s \in left[r] :
          /\ IsNext(r, s) /\ sessionMutex[s] \in {NoOne, r}
          /\ sessionMutex' = [sessionMutex EXCEPT ![s] = NoOne]
          /\ left' = [left EXCEPT ![r] = @ \ {s}]
    /\ UNCHANGED <<state, mapVars, refCount, managerMutex, pc, session>>

(* A session without a queue, or with a handler called at once that throws,    *)
(* met before the next session to wait for, ends it.                           *)
broadcastThrows(r) ==
    /\ pc[r] = "posting" /\ left[r] # {}
    /\ managerMutex' = NoOne
    /\ left' = [left EXCEPT ![r] = {}]
    /\ Goes(r, "bound")
    /\ UNCHANGED <<state, mapVars, refCount, sessionMutex, session>>

(* The exception of an event that cannot be added leaves its session locked,   *)
(* and the event is sent to no other.                                          *)
enqueueEventThrows(r) ==
    /\ "throw" \in Faults /\ pc[r] = "posting"
    /\ \E s \in left[r] :
          /\ IsNext(r, s) /\ sessionMutex[s] \in {NoOne, r}
          /\ sessionMutex' = [sessionMutex EXCEPT ![s] = r]
    /\ managerMutex' = NoOne
    /\ left' = [left EXCEPT ![r] = {}]
    /\ Goes(r, "bound")
    /\ UNCHANGED <<state, mapVars, refCount, session>>

EventSent(r) ==
    /\ pc[r] = "posting" /\ left[r] = {}
    /\ managerMutex' = NoOne
    /\ Goes(r, "bound")
    /\ UNCHANGED <<state, mapVars, refCount, sessionMutex, session, left>>

--------------------------------------------------------------------------------
(* The service.                                                                *)

(* The time to live, of an hour unless the application sets it, passes.  It is *)
(* far longer than what a session found takes to be bound.                     *)
Expires ==
    /\ \E s \in sessionMap \ expired :
          /\ \A r \in Requests : Binding(r) => session[r] # s
          /\ expired' = expired \cup {s}
    /\ UNCHANGED <<state, sessionMap, created, refCount, sessionMutex, managerMutex,
                   requestVars>>

Stop ==
    /\ state = "Running"
    /\ "stop" \in Faults \/ \A r \in Requests : ~Binding(r)
    /\ state' = "Stopping"
    /\ UNCHANGED <<mapVars, refCount, sessionMutex, managerMutex, requestVars>>

(* One turn of garbageCollectorThread(): sessions that expired, or any once    *)
(* the service stops, go when only the map refers to them.  Removing one       *)
(* invalidates the iterator that goes on to the next: the turn may end there.  *)
(* The thread, and the service, end after a turn that left none referenced.    *)
garbageCollectorThread ==
    LET Due == IF state = "Running" THEN sessionMap \cap expired ELSE sessionMap
        Garbage == {s \in Due : refCount[s] = 1}
    IN /\ state # "Stopped" /\ managerMutex = NoOne
       /\ \E visited \in SUBSET sessionMap :
             /\ visited = sessionMap \/ visited \cap Garbage # {}
             /\ sessionMap' = sessionMap \ (visited \cap Garbage)
             /\ refCount' = [s \in Ids |-> IF s \in visited \cap Garbage THEN 0
                                            ELSE refCount[s]]
             /\ state' = IF state = "Stopping" /\ visited \cap Due \subseteq Garbage
                           THEN "Stopped" ELSE state
       /\ UNCHANGED <<created, expired, sessionMutex, managerMutex, requestVars>>

RequestStep(r) ==
    \/ getSessionManager(r) \/ createSession(r) \/ getSession(r) \/ setLastAccessTime(r)
    \/ bindDocument(r) \/ grantWrite(r) \/ waitNews(r) \/ StopsWaiting(r)
    \/ releaseDocument(r) \/ triggerEvent(r) \/ broadcastEvent(r) \/ enqueueEvent(r)
    \/ broadcastThrows(r) \/ enqueueEventThrows(r) \/ EventSent(r)

Next == (\E r \in Requests : RequestStep(r)) \/ Expires \/ Stop \/ garbageCollectorThread

(* Threads go on with what they can do: a thread takes a mutex it waits for    *)
(* and that stays free, a wait for news times out, a request that does nothing *)
(* else ends.  Nothing frees a thread from a session that another has locked.  *)
Fairness ==
    \A r \in Requests :
       /\ WF_vars(setLastAccessTime(r)) /\ WF_vars(bindDocument(r))
       /\ WF_vars(StopsWaiting(r)) /\ WF_vars(releaseDocument(r))
       /\ WF_vars(enqueueEvent(r)) /\ WF_vars(EventSent(r))

Spec == Init /\ [][Next]_vars /\ Fairness

--------------------------------------------------------------------------------
(* Properties.                                                                 *)

HasSession(r) == pc[r] \in {"got", "bound", "waiting", "event", "posting"}

(* A session that a request has been given, or that the map holds, is not      *)
(* deleted: getSession() "Gets a session, incrementing refCount"               *)
(* (sessionmanager.h:124), however the collector, expirations and the end of   *)
(* the service interleave with requests.  Unless "stop" is among the faults,   *)
(* the service is assumed not to stop while a session is being bound, nor the  *)
(* session to expire then: the reference that the comment promises is counted  *)
(* by bindDocument() only.                                                     *)
SessionsKept ==
    /\ \A s \in sessionMap : refCount[s] > 0
    /\ \A r \in Requests : HasSession(r) => refCount[session[r]] > 0

(* A thread that locks the manager ends up unlocking it, although it waits for *)
(* the locks of sessions with the manager locked (getSession, enqueueEvent):   *)
(* "at stack unwinding, the mutex will be unlocked" (mutex.h:134).  It is so   *)
(* as long as no request calls the manager while it has its session locked.    *)
ManagerReleased == \A r \in Requests : managerMutex = r ~> managerMutex # r
================================================================================
