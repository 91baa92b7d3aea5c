----------------------------- MODULE SessionsProofs -----------------------------
(******************************************************************************)
(* Theorem about Sessions: a session that is in the map or in the hands of a  *)
(* request is not deleted, for any number of requests and of sessions, unless *)
(* the service stops while a session is being bound.                          *)
(******************************************************************************)
EXTENDS Sessions, FiniteSetTheorems, TLAPS

(* A finite number of threads serve requests.  When the service stops before a *)
(* session that was found is bound, the collector takes the last reference to  *)
(* it and the request is left with none: that fault does not happen.           *)
Assumed ==
    /\ IsFiniteSet(Requests) /\ NoOne \notin Requests \cup Ids
    /\ "stop" \notin Faults

--------------------------------------------------------------------------------
(* The inductive invariant.                                                    *)

(* The request has bound its session to its Env.                               *)
Bound(r) == pc[r] \in {"bound", "waiting", "event", "posting"}

References(s) == {r \in Requests : Bound(r) /\ session[r] = s}

(* From the moment it is found, a session is out of reach of the collector:    *)
(* the manager is locked, then the session has just been used.                 *)
RequestsMeant ==
    \A r \in Requests :
        /\ pc[r] \in {"locked", "posting"} => managerMutex = r
        /\ Binding(r) => state = "Running"
        /\ pc[r] \in {"locked", "got"} => session[r] \in sessionMap
        /\ pc[r] = "got" => session[r] \notin expired
        /\ Bound(r) => session[r] \in created

(* The references of a session are that of the map and those of the requests.  *)
InMap(s) == IF s \in sessionMap THEN 1 ELSE 0
Counted == \A s \in Ids : refCount[s] = InMap(s) + Cardinality(References(s))

SessionInv == TypeOK /\ RequestsMeant /\ Counted

LEMMA ReferencesFinite ==
  ASSUME Assumed
  PROVE  \A s \in Ids : IsFiniteSet(References(s)) /\ Cardinality(References(s)) \in Nat
<1> SUFFICES ASSUME NEW s \in Ids
             PROVE  IsFiniteSet(References(s)) /\ Cardinality(References(s)) \in Nat
  OBVIOUS
<1>1. References(s) \in SUBSET Requests
  BY DEF References
<1>2. QED
  BY <1>1, FS_Subset, FS_CardinalityType DEF Assumed

LEMMA InvMeansKept ==
  ASSUME Assumed, SessionInv
  PROVE  SessionsKept
<1>1. ASSUME NEW s \in sessionMap PROVE refCount[s] > 0
  <2>1. s \in Ids
    BY DEF SessionInv, TypeOK
  <2>2. Cardinality(References(s)) \in Nat
    BY <2>1, ReferencesFinite
  <2>3. QED
    BY <2>1, <2>2 DEF SessionInv, Counted, InMap
<1>2. ASSUME NEW r \in Requests, HasSession(r) PROVE refCount[session[r]] > 0
  <2>1. CASE pc[r] = "got"
    BY <1>1, <2>1 DEF SessionInv, RequestsMeant
  <2>2. CASE Bound(r)
    <3>1. session[r] \in Ids /\ r \in References(session[r])
      BY <2>2 DEF SessionInv, RequestsMeant, TypeOK, References
    <3>2. /\ IsFiniteSet(References(session[r]))
          /\ Cardinality(References(session[r])) \in Nat
      BY <3>1, ReferencesFinite
    <3>3. Cardinality(References(session[r])) # 0
      BY <3>1, <3>2, FS_EmptySet
    <3>4. refCount[session[r]] = InMap(session[r]) + Cardinality(References(session[r]))
      BY <3>1 DEF SessionInv, Counted
    <3>5. QED
      BY <3>2, <3>3, <3>4 DEF InMap
  <2>3. QED
    BY <1>2, <2>1, <2>2 DEF HasSession, Bound
<1>3. QED
  BY <1>1, <1>2 DEF SessionsKept

--------------------------------------------------------------------------------
(* The steps that count no reference.                                          *)

LEMMA NothingCounted ==
  ASSUME SessionInv, UNCHANGED <<refCount, sessionMap>>,
         \A r \in Requests : (Bound(r)' <=> Bound(r)) /\ (Bound(r) => session'[r] = session[r])
  PROVE  Counted'
<1>1. \A s \in Ids : References(s)' = References(s)
  BY DEF References
<1>2. QED
  BY <1>1 DEF SessionInv, Counted, InMap

LEMMA GetSessionManagerKeeps ==
  ASSUME Assumed, SessionInv, NEW r \in Requests, getSessionManager(r)
  PROVE  SessionInv'
<1>1. TypeOK'
  BY DEF Assumed, SessionInv, TypeOK, RequestsMeant, Bound, getSessionManager,
         Goes, mapVars, requestVars, Steps
<1>2. RequestsMeant'
  BY DEF Assumed, SessionInv, TypeOK, RequestsMeant, Binding, Bound,
         getSessionManager, Goes, mapVars, requestVars
<1>3. /\ UNCHANGED <<refCount, sessionMap>>
      /\ \A q \in Requests : (Bound(q)' <=> Bound(q)) /\ (Bound(q) => session'[q] = session[q])
  BY DEF SessionInv, TypeOK, Bound, getSessionManager, Goes, mapVars, requestVars
<1>4. QED
  BY <1>1, <1>2, <1>3, NothingCounted DEF SessionInv

LEMMA GetSessionKeeps ==
  ASSUME Assumed, SessionInv, NEW r \in Requests, getSession(r)
  PROVE  SessionInv'
<1>1. TypeOK'
  BY DEF Assumed, SessionInv, TypeOK, RequestsMeant, Bound, getSession, Goes,
         mapVars, requestVars, Steps
<1>2. RequestsMeant'
  BY DEF Assumed, SessionInv, TypeOK, RequestsMeant, Binding, Bound, getSession,
         Goes, mapVars, requestVars
<1>3. /\ UNCHANGED <<refCount, sessionMap>>
      /\ \A q \in Requests : (Bound(q)' <=> Bound(q)) /\ (Bound(q) => session'[q] = session[q])
  BY DEF SessionInv, TypeOK, Bound, getSession, Goes, mapVars, requestVars
<1>4. QED
  BY <1>1, <1>2, <1>3, NothingCounted DEF SessionInv

LEMMA SetLastAccessTimeKeeps ==
  ASSUME Assumed, SessionInv, NEW r \in Requests, setLastAccessTime(r)
  PROVE  SessionInv'
<1>1. TypeOK'
  BY DEF Assumed, SessionInv, TypeOK, RequestsMeant, Bound, setLastAccessTime,
         Goes, mapVars, requestVars, Steps
<1>2. RequestsMeant'
  BY DEF Assumed, SessionInv, TypeOK, RequestsMeant, Binding, Bound,
         setLastAccessTime, Goes, mapVars, requestVars
<1>3. /\ UNCHANGED <<refCount, sessionMap>>
      /\ \A q \in Requests : (Bound(q)' <=> Bound(q)) /\ (Bound(q) => session'[q] = session[q])
  BY DEF SessionInv, TypeOK, Bound, setLastAccessTime, Goes, mapVars, requestVars
<1>4. QED
  BY <1>1, <1>2, <1>3, NothingCounted DEF SessionInv

LEMMA GrantWriteKeeps ==
  ASSUME Assumed, SessionInv, NEW r \in Requests, grantWrite(r)
  PROVE  SessionInv'
<1>1. TypeOK'
  BY DEF Assumed, SessionInv, TypeOK, RequestsMeant, Bound, grantWrite, Goes,
         mapVars, requestVars, Steps
<1>2. RequestsMeant'
  BY DEF Assumed, SessionInv, TypeOK, RequestsMeant, Binding, Bound, grantWrite,
         Goes, mapVars, requestVars
<1>3. /\ UNCHANGED <<refCount, sessionMap>>
      /\ \A q \in Requests : (Bound(q)' <=> Bound(q)) /\ (Bound(q) => session'[q] = session[q])
  BY DEF SessionInv, TypeOK, Bound, grantWrite, Goes, mapVars, requestVars
<1>4. QED
  BY <1>1, <1>2, <1>3, NothingCounted DEF SessionInv

LEMMA WaitNewsKeeps ==
  ASSUME Assumed, SessionInv, NEW r \in Requests, waitNews(r)
  PROVE  SessionInv'
<1>1. TypeOK'
  BY DEF Assumed, SessionInv, TypeOK, RequestsMeant, Bound, waitNews, Goes,
         mapVars, requestVars, MayCall, Steps
<1>2. RequestsMeant'
  BY DEF Assumed, SessionInv, TypeOK, RequestsMeant, Binding, Bound, waitNews,
         Goes, mapVars, requestVars, MayCall
<1>3. /\ UNCHANGED <<refCount, sessionMap>>
      /\ \A q \in Requests : (Bound(q)' <=> Bound(q)) /\ (Bound(q) => session'[q] = session[q])
  BY DEF SessionInv, TypeOK, Bound, waitNews, Goes, mapVars, requestVars, MayCall
<1>4. QED
  BY <1>1, <1>2, <1>3, NothingCounted DEF SessionInv

LEMMA StopsWaitingKeeps ==
  ASSUME Assumed, SessionInv, NEW r \in Requests, StopsWaiting(r)
  PROVE  SessionInv'
<1>1. TypeOK'
  BY DEF Assumed, SessionInv, TypeOK, RequestsMeant, Bound, StopsWaiting, Goes,
         mapVars, requestVars, Steps
<1>2. RequestsMeant'
  BY DEF Assumed, SessionInv, TypeOK, RequestsMeant, Binding, Bound, StopsWaiting,
         Goes, mapVars, requestVars
<1>3. /\ UNCHANGED <<refCount, sessionMap>>
      /\ \A q \in Requests : (Bound(q)' <=> Bound(q)) /\ (Bound(q) => session'[q] = session[q])
  BY DEF SessionInv, TypeOK, Bound, StopsWaiting, Goes, mapVars, requestVars
<1>4. QED
  BY <1>1, <1>2, <1>3, NothingCounted DEF SessionInv

LEMMA TriggerEventKeeps ==
  ASSUME Assumed, SessionInv, NEW r \in Requests, triggerEvent(r)
  PROVE  SessionInv'
<1>1. TypeOK'
  BY DEF Assumed, SessionInv, TypeOK, RequestsMeant, Bound, triggerEvent, Goes,
         mapVars, requestVars, MayCall, Steps
<1>2. RequestsMeant'
  BY DEF Assumed, SessionInv, TypeOK, RequestsMeant, Binding, Bound, triggerEvent,
         Goes, mapVars, requestVars, MayCall
<1>3. /\ UNCHANGED <<refCount, sessionMap>>
      /\ \A q \in Requests : (Bound(q)' <=> Bound(q)) /\ (Bound(q) => session'[q] = session[q])
  BY DEF SessionInv, TypeOK, Bound, triggerEvent, Goes, mapVars, requestVars,
         MayCall
<1>4. QED
  BY <1>1, <1>2, <1>3, NothingCounted DEF SessionInv

LEMMA BroadcastEventKeeps ==
  ASSUME Assumed, SessionInv, NEW r \in Requests, broadcastEvent(r)
  PROVE  SessionInv'
<1>1. TypeOK'
  BY DEF Assumed, SessionInv, TypeOK, RequestsMeant, Bound, broadcastEvent, Goes,
         mapVars, requestVars, Steps
<1>2. RequestsMeant'
  BY DEF Assumed, SessionInv, TypeOK, RequestsMeant, Binding, Bound,
         broadcastEvent, Goes, mapVars, requestVars
<1>3. /\ UNCHANGED <<refCount, sessionMap>>
      /\ \A q \in Requests : (Bound(q)' <=> Bound(q)) /\ (Bound(q) => session'[q] = session[q])
  BY DEF SessionInv, TypeOK, Bound, broadcastEvent, Goes, mapVars, requestVars
<1>4. QED
  BY <1>1, <1>2, <1>3, NothingCounted DEF SessionInv

LEMMA EnqueueEventKeeps ==
  ASSUME Assumed, SessionInv, NEW r \in Requests, enqueueEvent(r)
  PROVE  SessionInv'
<1>1. TypeOK'
  BY DEF Assumed, SessionInv, TypeOK, RequestsMeant, Bound, enqueueEvent, Goes,
         mapVars, requestVars, Steps
<1>2. RequestsMeant'
  BY DEF Assumed, SessionInv, TypeOK, RequestsMeant, Binding, Bound, enqueueEvent,
         Goes, mapVars, requestVars
<1>3. /\ UNCHANGED <<refCount, sessionMap>>
      /\ \A q \in Requests : (Bound(q)' <=> Bound(q)) /\ (Bound(q) => session'[q] = session[q])
  BY DEF SessionInv, TypeOK, Bound, enqueueEvent, Goes, mapVars, requestVars
<1>4. QED
  BY <1>1, <1>2, <1>3, NothingCounted DEF SessionInv

LEMMA BroadcastThrowsKeeps ==
  ASSUME Assumed, SessionInv, NEW r \in Requests, broadcastThrows(r)
  PROVE  SessionInv'
<1>1. TypeOK'
  BY DEF Assumed, SessionInv, TypeOK, RequestsMeant, Bound, broadcastThrows, Goes,
         mapVars, requestVars, Steps
<1>2. RequestsMeant'
  BY DEF Assumed, SessionInv, TypeOK, RequestsMeant, Binding, Bound,
         broadcastThrows, Goes, mapVars, requestVars
<1>3. /\ UNCHANGED <<refCount, sessionMap>>
      /\ \A q \in Requests : (Bound(q)' <=> Bound(q)) /\ (Bound(q) => session'[q] = session[q])
  BY DEF SessionInv, TypeOK, Bound, broadcastThrows, Goes, mapVars, requestVars
<1>4. QED
  BY <1>1, <1>2, <1>3, NothingCounted DEF SessionInv

LEMMA EnqueueEventThrowsKeeps ==
  ASSUME Assumed, SessionInv, NEW r \in Requests, enqueueEventThrows(r)
  PROVE  SessionInv'
<1>1. TypeOK'
  BY DEF Assumed, SessionInv, TypeOK, RequestsMeant, Bound, enqueueEventThrows,
         Goes, mapVars, requestVars, Steps
<1>2. RequestsMeant'
  BY DEF Assumed, SessionInv, TypeOK, RequestsMeant, Binding, Bound,
         enqueueEventThrows, Goes, mapVars, requestVars
<1>3. /\ UNCHANGED <<refCount, sessionMap>>
      /\ \A q \in Requests : (Bound(q)' <=> Bound(q)) /\ (Bound(q) => session'[q] = session[q])
  BY DEF SessionInv, TypeOK, Bound, enqueueEventThrows, Goes, mapVars, requestVars
<1>4. QED
  BY <1>1, <1>2, <1>3, NothingCounted DEF SessionInv

LEMMA EventSentKeeps ==
  ASSUME Assumed, SessionInv, NEW r \in Requests, EventSent(r)
  PROVE  SessionInv'
<1>1. TypeOK'
  BY DEF Assumed, SessionInv, TypeOK, RequestsMeant, Bound, EventSent, Goes,
         mapVars, requestVars, Steps
<1>2. RequestsMeant'
  BY DEF Assumed, SessionInv, TypeOK, RequestsMeant, Binding, Bound, EventSent,
         Goes, mapVars, requestVars
<1>3. /\ UNCHANGED <<refCount, sessionMap>>
      /\ \A q \in Requests : (Bound(q)' <=> Bound(q)) /\ (Bound(q) => session'[q] = session[q])
  BY DEF SessionInv, TypeOK, Bound, EventSent, Goes, mapVars, requestVars
<1>4. QED
  BY <1>1, <1>2, <1>3, NothingCounted DEF SessionInv

LEMMA ExpiresKeeps ==
  ASSUME Assumed, SessionInv, Expires
  PROVE  SessionInv'
<1>1. TypeOK'
  BY DEF Assumed, SessionInv, TypeOK, RequestsMeant, Bound, Expires, Goes, mapVars,
         requestVars, Steps
<1>2. RequestsMeant'
  BY DEF Assumed, SessionInv, TypeOK, RequestsMeant, Binding, Bound, Expires, Goes,
         mapVars, requestVars
<1>3. /\ UNCHANGED <<refCount, sessionMap>>
      /\ \A q \in Requests : (Bound(q)' <=> Bound(q)) /\ (Bound(q) => session'[q] = session[q])
  BY DEF SessionInv, TypeOK, Bound, Expires, Goes, mapVars, requestVars
<1>4. QED
  BY <1>1, <1>2, <1>3, NothingCounted DEF SessionInv

LEMMA StopKeeps ==
  ASSUME Assumed, SessionInv, Stop
  PROVE  SessionInv'
<1>1. TypeOK'
  BY DEF Assumed, SessionInv, TypeOK, RequestsMeant, Bound, Stop, Goes, mapVars,
         requestVars, Steps
<1>2. RequestsMeant'
  BY DEF Assumed, SessionInv, TypeOK, RequestsMeant, Binding, Bound, Stop, Goes,
         mapVars, requestVars
<1>3. /\ UNCHANGED <<refCount, sessionMap>>
      /\ \A q \in Requests : (Bound(q)' <=> Bound(q)) /\ (Bound(q) => session'[q] = session[q])
  BY DEF SessionInv, TypeOK, Bound, Stop, Goes, mapVars, requestVars
<1>4. QED
  BY <1>1, <1>2, <1>3, NothingCounted DEF SessionInv

--------------------------------------------------------------------------------
(* The steps that do.                                                          *)

LEMMA CreateSessionKeeps ==
  ASSUME Assumed, SessionInv, NEW r \in Requests, createSession(r)
  PROVE  SessionInv'
<1>1. PICK s \in Ids \ created :
         /\ created' = created \cup {s}
         /\ sessionMap' = sessionMap \cup {s}
         /\ refCount' = [refCount EXCEPT ![s] = 1]
         /\ session' = [session EXCEPT ![r] = s]
  BY DEF createSession
<1>2. TypeOK'
  BY <1>1 DEF SessionInv, TypeOK, createSession, Goes, Steps
<1>3. RequestsMeant'
  BY <1>1 DEF Assumed, SessionInv, TypeOK, RequestsMeant, Binding, Bound, createSession, Goes
<1>4. \A q \in Requests : (Bound(q)' <=> Bound(q)) /\ (Bound(q) => session'[q] = session[q])
  BY <1>1 DEF SessionInv, TypeOK, Bound, createSession, Goes
<1>5. \A i \in Ids : References(i)' = References(i)
  BY <1>4 DEF References
<1>6. References(s) = {}
  BY <1>1 DEF SessionInv, RequestsMeant, References
<1>7. Counted'
  <2>1. SUFFICES ASSUME NEW i \in Ids
                 PROVE  refCount'[i] = InMap(i)' + Cardinality(References(i)')
    BY DEF Counted
  <2>2. CASE i = s
    <3>1. refCount'[i] = 1 /\ InMap(i)' = 1
      BY <1>1, <2>2 DEF InMap, SessionInv, TypeOK
    <3>2. Cardinality(References(i)') = 0
      BY <1>5, <1>6, <2>2, FS_EmptySet
    <3>3. QED
      BY <3>1, <3>2
  <2>3. CASE i # s
    BY <1>1, <1>5, <2>3 DEF InMap, SessionInv, TypeOK, Counted
  <2>4. QED
    BY <2>2, <2>3
<1>8. QED
  BY <1>2, <1>3, <1>7 DEF SessionInv

LEMMA BindDocumentKeeps ==
  ASSUME Assumed, SessionInv, NEW r \in Requests, bindDocument(r)
  PROVE  SessionInv'
<1>1. PICK s \in Ids : s = session[r] /\ s \in created
  BY DEF SessionInv, TypeOK, RequestsMeant, bindDocument
<1>2. TypeOK'
  BY <1>1 DEF SessionInv, TypeOK, bindDocument, Goes, Steps, mapVars
<1>3. RequestsMeant'
  BY <1>1 DEF SessionInv, TypeOK, RequestsMeant, Binding, Bound, bindDocument, Goes, mapVars
<1>4. /\ r \notin References(s) /\ References(s)' = References(s) \cup {r}
      /\ \A i \in Ids \ {s} : References(i)' = References(i)
  BY <1>1 DEF SessionInv, TypeOK, References, Bound, bindDocument, Goes
<1>5. Cardinality(References(s)') = Cardinality(References(s)) + 1
  BY <1>4, ReferencesFinite, FS_AddElement, ZenonT(60)
<1>6. Counted'
  <2>1. SUFFICES ASSUME NEW i \in Ids
                 PROVE  refCount'[i] = InMap(i)' + Cardinality(References(i)')
    BY DEF Counted
  <2>2. /\ refCount[i] = InMap(i) + Cardinality(References(i)) /\ InMap(i)' = InMap(i)
        /\ Cardinality(References(i)) \in Nat /\ InMap(i) \in Nat
        /\ refCount' = [refCount EXCEPT ![s] = @ + 1] /\ refCount \in [Ids -> Nat]
    BY <1>1, ReferencesFinite DEF SessionInv, TypeOK, Counted, InMap, bindDocument, mapVars
  <2>3. CASE i = s
    BY <1>5, <2>2, <2>3
  <2>4. CASE i # s
    BY <1>4, <2>2, <2>4
  <2>5. QED
    BY <2>3, <2>4
<1>7. QED
  BY <1>2, <1>3, <1>6 DEF SessionInv

LEMMA ReleaseDocumentKeeps ==
  ASSUME Assumed, SessionInv, NEW r \in Requests, releaseDocument(r)
  PROVE  SessionInv'
<1>1. PICK s \in Ids : s = session[r] /\ s \in created
  BY DEF SessionInv, TypeOK, RequestsMeant, Bound, releaseDocument
<1>2. /\ r \in References(s) /\ References(s)' = References(s) \ {r}
      /\ \A i \in Ids \ {s} : References(i)' = References(i)
  BY <1>1 DEF Assumed, SessionInv, TypeOK, References, Bound, releaseDocument, Goes
<1>3. /\ Cardinality(References(s)') = Cardinality(References(s)) - 1
      /\ Cardinality(References(s)') \in Nat
  BY <1>2, ReferencesFinite, FS_RemoveElement, FS_CardinalityType
<1>4. Counted'
  <2>1. SUFFICES ASSUME NEW i \in Ids
                 PROVE  refCount'[i] = InMap(i)' + Cardinality(References(i)')
    BY DEF Counted
  <2>2. /\ refCount[i] = InMap(i) + Cardinality(References(i)) /\ InMap(i)' = InMap(i)
        /\ Cardinality(References(i)) \in Nat /\ InMap(i) \in Nat
        /\ refCount' = [refCount EXCEPT ![s] = @ - 1] /\ refCount \in [Ids -> Nat]
    BY <1>1, ReferencesFinite DEF SessionInv, TypeOK, Counted, InMap, releaseDocument, mapVars
  <2>3. CASE i = s
    BY <1>3, <2>2, <2>3
  <2>4. CASE i # s
    BY <1>2, <2>2, <2>4
  <2>5. QED
    BY <2>3, <2>4
<1>5. TypeOK'
  <2>1. refCount' = [refCount EXCEPT ![s] = @ - 1] /\ refCount \in [Ids -> Nat]
    BY <1>1 DEF SessionInv, TypeOK, releaseDocument
  <2>2. refCount'[s] \in Nat
    BY <1>3, <1>4 DEF Counted, InMap
  <2>3. refCount' \in [Ids -> Nat]
    BY <2>1, <2>2
  <2>4. QED
    BY <1>1, <2>3 DEF SessionInv, TypeOK, releaseDocument, Goes, Steps, mapVars
<1>6. RequestsMeant'
  BY <1>1 DEF SessionInv, TypeOK, RequestsMeant, Binding, Bound, releaseDocument, Goes, mapVars
<1>7. QED
  BY <1>4, <1>5, <1>6 DEF SessionInv

(* The collector takes sessions that the map alone refers to, and no session   *)
(* that was just found.                                                        *)
LEMMA CollectorKeeps ==
  ASSUME Assumed, SessionInv, garbageCollectorThread
  PROVE  SessionInv'
<1> DEFINE Due == IF state = "Running" THEN sessionMap \cap expired ELSE sessionMap
           Garbage == {s \in Due : refCount[s] = 1}
<1>1. PICK taken \in SUBSET Garbage :
         /\ sessionMap' = sessionMap \ taken
         /\ refCount' = [s \in Ids |-> IF s \in taken THEN 0 ELSE refCount[s]]
         /\ state' \in {state, "Stopped"} /\ (state' # state => state = "Stopping")
  <2>1. PICK visited \in SUBSET sessionMap :
           /\ sessionMap' = sessionMap \ (visited \cap Garbage)
           /\ refCount' = [s \in Ids |-> IF s \in visited \cap Garbage THEN 0 ELSE refCount[s]]
           /\ state' = IF state = "Stopping" /\ visited \cap Due \subseteq Garbage
                       THEN "Stopped" ELSE state
    BY DEF garbageCollectorThread
  <2>2. visited \cap Garbage \in SUBSET Garbage
    OBVIOUS
  <2>3. QED
    BY <2>1, <2>2
<1>2. managerMutex = NoOne /\ UNCHANGED <<created, expired, sessionMutex, managerMutex, pc, session, left>>
  BY DEF garbageCollectorThread, requestVars
<1>3. \A r \in Requests : Bound(r)' = Bound(r) /\ Binding(r)' = Binding(r)
  BY <1>2 DEF Bound, Binding
<1>4. TypeOK'
  BY <1>1, <1>2 DEF SessionInv, TypeOK
<1>5. RequestsMeant'
  <2>1. \A r \in Requests : pc[r] # "locked"
    BY <1>2 DEF Assumed, SessionInv, RequestsMeant
  <2>2. \A r \in Requests : pc[r] = "got" => session[r] \notin taken
    BY <1>1 DEF SessionInv, RequestsMeant, Binding
  <2>3. \A r \in Requests : Binding(r) => state' = "Running"
    BY <1>1 DEF SessionInv, RequestsMeant
  <2>4. QED
    BY <1>1, <1>2, <1>3, <2>1, <2>2, <2>3 DEF SessionInv, RequestsMeant
<1>6. Counted'
  <2>1. SUFFICES ASSUME NEW s \in Ids
                 PROVE  refCount'[s] = InMap(s)' + Cardinality(References(s)')
    BY DEF Counted
  <2>2. References(s)' = References(s)
    BY <1>2, <1>3 DEF References
  <2>3. Cardinality(References(s)) \in Nat /\ refCount[s] = InMap(s) + Cardinality(References(s))
    BY ReferencesFinite DEF SessionInv, Counted
  <2>4. CASE s \in taken
    <3>1. refCount[s] = 1 /\ s \in sessionMap
      BY <1>1, <2>4
    <3>2. Cardinality(References(s)) = 0
      BY <2>3, <3>1 DEF InMap
    <3>3. QED
      BY <1>1, <2>2, <2>4, <3>2 DEF InMap
  <2>5. CASE s \notin taken
    BY <1>1, <2>2, <2>3, <2>5 DEF InMap
  <2>6. QED
    BY <2>4, <2>5
<1>7. QED
  BY <1>4, <1>5, <1>6 DEF SessionInv

--------------------------------------------------------------------------------

LEMMA SessionInit ==
  ASSUME Assumed, Init
  PROVE  SessionInv
<1>1. TypeOK
  BY DEF Init, TypeOK, Steps
<1>2. RequestsMeant
  BY DEF Init, RequestsMeant, Binding, Bound
<1>3. Counted
  <2>1. \A s \in Ids : References(s) = {} /\ refCount[s] = 0 /\ InMap(s) = 0
    BY DEF Init, References, Bound, InMap
  <2>2. QED
    BY <2>1, FS_EmptySet DEF Counted
<1>4. QED
  BY <1>1, <1>2, <1>3 DEF SessionInv

LEMMA SessionNext ==
  ASSUME Assumed, SessionInv, [Next]_vars
  PROVE  SessionInv'
<1>1. ASSUME NEW r \in Requests, RequestStep(r) PROVE SessionInv'
  BY <1>1, GetSessionManagerKeeps, GetSessionKeeps, SetLastAccessTimeKeeps,
     GrantWriteKeeps, WaitNewsKeeps, StopsWaitingKeeps, TriggerEventKeeps,
     BroadcastEventKeeps, EnqueueEventKeeps, BroadcastThrowsKeeps,
     EnqueueEventThrowsKeeps, EventSentKeeps, CreateSessionKeeps, BindDocumentKeeps,
     ReleaseDocumentKeeps
     DEF RequestStep
<1>2. CASE Expires \/ Stop
  BY <1>2, ExpiresKeeps, StopKeeps
<1>3. CASE garbageCollectorThread
  BY <1>3, CollectorKeeps
<1>4. CASE UNCHANGED vars
  <2>1. TypeOK' /\ RequestsMeant'
    BY <1>4 DEF SessionInv, TypeOK, RequestsMeant, Binding, Bound, vars, mapVars, requestVars
  <2>2. Counted'
    BY <1>4, NothingCounted DEF Bound, vars, mapVars, requestVars
  <2>3. QED
    BY <2>1, <2>2 DEF SessionInv
<1>5. QED
  BY <1>1, <1>2, <1>3, <1>4 DEF Next

(* SessionManager::getSession(), createSession(), Env::bindDocument(),         *)
(* Store::releaseDocument() and garbageCollectorThread(): a session is deleted *)
(* only when neither the map nor a request refers to it, and none is deleted   *)
(* between the moment it is found and the moment it is bound.                  *)
THEOREM NoSessionInUseDeleted ==
  ASSUME Assumed
  PROVE  Spec => []SessionsKept
<1>1. Init => SessionInv
  BY SessionInit
<1>2. SessionInv /\ [Next]_vars => SessionInv'
  BY SessionNext
<1>3. SessionInv => SessionsKept
  BY InvMeansKept
<1>4. QED
  BY <1>1, <1>2, <1>3, PTL DEF Spec
================================================================================
