---------------------------- MODULE ServiceProofs ----------------------------
(***************************************************************************)
(* Proofs about Service, for any number of requests and any size of the    *)
(* pool: types, traces of answers, clean stops and fair probes.            *)
(***************************************************************************)
EXTENDS Service, FiniteSetTheorems, TLAPS

\* Only a request that got past the wait for the pool has a connection.
Connected == \A r \in conn : pc[r] \notin {"new", "inside", "wait"}

\* The id of a request is set while it is inside, and it has the headers of
\* the middlewares that it has left.
Handling ==
  \A r \in Requests :
    /\ pc[r] \in Inside => context[r] = r
    /\ pc[r] \in {"secured", "logged"} => "security" \in headers[r]
    /\ pc[r] = "new" => status[r] = 0

\* A request is logged when its status is final.
Logged ==
  /\ \A e \in log : pc[e.request] \in {"logged", "answered"}
  /\ \A r \in Requests : pc[r] = "logged" /\ kind[r] \notin Unlogged =>
       \E e \in log : e.request = r

\* There is one Redis client at most, none before the first probe and after
\* the process has stopped; requests are inside only in between.
Lifespan ==
  /\ clients = IF client THEN 1 ELSE 0
  /\ server = "starting" => \A r \in Requests : pc[r] = "new"
  /\ server \in {"starting", "disposed", "stopped"} =>
       conn = {} /\ \A r \in Requests : pc[r] \in {"new", "answered"}
  /\ server \in {"starting", "stopped"} => ~client

\* A check that is "ok" was right, and one that is missing had a reason.
Noticing ==
  /\ saw \in [Requests -> SUBSET {"db", "redis", "trouble"}]
  /\ \A r \in Requests :
       /\ checks[r] # {} => "db" \in saw[r]
       /\ pc[r] \in {"redis", "ping"} /\ checks[r] = {} => "trouble" \in saw[r]

IInv ==
  /\ TypeOK /\ Connected /\ Handling /\ Logged /\ Lifespan /\ Noticing
  /\ AnswersAreTraced /\ ProbeIsFair

-----------------------------------------------------------------------------
(* What all steps have in common. *)

\* Every step watches what a probe could notice.
LEMMA NextWatches == Next => Watch
BY DEF Next, Startup, Terminate, Dispose, CloseRedis, ServiceChanges, Arrive, Handle, Release,
   Liveness, Login, NotAuthenticated, OpenSession, Acquire, AcquireFails, Query, QueryFails,
   DatabaseFails, CheckDb, GetRedis, Ping, AddSecurityHeaders, LogAccess, EchoCorrelationID,
   AnswerUnhandled

\* What was noticed is not forgotten.
LEMMA NoticesGrow ==
  ASSUME Noticing, [Next]_vars
  PROVE  /\ saw' \in [Requests -> SUBSET {"db", "redis", "trouble"}]
         /\ \A r \in Requests : saw[r] \subseteq saw'[r]
<1>1. CASE UNCHANGED vars
  BY <1>1 DEF vars, Noticing
<1>2. CASE Watch
  <2>1. \A r \in Requests : Noticed(r)' \subseteq {"db", "redis", "trouble"}
    BY DEF Noticed
  <2> QED
    BY <1>2, <2>1 DEF Watch, Noticing
<1> QED
  BY <1>1, <1>2, NextWatches

\* The connections in use are counted.
LEMMA ConnIsFinite ==
  ASSUME conn \subseteq Requests
  PROVE  IsFiniteSet(conn) /\ Cardinality(conn) \in Nat
BY ServiceAssumption, FS_Subset, FS_CardinalityType

\* The pool gives out a connection only while there is one.
LEMMA AcquireKeepsBound ==
  ASSUME TypeOK, NEW r \in Requests, Acquire(r)
  PROVE  Cardinality(conn') <= PoolMax
<1>1. conn' = conn \union {r} /\ Cardinality(conn) < PoolMax
  BY DEF Acquire
<1>2. IsFiniteSet(conn) /\ Cardinality(conn) \in Nat
  BY ConnIsFinite DEF TypeOK
<1>3. Cardinality(conn \union {r}) \in {Cardinality(conn), Cardinality(conn) + 1}
  BY <1>2, FS_AddElement
<1> QED
  BY <1>1, <1>2, <1>3, ServiceAssumption

\* A connection that comes back makes room.
LEMMA ReleaseKeepsBound ==
  ASSUME TypeOK, NEW r \in Requests, Release(r)
  PROVE  Cardinality(conn') <= PoolMax
<1>1. conn' = conn \ {r}
  BY DEF Release
<1>2. IsFiniteSet(conn) /\ Cardinality(conn) \in Nat /\ Cardinality(conn) <= PoolMax
  BY ConnIsFinite DEF TypeOK
<1>3. Cardinality(conn \ {r}) \in {Cardinality(conn), Cardinality(conn) - 1}
  BY <1>2, FS_RemoveElement
<1> QED
  BY <1>1, <1>2, <1>3, ServiceAssumption

-----------------------------------------------------------------------------
(* The parts of the invariant, each kept by every step. *)

\* The types.
LEMMA NextTypes ==
  ASSUME TypeOK, Lifespan, [Next]_vars
  PROVE  TypeOK'
<1> USE DEF TypeOK, Inside, Kinds, lifespan, services, response
<1>1. CASE UNCHANGED vars
  BY <1>1 DEF vars
<1>2. CASE Startup \/ Terminate \/ Dispose
  BY <1>2 DEF Startup, Terminate, Dispose
<1>3. CASE CloseRedis \/ ServiceChanges
  <2>1. UNCHANGED <<pc, kind, context, conn, checks, status, headers, log>>
    BY <1>3 DEF CloseRedis, ServiceChanges
  <2>2. dbUp' \in BOOLEAN /\ redisUp' \in BOOLEAN /\ client' \in BOOLEAN
    BY <1>3, Zenon DEF CloseRedis, ServiceChanges
  <2>3. /\ server' \in {"starting", "serving", "draining", "disposed", "stopped"}
        /\ clients' \in {0, 1}
    <3>1. clients \in {0, 1} /\ (client => clients = 1)
      BY DEF Lifespan
    <3> QED
      BY <1>3, <3>1 DEF CloseRedis, ServiceChanges
  <2> QED
    BY <2>1, <2>2, <2>3
<1>4. ASSUME NEW r \in Requests, Arrive(r)
      PROVE  TypeOK'
  BY <1>4 DEF Arrive, Go, ContextOf
<1>5. ASSUME NEW r \in Requests, Release(r)
      PROVE  TypeOK'
  <2>1. Cardinality(conn') <= PoolMax
    BY <1>5, ReleaseKeepsBound
  <2> QED
    BY <1>5, <2>1 DEF Release
<1>6. ASSUME NEW r \in Requests, Handle(r)
      PROVE  TypeOK'
  <2>1. CASE Liveness(r) \/ NotAuthenticated(r)
    BY <2>1 DEF Liveness, NotAuthenticated, Answer, Go
  <2>2. CASE Login(r) \/ OpenSession(r)
    BY <2>2 DEF Login, OpenSession, Go
  <2>3. CASE Acquire(r)
    <3>1. Cardinality(conn') <= PoolMax
      BY <2>3, AcquireKeepsBound
    <3> QED
      BY <2>3, <3>1 DEF Acquire, Go
  <2>4. CASE AcquireFails(r) \/ QueryFails(r)
    BY <2>4 DEF AcquireFails, QueryFails, DatabaseFails, Go
  <2>5. CASE Query(r)
    BY <2>5 DEF Query, Answer, Go
  <2>6. CASE CheckDb(r)
    BY <2>6 DEF CheckDb, Go
  <2>7. CASE GetRedis(r)
    BY <2>7 DEF GetRedis, Go
  <2>8. CASE Ping(r)
    BY <2>8 DEF Ping, Probe, Answer, Go
  <2>9. CASE AddSecurityHeaders(r)
    BY <2>9 DEF AddSecurityHeaders, Go
  <2>10. CASE LogAccess(r)
    BY <2>10 DEF LogAccess, Go, ContextOf
  <2>11. CASE EchoCorrelationID(r) \/ AnswerUnhandled(r)
    BY <2>11 DEF EchoCorrelationID, AnswerUnhandled, Go, ContextOf
  <2> QED
    BY <1>6, <2>1, <2>2, <2>3, <2>4, <2>5, <2>6, <2>7, <2>8, <2>9, <2>10, <2>11 DEF Handle
<1> QED
  BY <1>1, <1>2, <1>3, <1>4, <1>5, <1>6 DEF Next

\* Connections belong to requests that have passed the pool, and requests
\* have the id and the headers of where they are.
LEMMA NextHandling ==
  ASSUME TypeOK, Connected, Handling, [Next]_vars
  PROVE  Connected' /\ Handling'
<1> USE DEF TypeOK, Connected, Handling, Inside, lifespan, services, response
<1>1. CASE UNCHANGED vars
  BY <1>1 DEF vars
<1>2. CASE Startup \/ Terminate \/ Dispose \/ CloseRedis \/ ServiceChanges
  BY <1>2 DEF Startup, Terminate, Dispose, CloseRedis, ServiceChanges
<1>3. ASSUME NEW r \in Requests, Arrive(r)
      PROVE  Connected' /\ Handling'
  BY <1>3 DEF Arrive, Go, ContextOf
<1>4. ASSUME NEW r \in Requests, Release(r)
      PROVE  Connected' /\ Handling'
  BY <1>4 DEF Release
<1>5. ASSUME NEW r \in Requests, Handle(r)
      PROVE  Connected' /\ Handling'
  <2>1. CASE Liveness(r) \/ NotAuthenticated(r)
    BY <2>1 DEF Liveness, NotAuthenticated, Answer, Go
  <2>2. CASE Login(r) \/ OpenSession(r)
    BY <2>2 DEF Login, OpenSession, Go
  <2>3. CASE Acquire(r)
    BY <2>3 DEF Acquire, Go
  <2>4. CASE AcquireFails(r) \/ QueryFails(r)
    BY <2>4 DEF AcquireFails, QueryFails, DatabaseFails, Go
  <2>5. CASE Query(r)
    BY <2>5 DEF Query, Answer, Go
  <2>6. CASE CheckDb(r) \/ GetRedis(r)
    BY <2>6 DEF CheckDb, GetRedis, Go
  <2>7. CASE Ping(r)
    BY <2>7 DEF Ping, Answer, Go
  <2>8. CASE AddSecurityHeaders(r) \/ LogAccess(r)
    BY <2>8 DEF AddSecurityHeaders, LogAccess, Go
  <2>9. CASE EchoCorrelationID(r) \/ AnswerUnhandled(r)
    BY <2>9 DEF EchoCorrelationID, AnswerUnhandled, Go, ContextOf
  <2> QED
    BY <1>5, <2>1, <2>2, <2>3, <2>4, <2>5, <2>6, <2>7, <2>8, <2>9 DEF Handle
<1> QED
  BY <1>1, <1>2, <1>3, <1>4, <1>5 DEF Next

\* Steps that leave the log alone and move a request, if any, to another place
\* before the log, keep the answers and their records together.
LEMMA BeforeTheLog ==
  ASSUME TypeOK, Logged, AnswersAreTraced, NEW r \in Requests,
         pc[r] \notin {"logged", "answered"}, UNCHANGED <<headers, log>>,
         NEW place, place \notin {"logged", "answered"}, pc' = [pc EXCEPT ![r] = place],
         NEW code, status' = [status EXCEPT ![r] = code],
         \A q \in Requests \ {r} : kind'[q] = kind[q]
  PROVE  Logged' /\ AnswersAreTraced'
BY DEF TypeOK, Logged, AnswersAreTraced

\* Each answer that passes the middlewares is recorded once it is final.
LEMMA NextTraced ==
  ASSUME TypeOK, Handling, Logged, AnswersAreTraced, [Next]_vars
  PROVE  Logged' /\ AnswersAreTraced'
<1> USE DEF lifespan, services, response
<1>1. CASE UNCHANGED <<pc, kind, status, headers, log>>
  BY <1>1 DEF Logged, AnswersAreTraced
<1>2. CASE \/ UNCHANGED vars
           \/ Startup \/ Terminate \/ Dispose \/ CloseRedis \/ ServiceChanges
           \/ \E r \in Requests : Release(r)
  BY <1>1, <1>2 DEF vars, Startup, Terminate, Dispose, CloseRedis, ServiceChanges, Release
<1>3. ASSUME NEW r \in Requests, NEW place, place \notin {"logged", "answered"},
             Go(r, place), pc[r] \notin {"logged", "answered"},
             UNCHANGED <<status, headers, log>>,
             \A q \in Requests \ {r} : kind'[q] = kind[q]
      PROVE  Logged' /\ AnswersAreTraced'
  <2>1. status' = [status EXCEPT ![r] = status[r]]
    BY <1>3 DEF TypeOK
  <2> QED
    BY <1>3, <2>1, BeforeTheLog DEF Go
<1>4. ASSUME NEW r \in Requests, NEW code, Answer(r, code), UNCHANGED kind,
             pc[r] \notin {"logged", "answered"}
      PROVE  Logged' /\ AnswersAreTraced'
  BY <1>4, BeforeTheLog DEF Answer, Go
<1>5. ASSUME NEW r \in Requests, Arrive(r)
      PROVE  Logged' /\ AnswersAreTraced'
  BY <1>3, <1>5 DEF Arrive, TypeOK
<1>6. ASSUME NEW r \in Requests, Handle(r)
      PROVE  Logged' /\ AnswersAreTraced'
  <2>1. CASE Liveness(r) \/ NotAuthenticated(r) \/ Query(r)
    BY <1>4, <2>1 DEF Liveness, NotAuthenticated, Query
  <2>2. CASE Ping(r)
    BY <1>4, <2>2 DEF Ping
  <2>3. CASE Login(r) \/ OpenSession(r) \/ Acquire(r) \/ CheckDb(r) \/ GetRedis(r)
    BY <1>3, <2>3 DEF Login, OpenSession, Acquire, CheckDb, GetRedis
  <2>4. CASE AcquireFails(r) \/ QueryFails(r)
    BY <1>3, <2>4 DEF AcquireFails, QueryFails, DatabaseFails
  <2>5. CASE AddSecurityHeaders(r)
    BY <2>5 DEF AddSecurityHeaders, Go, TypeOK, Logged, AnswersAreTraced
  <2>6. CASE LogAccess(r)
    <3> DEFINE record == [request |-> r, status |-> status[r], id |-> context[r]]
    <3>1. /\ pc[r] = "secured" /\ pc' = [pc EXCEPT ![r] = "logged"]
          /\ log' = IF kind[r] \in Unlogged THEN log ELSE log \union {record}
          /\ UNCHANGED <<kind, status, headers>>
      BY <2>6 DEF LogAccess, Go, ContextOf
    <3>2. record.request = r /\ record.id = r /\ record.status = status[r]
      BY <3>1 DEF Handling, Inside
    <3> HIDE DEF record
    <3>3. Logged'
      BY <3>1, <3>2 DEF TypeOK, Logged
    <3>4. AnswersAreTraced'
      BY <3>1, <3>2 DEF TypeOK, AnswersAreTraced
    <3> QED
      BY <3>3, <3>4
  <2>7. CASE EchoCorrelationID(r)
    BY <2>7 DEF EchoCorrelationID, Go, TypeOK, Handling, Logged, AnswersAreTraced
  <2>8. CASE AnswerUnhandled(r)
    BY <2>8 DEF AnswerUnhandled, Go, TypeOK, Logged, AnswersAreTraced
  <2> QED
    BY <1>6, <2>1, <2>2, <2>3, <2>4, <2>5, <2>6, <2>7, <2>8 DEF Handle
<1> QED
  BY <1>2, <1>5, <1>6 DEF Next

\* Requests are inside only while the process serves or drains, and one
\* Redis client is opened for all of them.
LEMMA NextLifespan ==
  ASSUME TypeOK, Lifespan, [Next]_vars
  PROVE  Lifespan'
<1> USE DEF TypeOK, Lifespan, Inside, lifespan, services, response
<1>1. CASE UNCHANGED vars
  BY <1>1 DEF vars
<1>2. CASE Startup \/ Terminate
  BY <1>2 DEF Startup, Terminate
<1>3. CASE Dispose
  BY <1>3 DEF Dispose
<1>4. CASE CloseRedis
  BY <1>4 DEF CloseRedis
<1>5. CASE ServiceChanges
  BY <1>5 DEF ServiceChanges
<1>6. ASSUME NEW r \in Requests, Arrive(r) \/ Release(r)
      PROVE  Lifespan'
  BY <1>6 DEF Arrive, Release, Go
<1>7. ASSUME NEW r \in Requests, Handle(r)
      PROVE  Lifespan'
  <2>1. pc[r] \in Inside
    BY <1>7 DEF Handle, Liveness, Login, NotAuthenticated, OpenSession, Acquire, AcquireFails,
       Query, QueryFails, CheckDb, GetRedis, Ping, AddSecurityHeaders, LogAccess,
       EchoCorrelationID, AnswerUnhandled
  <2>2. server \in {"serving", "draining"} /\ UNCHANGED server
    <3>1. server \notin {"starting", "disposed", "stopped"}
      BY <2>1
    <3>2. UNCHANGED server
      BY <1>7 DEF Handle, Liveness, Login, NotAuthenticated, OpenSession, Acquire, AcquireFails,
         Query, QueryFails, DatabaseFails, CheckDb, GetRedis, Ping, AddSecurityHeaders, LogAccess,
         EchoCorrelationID, AnswerUnhandled
    <3> QED
      BY <3>1, <3>2
  <2>3. clients' = IF client' THEN 1 ELSE 0
    <3>1. CASE GetRedis(r)
      BY <3>1 DEF GetRedis
    <3>2. CASE UNCHANGED <<client, clients>>
      BY <3>2
    <3> QED
      BY <1>7, <3>1, <3>2 DEF Handle, Liveness, Login, NotAuthenticated, OpenSession, Acquire,
         AcquireFails, Query, QueryFails, DatabaseFails, CheckDb, Ping, AddSecurityHeaders,
         LogAccess, EchoCorrelationID, AnswerUnhandled
  <2> QED
    BY <2>2, <2>3
<1> QED
  BY <1>1, <1>2, <1>3, <1>4, <1>5, <1>6, <1>7 DEF Next

\* A probe that is inside notices what is the case after the step.
LEMMA ProbeNotices ==
  ASSUME Watch, NEW r \in Requests, kind'[r] = "ready", pc'[r] \in Inside
  PROVE  /\ dbUp' => "db" \in saw'[r]
         /\ redisUp' => "redis" \in saw'[r]
         /\ Trouble(r)' => "trouble" \in saw'[r]
<1>1. saw'[r] = saw[r] \union Noticed(r)'
  BY DEF Watch
<1>2. /\ dbUp' => "db" \in Noticed(r)'
      /\ redisUp' => "redis" \in Noticed(r)'
      /\ Trouble(r)' => "trouble" \in Noticed(r)'
  BY DEF Noticed
<1> QED
  BY <1>1, <1>2

\* Who asks the pool in vain has noticed trouble.
LEMMA FailureIsTrouble ==
  ASSUME TypeOK, Connected, NEW r \in Requests, AcquireFails(r) \/ QueryFails(r),
         kind[r] = "ready"
  PROVE  Trouble(r)'
<1>1. UNCHANGED <<dbUp, conn>>
  BY DEF AcquireFails, QueryFails, DatabaseFails, services
<1>2. ~dbUp \/ (pc[r] = "wait" /\ Cardinality(conn) = PoolMax)
  BY DEF AcquireFails, QueryFails
<1>3. pc[r] = "wait" => conn \ {r} = conn
  BY DEF Connected
<1> QED
  BY <1>1, <1>2, <1>3 DEF Trouble

\* What a probe reports, and what its checks are built on, was noticed.
LEMMA NextProbed ==
  ASSUME TypeOK, Connected, Handling, Noticing, ProbeIsFair, [Next]_vars
  PROVE  Noticing' /\ ProbeIsFair'
<1> DEFINE Asked(r) == pc[r] \in {"redis", "ping"} /\ checks[r] = {}
<1>1. /\ saw' \in [Requests -> SUBSET {"db", "redis", "trouble"}]
      /\ \A r \in Requests : saw[r] \subseteq saw'[r]
  BY NoticesGrow
\* It is enough to look at the request that moves.
<1>2. ASSUME NEW r \in Requests,
             checks'[r] # {} => "db" \in saw'[r],
             Asked(r)' => "trouble" \in saw'[r],
             kind'[r] = "ready" /\ status'[r] = 200 => {"db", "redis"} \subseteq saw'[r],
             kind'[r] = "ready" /\ status'[r] = 503 => "trouble" \in saw'[r],
             \A q \in Requests \ {r} : /\ pc'[q] = pc[q] /\ kind'[q] = kind[q]
                                       /\ checks'[q] = checks[q] /\ status'[q] = status[q]
      PROVE  Noticing' /\ ProbeIsFair'
  BY <1>1, <1>2 DEF Noticing, ProbeIsFair
<1>3. CASE UNCHANGED <<pc, kind, checks, status>>
  BY <1>1, <1>3 DEF Noticing, ProbeIsFair
<1>4. CASE \/ UNCHANGED vars
           \/ Startup \/ Terminate \/ Dispose \/ CloseRedis \/ ServiceChanges
           \/ \E r \in Requests : Release(r)
  BY <1>3, <1>4 DEF vars, Startup, Terminate, Dispose, CloseRedis, ServiceChanges, Release, response
<1>5. ASSUME NEW r \in Requests, NEW place, Go(r, place), place \notin {"redis", "ping"},
             UNCHANGED <<checks, status>>, kind' = kind \/ status[r] = 0,
             \A q \in Requests \ {r} : kind'[q] = kind[q]
      PROVE  Noticing' /\ ProbeIsFair'
  BY <1>1, <1>5 DEF TypeOK, Noticing, ProbeIsFair, Go
<1>6. ASSUME NEW r \in Requests, NEW code, Answer(r, code),
             UNCHANGED <<kind, checks>>,
             kind[r] = "ready" /\ code = 200 => {"db", "redis"} \subseteq saw'[r],
             kind[r] = "ready" /\ code = 503 => "trouble" \in saw'[r]
      PROVE  Noticing' /\ ProbeIsFair'
  BY <1>1, <1>6 DEF TypeOK, Noticing, ProbeIsFair, Answer, Go
<1>7. ASSUME NEW r \in Requests, Arrive(r)
      PROVE  Noticing' /\ ProbeIsFair'
  BY <1>5, <1>7 DEF Arrive, Handling, TypeOK, response
<1>8. ASSUME NEW r \in Requests, Handle(r)
      PROVE  Noticing' /\ ProbeIsFair'
  <2>1. CASE Liveness(r) \/ NotAuthenticated(r) \/ Query(r)
    BY <1>6, <2>1 DEF Liveness, NotAuthenticated, Query
  <2>2. CASE Login(r) \/ OpenSession(r) \/ Acquire(r)
    BY <1>5, <2>2 DEF Login, OpenSession, Acquire, response
  <2>3. CASE AcquireFails(r) \/ QueryFails(r)
    <3>1. /\ Go(r, IF kind[r] = "ready" THEN "redis" ELSE "raised")
          /\ UNCHANGED <<kind, checks, status>> /\ Watch
      BY <2>3 DEF AcquireFails, QueryFails, DatabaseFails, response
    <3>2. CASE kind[r] = "ready"
      <4>1. Trouble(r)'
        BY <2>3, <3>2, FailureIsTrouble
      <4>2. pc' = [pc EXCEPT ![r] = "redis"]
        BY <3>1, <3>2 DEF Go
      <4>3. "trouble" \in saw'[r]
        BY <3>1, <3>2, <4>1, <4>2, ProbeNotices DEF TypeOK, Inside
      <4> QED
        BY <1>1, <3>1, <4>2, <4>3 DEF TypeOK, Noticing, ProbeIsFair
    <3>3. CASE kind[r] # "ready"
      BY <1>5, <3>1, <3>3
    <3> QED
      BY <3>2, <3>3
  <2>4. CASE CheckDb(r)
    <3>1. /\ kind[r] = "ready" /\ dbUp /\ UNCHANGED <<dbUp, kind, status>> /\ Watch
          /\ checks' = [checks EXCEPT ![r] = {"db"}]
          /\ pc' = [pc EXCEPT ![r] = "redis"]
      BY <2>4 DEF CheckDb, Go, services, response
    <3>2. "db" \in saw'[r]
      BY <3>1, ProbeNotices DEF TypeOK, Inside
    <3> QED
      BY <1>1, <3>1, <3>2 DEF TypeOK, Noticing, ProbeIsFair
  <2>5. CASE GetRedis(r)
    BY <1>1, <2>5 DEF GetRedis, Go, TypeOK, Noticing, ProbeIsFair, response
  <2>6. CASE Ping(r)
    <3> DEFINE redis == IF redisUp THEN {"redis"} ELSE {}
    <3>1. /\ pc[r] = "ping" /\ Answer(r, Probe(r, redis))
          /\ UNCHANGED <<redisUp, kind, checks>> /\ Watch
      BY <2>6 DEF Ping, services
    <3>2. ASSUME kind[r] = "ready"
          PROVE  /\ redisUp => "redis" \in saw'[r]
                 /\ ~redisUp => "trouble" \in saw'[r]
      <4>1. kind'[r] = "ready" /\ pc'[r] \in Inside
        BY <3>1, <3>2 DEF Answer, Go, TypeOK, Inside
      <4> QED
        BY <3>1, <4>1, ProbeNotices DEF Trouble
    <3>3. /\ Probe(r, redis) = 200 => checks[r] # {} /\ redisUp
          /\ Probe(r, redis) = 503 => checks[r] = {} \/ ~redisUp
      <4>1. checks[r] \in {{}, {"db"}}
        BY DEF TypeOK
      <4>2. CASE redisUp
        BY <4>1, <4>2 DEF Probe
      <4>3. CASE ~redisUp
        BY <4>1, <4>3 DEF Probe
      <4> QED
        BY <4>2, <4>3
    <3>4. /\ checks[r] # {} => "db" \in saw'[r]
          /\ checks[r] = {} => "trouble" \in saw'[r]
      BY <1>1, <3>1 DEF Noticing
    <3> HIDE DEF redis
    <3> QED
      BY <1>6, <3>1, <3>2, <3>3, <3>4
  <2>7. CASE AddSecurityHeaders(r) \/ LogAccess(r) \/ EchoCorrelationID(r)
    BY <1>5, <2>7 DEF AddSecurityHeaders, LogAccess, EchoCorrelationID
  <2>8. CASE AnswerUnhandled(r)
    BY <1>1, <2>8 DEF AnswerUnhandled, Go, TypeOK, Noticing, ProbeIsFair
  <2> QED
    BY <1>8, <2>1, <2>2, <2>3, <2>4, <2>5, <2>6, <2>7, <2>8 DEF Handle
<1> QED
  BY <1>4, <1>7, <1>8 DEF Next

-----------------------------------------------------------------------------
(* The theorems. *)

\* The inductive invariant holds.
LEMMA Inductive == Spec => []IInv
<1>1. Init => IInv
  <2> SUFFICES ASSUME Init PROVE IInv
    OBVIOUS
  <2>1. Cardinality(conn) = 0
    BY FS_EmptySet DEF Init
  <2>2. TypeOK
    <3>1. dbUp \in BOOLEAN /\ redisUp \in BOOLEAN /\ client \in BOOLEAN
      BY Zenon DEF Init
    <3>2. conn \subseteq Requests /\ Cardinality(conn) <= PoolMax
      BY <2>1, ServiceAssumption DEF Init
    <3>3. /\ server \in {"starting", "serving", "draining", "disposed", "stopped"}
          /\ clients \in Nat /\ log = {}
          /\ pc \in [Requests -> Inside \union {"new", "answered"}]
          /\ kind \in [Requests -> Kinds \union {None}]
          /\ context \in [Requests -> Requests \union {None}]
          /\ checks \in [Requests -> SUBSET {"db"}]
          /\ status \in [Requests -> {0, 200, 401, 404, 500, 503}]
          /\ headers \in [Requests -> SUBSET {"security", "id"}]
      BY DEF Init
    <3> QED
      BY <3>1, <3>2, <3>3 DEF TypeOK
  <2>3. Lifespan
    BY DEF Init, Lifespan
  <2>4. Connected /\ Handling /\ Logged /\ Noticing
    BY DEF Init, Connected, Handling, Logged, Noticing, Inside
  <2>5. AnswersAreTraced /\ ProbeIsFair
    BY DEF Init, AnswersAreTraced, ProbeIsFair
  <2> QED
    BY <2>2, <2>3, <2>4, <2>5 DEF IInv
<1>2. IInv /\ [Next]_vars => IInv'
  BY NextTypes, NextHandling, NextTraced, NextLifespan, NextProbed DEF IInv
<1> QED
  BY <1>1, <1>2, PTL DEF Spec

\* The state of the process keeps its types; the pool never exceeds its bound,
\* however many requests compete for it.
THEOREM TypesAreInvariant == Spec => []TypeOK
<1>1. IInv => TypeOK
  BY DEF IInv
<1> QED
  BY <1>1, Inductive, PTL

\* However many requests run at the same time, records of the access log have
\* the id and the status of their own request, and no answer that passed the
\* middlewares lacks its record or its headers.
THEOREM TracesAreInvariant == Spec => []AnswersAreTraced
<1>1. IInv => AnswersAreTraced
  BY DEF IInv
<1> QED
  BY <1>1, Inductive, PTL

\* A process that has stopped has answered what it let in, and has given back
\* its connections and its Redis client.
THEOREM StopsAreClean == Spec => []StopsClean
<1>1. IInv => StopsClean
  BY DEF IInv, Lifespan, StopsClean
<1> QED
  BY <1>1, Inductive, PTL

\* A probe says 200 or 503 for a reason that was there while it was asked.
THEOREM ProbesAreFair == Spec => []ProbeIsFair
<1>1. IInv => ProbeIsFair
  BY DEF IInv
<1> QED
  BY <1>1, Inductive, PTL

=============================================================================
