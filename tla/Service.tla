------------------------------ MODULE Service ------------------------------
(***************************************************************************)
(* One process of the API around its endpoints: lifespan, middlewares, the *)
(* pool of database connections, the Redis client and the probes.          *)
(*                                                                         *)
(* A request passes CorrelationID, AccessLog, SecurityHeaders and CORS to  *)
(* its endpoint.  A response, an HTTPException included, passes them again *)
(* on its way out.  Any other exception leaves them by their finally       *)
(* clauses only and is answered with 500 outside of all of them.           *)
(***************************************************************************)
EXTENDS Naturals, FiniteSets

CONSTANTS
  Requests,   \* requests, which stand for their correlation ids, too
  PoolMax,    \* database_pool_size + database_max_overflow
  None

ASSUME ServiceAssumption ==
  /\ PoolMax \in Nat \ {0} /\ None \notin Requests /\ IsFiniteSet(Requests)

VARIABLES
  server,    \* the lifespan
  dbUp, redisUp,  \* the services it depends on
  pc,        \* where each request is
  kind,      \* kind[r]: what it asks for, once it has arrived
  context,   \* values of the ContextVar correlation_id
  conn,      \* requests whose session has a connection of the pool
  checks,    \* checks[r]: the checks of a probe that are "ok"
  status,    \* status[r] of the response
  headers,   \* headers[r]: what the middlewares have added to the response
  log,       \* records of the access log
  client,    \* whether _client of redis.py is set
  clients,   \* Redis clients that are open
  saw        \* history: what was true while a probe was inside

lifespan == <<server, client>>
services == <<dbUp, redisUp>>
response == <<status, headers, log>>
vars == <<server, dbUp, redisUp, pc, kind, context, conn, checks, status, headers, log,
          client, clients, saw>>

Inside == {"inside", "wait", "query", "redis", "ping", "raised", "handled", "secured", "logged"}

\* GET /health/live, GET /health/ready, POST /auth/token, and the endpoints of
\* banking, without ("anonymous") or with the header X-authentik-uid.
Kinds == {"live", "ready", "login", "anonymous", "banking"}
Unlogged == {"live", "ready"}

Init ==
  /\ server = "starting" /\ dbUp \in BOOLEAN /\ redisUp \in BOOLEAN
  /\ pc = [r \in Requests |-> "new"]
  /\ kind = [r \in Requests |-> None]
  /\ context = [r \in Requests |-> None]
  /\ conn = {} /\ checks = [r \in Requests |-> {}]
  /\ status = [r \in Requests |-> 0]
  /\ headers = [r \in Requests |-> {}]
  /\ log = {} /\ client = FALSE /\ clients = 0
  /\ saw = [r \in Requests |-> {}]

Go(r, place) == pc' = [pc EXCEPT ![r] = place]

\* Mutant: the id is kept in a variable of the module.
OneVariable(r) == CHOOSE q \in Requests : TRUE

\* A ContextVar has a value for each task, and each request is a task.
ContextOf(r) == r

\* What a probe inside could notice in the state after a step; each action
\* ends with it.
Trouble(r) == ~dbUp \/ ~redisUp \/ Cardinality(conn \ {r}) = PoolMax
Noticed(r) ==
  (IF dbUp THEN {"db"} ELSE {}) \union (IF redisUp THEN {"redis"} ELSE {})
    \union (IF Trouble(r) THEN {"trouble"} ELSE {})
Watch ==
  saw' = [r \in Requests |-> IF kind'[r] = "ready" /\ pc'[r] \in Inside
                             THEN saw[r] \union Noticed(r)' ELSE saw[r]]

-----------------------------------------------------------------------------
(* The lifespan and the services. *)

\* SELECT 1: the process ends if the database cannot be reached.
Startup ==
  /\ server = "starting"
  /\ server' = IF dbUp THEN "serving" ELSE "stopped"
  /\ UNCHANGED <<services, pc, kind, context, conn, checks, response, client, clients>> /\ Watch

\* SIGTERM: no new requests.
Terminate ==
  /\ server = "serving"
  /\ server' = "draining"
  /\ UNCHANGED <<services, pc, kind, context, conn, checks, response, client, clients>> /\ Watch

\* uvicorn has let the requests end; engine.dispose().
Dispose ==
  /\ server = "draining"
  /\ \A r \in Requests : pc[r] \in {"new", "answered"}
  /\ conn = {}
  /\ server' = "disposed"
  /\ UNCHANGED <<services, pc, kind, context, conn, checks, response, client, clients>> /\ Watch

CloseRedis ==
  /\ server = "disposed"
  /\ clients' = IF client THEN clients - 1 ELSE clients
  /\ client' = FALSE
  /\ server' = "stopped"
  /\ UNCHANGED <<services, pc, kind, context, conn, checks, response>> /\ Watch

ServiceChanges ==
  /\ \/ dbUp' = ~dbUp /\ UNCHANGED redisUp
     \/ redisUp' = ~redisUp /\ UNCHANGED dbUp
  /\ UNCHANGED <<lifespan, pc, kind, context, conn, checks, response, clients>> /\ Watch

-----------------------------------------------------------------------------
(* The way in. *)

\* The middlewares up to the endpoint; correlation.set_id.
Arrive(r) ==
  /\ server = "serving" /\ pc[r] = "new"
  /\ Go(r, "inside")
  /\ \E k \in Kinds : kind' = [kind EXCEPT ![r] = k]
  /\ context' = [context EXCEPT ![ContextOf(r)] = r]
  /\ UNCHANGED <<lifespan, services, conn, checks, response, clients>> /\ Watch

Answer(r, code) ==
  /\ Go(r, "handled")
  /\ status' = [status EXCEPT ![r] = code]
  /\ UNCHANGED <<headers, log>>

Liveness(r) ==
  /\ pc[r] = "inside" /\ kind[r] = "live"
  /\ Answer(r, 200)
  /\ UNCHANGED <<lifespan, services, kind, context, conn, checks, clients>> /\ Watch

\* _get_login_use_case raises NotImplementedError.
Login(r) ==
  /\ pc[r] = "inside" /\ kind[r] = "login"
  /\ Go(r, "raised")
  /\ UNCHANGED <<lifespan, services, kind, context, conn, checks, response, clients>> /\ Watch

NotAuthenticated(r) ==
  /\ pc[r] = "inside" /\ kind[r] = "anonymous"
  /\ Answer(r, 401)
  /\ UNCHANGED <<lifespan, services, kind, context, conn, checks, clients>> /\ Watch

\* The endpoint gets a session, and asks the pool with its first statement.
OpenSession(r) ==
  /\ pc[r] = "inside"
  /\ kind[r] \in {"ready", "banking"}
  /\ Go(r, "wait")
  /\ UNCHANGED <<lifespan, services, kind, context, conn, checks, response, clients>> /\ Watch

-----------------------------------------------------------------------------
(* The endpoint and the pool. *)

\* Mutant: the pool has no bound.
AcquireAnyway(r) ==
  /\ pc[r] = "wait" /\ dbUp
  /\ conn' = conn \union {r}
  /\ Go(r, "query")
  /\ UNCHANGED <<lifespan, services, kind, context, checks, response, clients>> /\ Watch

Acquire(r) ==
  /\ pc[r] = "wait" /\ dbUp
  /\ Cardinality(conn) < PoolMax
  /\ conn' = conn \union {r}
  /\ Go(r, "query")
  /\ UNCHANGED <<lifespan, services, kind, context, checks, response, clients>> /\ Watch

\* A probe catches what the database raises, a banking endpoint does not.
DatabaseFails(r) ==
  /\ Go(r, IF kind[r] = "ready" THEN "redis" ELSE "raised")
  /\ UNCHANGED <<lifespan, services, kind, context, conn, checks, response, clients>> /\ Watch

\* No connection can be made, or none came back before the pool's timeout.
AcquireFails(r) ==
  /\ pc[r] = "wait"
  /\ ~dbUp \/ Cardinality(conn) = PoolMax
  /\ DatabaseFails(r)

QueryFails(r) ==
  /\ pc[r] = "query"
  /\ ~dbUp \/ kind[r] = "banking"
  /\ DatabaseFails(r)

Query(r) ==
  /\ pc[r] = "query" /\ kind[r] = "banking" /\ dbUp
  /\ \E code \in {200, 404} : Answer(r, code)
  /\ UNCHANGED <<lifespan, services, kind, context, conn, checks, clients>> /\ Watch

CheckDb(r) ==
  /\ pc[r] = "query" /\ kind[r] = "ready" /\ dbUp
  /\ checks' = [checks EXCEPT ![r] = {"db"}]
  /\ Go(r, "redis")
  /\ UNCHANGED <<lifespan, services, kind, context, conn, response, clients>> /\ Watch

\* Mutant: _client is not declared global.
GetRedisUnshared(r) ==
  /\ pc[r] = "redis"
  /\ client' = TRUE /\ clients' = clients + 1
  /\ Go(r, "ping")
  /\ UNCHANGED <<server, services, kind, context, conn, checks, response>> /\ Watch

\* There is no await between the check and the assignment of _client.
GetRedis(r) ==
  /\ pc[r] = "redis"
  /\ client' = TRUE
  /\ clients' = IF client THEN clients ELSE clients + 1
  /\ Go(r, "ping")
  /\ UNCHANGED <<server, services, kind, context, conn, checks, response>> /\ Watch

\* Mutant: one dependency is enough.
ProbeAny(r, redis) == IF checks[r] \union redis # {} THEN 200 ELSE 503

Probe(r, redis) == IF checks[r] \union redis = {"db", "redis"} THEN 200 ELSE 503

Ping(r) ==
  /\ pc[r] = "ping"
  /\ Answer(r, Probe(r, IF redisUp THEN {"redis"} ELSE {}))
  /\ UNCHANGED <<lifespan, services, kind, context, conn, checks, clients>> /\ Watch

\* Mutant: a session is closed only if its endpoint has answered.
ReleaseAnswered(r) ==
  /\ r \in conn /\ status[r] \in {200, 404}
  /\ conn' = conn \ {r}
  /\ UNCHANGED <<lifespan, services, pc, kind, context, checks, response, clients>> /\ Watch

\* The session is closed when the endpoint has ended, before or after its
\* response is sent, and its connection goes back to the pool.
Release(r) ==
  /\ r \in conn /\ pc[r] \in {"handled", "secured", "logged", "raised", "answered"}
  /\ conn' = conn \ {r}
  /\ UNCHANGED <<lifespan, services, pc, kind, context, checks, response, clients>> /\ Watch

-----------------------------------------------------------------------------
(* The way out. *)

AddSecurityHeaders(r) ==
  /\ pc[r] = "handled"
  /\ Go(r, "secured")
  /\ headers' = [headers EXCEPT ![r] = headers[r] \union {"security"}]
  /\ UNCHANGED <<lifespan, services, kind, context, conn, checks, status, log, clients>> /\ Watch

\* The record has the id that the ContextVar has now; probes are not logged.
LogAccess(r) ==
  /\ pc[r] = "secured"
  /\ Go(r, "logged")
  /\ log' = IF kind[r] \in Unlogged THEN log
            ELSE log \union {[request |-> r, status |-> status[r],
                              id |-> context[ContextOf(r)]]}
  /\ UNCHANGED <<lifespan, services, kind, context, conn, checks, status, headers, clients>> /\ Watch

\* correlation.reset, and the header from the local cid.
EchoCorrelationID(r) ==
  /\ pc[r] = "logged"
  /\ Go(r, "answered")
  /\ context' = [context EXCEPT ![ContextOf(r)] = None]
  /\ headers' = [headers EXCEPT ![r] = headers[r] \union {"id"}]
  /\ UNCHANGED <<lifespan, services, kind, conn, checks, status, log, clients>> /\ Watch

\* An exception without a handler: the finally clause, and ServerErrorMiddleware.
AnswerUnhandled(r) ==
  /\ pc[r] = "raised"
  /\ Go(r, "answered")
  /\ context' = [context EXCEPT ![ContextOf(r)] = None]
  /\ status' = [status EXCEPT ![r] = 500]
  /\ UNCHANGED <<lifespan, services, kind, conn, checks, headers, log, clients>> /\ Watch

Handle(r) ==
  \/ Liveness(r) \/ Login(r) \/ NotAuthenticated(r) \/ OpenSession(r)
  \/ Acquire(r) \/ AcquireFails(r) \/ Query(r) \/ QueryFails(r)
  \/ CheckDb(r) \/ GetRedis(r) \/ Ping(r)
  \/ AddSecurityHeaders(r) \/ LogAccess(r) \/ EchoCorrelationID(r) \/ AnswerUnhandled(r)

Next ==
  \/ Startup \/ Terminate \/ Dispose \/ CloseRedis \/ ServiceChanges
  \/ \E r \in Requests : Arrive(r) \/ Handle(r) \/ Release(r)

Spec == Init /\ [][Next]_vars

\* Requests are tasks of the event loop, waits for a connection, a statement
\* or Redis end (timeouts of the pool and of the socket), and a process that
\* was told to terminate goes on.
FairSpec ==
  /\ Spec
  /\ \A r \in Requests : WF_vars(Handle(r)) /\ WF_vars(Release(r))
  /\ WF_vars(Dispose \/ CloseRedis)

-----------------------------------------------------------------------------
(* Properties. *)

\* The types; the pool never exceeds its bound (session.py:23-29).
TypeOK ==
  /\ server \in {"starting", "serving", "draining", "disposed", "stopped"}
  /\ dbUp \in BOOLEAN /\ redisUp \in BOOLEAN /\ client \in BOOLEAN /\ clients \in Nat
  /\ pc \in [Requests -> Inside \union {"new", "answered"}]
  /\ kind \in [Requests -> Kinds \union {None}]
  /\ context \in [Requests -> Requests \union {None}]
  /\ conn \subseteq Requests /\ Cardinality(conn) <= PoolMax
  /\ checks \in [Requests -> SUBSET {"db"}]
  /\ status \in [Requests -> {0, 200, 401, 404, 500, 503}]
  /\ headers \in [Requests -> SUBSET {"security", "id"}]
  /\ log \subseteq [request : Requests, status : Nat, id : Requests \union {None}]

\* Whatever requests run at the same time, one record of the access log with
\* its own id and its final status is there for each answer that passed the
\* middlewares, the headers are on it, and no record has another id; probes
\* are not logged (logging.py:30-48, correlation.py:27-40, security.py:44-55).
AnswersAreTraced ==
  /\ \A e \in log : e.id = e.request /\ e.status = status[e.request]
  /\ \A r \in Requests : pc[r] = "answered" /\ status[r] # 500 =>
       /\ headers[r] = {"security", "id"}
       /\ kind[r] \notin Unlogged => \E e \in log : e.request = r

\* A process that was told to terminate leaves nothing behind: each request it
\* let in is answered, no connection is out, no Redis client is open
\* (main.py:65-69, redis.py:28-35).
StopsClean ==
  server = "stopped" =>
    /\ clients = 0 /\ conn = {}
    /\ \A r \in Requests : pc[r] \in {"new", "answered"}

\* A probe says 200 only if both dependencies were up while it was asked, and
\* 503 only if one of them was down or other requests had all connections
\* (health.py:54-76).
ProbeIsFair ==
  \A r \in Requests : kind[r] = "ready" =>
    /\ status[r] = 200 => {"db", "redis"} \subseteq saw[r]
    /\ status[r] = 503 => "trouble" \in saw[r]

\* Each request that is let in is answered and gives its connection back,
\* although more requests than connections are inside, services go down and
\* endpoints raise; and a process that is told to terminate does
\* (session.py:23-42, main.py:66).
Responds ==
  /\ \A r \in Requests : (pc[r] = "inside") ~> (pc[r] = "answered" /\ r \notin conn)
  /\ (server = "draining") ~> (server = "stopped")

\* Every response has the id of its request: correlation.py:3-7 says "On every
\* inbound request: ... Echoes it back in the response X-Correlation-ID header".
EveryAnswerIsEchoed == \A r \in Requests : pc[r] = "answered" => "id" \in headers[r]
=============================================================================
