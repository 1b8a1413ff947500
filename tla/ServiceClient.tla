--------------------------- MODULE ServiceClient ---------------------------
(***************************************************************************)
(* Calls to another service through ServiceClient: each is attempted up to *)
(* retry_attempts times, after an error of the connection, a timeout or a  *)
(* 5xx, whatever its method.  The service may carry out a request whose    *)
(* caller has stopped waiting, and its answer may come too late.           *)
(***************************************************************************)
EXTENDS Naturals

CONSTANTS
  Calls,      \* calls, each a coroutine with a client of its own or a shared one
  Json,       \* those of get_json and post_json
  Attempts    \* retry_attempts

ASSUME ClientAssumption == Attempts \in Nat \ {0} /\ Json \subseteq Calls

VARIABLES
  pc,         \* where a call stands
  attempt,    \* attempt_number of Tenacity
  last,       \* last_response: which attempt it answers, and its status
  result,     \* what the caller got: "none", "ok", "refused" or "error"
  sent,       \* requests on their way: <<c, n>>, attempt n of call c
  executed,   \* executed[c]: attempts that the service has carried out
  answers     \* answers given: [call, attempt, status]

vars == <<pc, attempt, last, result, sent, executed, answers>>
network == <<sent, executed, answers>>

\* "garbled" is a 2xx whose body is no JSON; "4xx" stands for whatever else is
\* neither a success nor a 5xx.
Statuses == {"2xx", "garbled", "4xx", "5xx"}
Successes == {"2xx", "garbled"}
Finished == {"returned", "raised"}

NoResponse == [attempt |-> 0, status |-> "none"]

Init ==
  /\ pc = [c \in Calls |-> "idle"]
  /\ attempt = [c \in Calls |-> 0]
  /\ last = [c \in Calls |-> NoResponse]
  /\ result = [c \in Calls |-> "none"]
  /\ executed = [c \in Calls |-> {}]
  /\ sent = {} /\ answers = {}

-----------------------------------------------------------------------------
(* The client. *)

Call(c) ==
  /\ pc[c] = "idle"
  /\ pc' = [pc EXCEPT ![c] = "attempt"]
  /\ attempt' = [attempt EXCEPT ![c] = 1]
  /\ UNCHANGED <<last, result, network>>

\* The request leaves, after the hook has given it the caller's correlation id.
Send(c) ==
  /\ pc[c] = "attempt"
  /\ pc' = [pc EXCEPT ![c] = "waiting"]
  /\ sent' = sent \union {<<c, attempt[c]>>}
  /\ UNCHANGED <<attempt, last, result, executed, answers>>

\* The attempt ends with a transient exception, which Tenacity holds.
Fail(c) ==
  /\ pc' = [pc EXCEPT ![c] = "failed"]
  /\ UNCHANGED <<attempt, last, result, network>>

Raise(c) ==
  /\ pc' = [pc EXCEPT ![c] = "raised"]
  /\ result' = [result EXCEPT ![c] = "error"]
  /\ UNCHANGED <<attempt, last, network>>

\* ConnectError, ConnectTimeout: nothing was sent.
ConnectFails(c) == pc[c] = "attempt" /\ Fail(c)

\* Mutant: no timeout, only errors of the connection.
AnswerFailsAtOnce(c) == pc[c] = "waiting" /\ <<c, attempt[c]>> \notin sent /\ Fail(c)

\* ReadTimeout, ReadError, WriteError: the connection is closed, and an answer
\* that comes later is not read.
AnswerFails(c) == pc[c] = "waiting" /\ Fail(c)

\* RemoteProtocolError, when the service closes the connection without an
\* answer, is no NetworkError: it is raised at once.
Disconnected(c) == pc[c] = "waiting" /\ <<c, attempt[c]>> \notin sent /\ Raise(c)

\* The request returns the response on this attempt's connection (which is
\* httpx's doing): it becomes last_response before its status is looked at.
Receive(c) ==
  /\ pc[c] = "waiting"
  /\ \E a \in answers :
       /\ a.call = c /\ a.attempt = attempt[c]
       /\ last' = [last EXCEPT ![c] = [attempt |-> a.attempt, status |-> a.status]]
       /\ pc' = [pc EXCEPT ![c] = IF a.status = "5xx" THEN "failed" ELSE "ended"]
  /\ UNCHANGED <<attempt, result, network>>

\* Mutant: one attempt more.
RetryOnceMore(c) ==
  /\ pc[c] = "failed" /\ attempt[c] <= Attempts
  /\ pc' = [pc EXCEPT ![c] = "attempt"]
  /\ attempt' = [attempt EXCEPT ![c] = attempt[c] + 1]
  /\ UNCHANGED <<last, result, network>>

\* The next attempt, after the wait of the backoff; last_response stays.
Retry(c) ==
  /\ pc[c] = "failed" /\ attempt[c] < Attempts
  /\ pc' = [pc EXCEPT ![c] = "attempt"]
  /\ attempt' = [attempt EXCEPT ![c] = attempt[c] + 1]
  /\ UNCHANGED <<last, result, network>>

\* Mutant: the loop ends as after a success, and last_response is returned.
EndQuietly(c) ==
  /\ pc[c] = "failed" /\ attempt[c] >= Attempts
  /\ pc' = [pc EXCEPT ![c] = "ended"]
  /\ UNCHANGED <<attempt, last, result, network>>

\* The last exception is raised again (reraise=True).
GiveUp(c) == pc[c] = "failed" /\ attempt[c] >= Attempts /\ Raise(c)

\* raise_for_status of the JSON methods makes an error of what is no success,
\* and response.json() of a body that it cannot decode.
ResultOf(c, status) ==
  CASE status = "2xx" \/ (status = "garbled" /\ c \notin Json) -> "ok"
    [] status \notin Successes /\ c \notin Json -> "refused"
    [] OTHER -> "error"

\* The loop has ended without an exception: last_response is asserted to be
\* there and is returned.
Return(c) ==
  /\ pc[c] = "ended"
  /\ LET outcome == IF last[c] = NoResponse THEN "error" ELSE ResultOf(c, last[c].status)
     IN  /\ result' = [result EXCEPT ![c] = outcome]
         /\ pc' = [pc EXCEPT ![c] = IF outcome = "error" THEN "raised" ELSE "returned"]
  /\ UNCHANGED <<attempt, last, network>>

-----------------------------------------------------------------------------
(* The network and the other service. *)

\* A success is the answer of a service that has carried the request out; with
\* another status it may have done so or not.
Serve(c, n) ==
  /\ <<c, n>> \in sent
  /\ sent' = sent \ {<<c, n>>}
  /\ \E status \in Statuses :
       /\ answers' = answers \union {[call |-> c, attempt |-> n, status |-> status]}
       /\ \/ executed' = [executed EXCEPT ![c] = executed[c] \union {n}]
          \/ status \notin Successes /\ UNCHANGED executed
  /\ UNCHANGED <<pc, attempt, last, result>>

\* The service carries the request out and its answer gets lost, or the
\* request gets lost.
ServeUnanswered(c, n) ==
  /\ <<c, n>> \in sent
  /\ sent' = sent \ {<<c, n>>}
  /\ executed' \in {executed, [executed EXCEPT ![c] = executed[c] \union {n}]}
  /\ UNCHANGED <<pc, attempt, last, result, answers>>

ClientStep(c) ==
  \/ Call(c) \/ Send(c) \/ ConnectFails(c) \/ AnswerFails(c) \/ Disconnected(c)
  \/ Receive(c) \/ Retry(c) \/ GiveUp(c) \/ Return(c)

Next ==
  \/ \E c \in Calls : ClientStep(c)
  \/ \E r \in sent : Serve(r[1], r[2]) \/ ServeUnanswered(r[1], r[2])

Spec == Init /\ [][Next]_vars

\* The client's timeouts: a coroutine that waits goes on in the end.
FairSpec == Spec /\ \A c \in Calls : WF_vars(ClientStep(c))

-----------------------------------------------------------------------------
(* Properties. *)

\* The types; a call that has ended has a result (client.py:150-151).
TypeOK ==
  /\ pc \in [Calls -> {"idle", "attempt", "waiting", "failed", "ended"} \union Finished]
  /\ attempt \in [Calls -> 0..Attempts]
  /\ last \in [Calls -> [attempt : 0..Attempts, status : Statuses \union {"none"}]]
  /\ result \in [Calls -> {"none", "ok", "refused", "error"}]
  /\ \A c \in Calls : (pc[c] \in Finished) <=> (result[c] # "none")
  /\ sent \subseteq Calls \X (1..Attempts)
  /\ executed \in [Calls -> SUBSET (1..Attempts)]
  /\ answers \subseteq [call : Calls, attempt : 1..Attempts, status : Statuses]

\* last_response outlives the attempt that set it, so after a 5xx and a timeout
\* it is not the current attempt's.  Where the loop ends and it is returned it
\* is, and is no 5xx: the assertion holds, the response that made an attempt
\* fail is never returned, and a success was carried out in the last attempt
\* (client.py:124, 137-151).
ResultIsLastAnswer ==
  \A c \in Calls :
    /\ pc[c] \in {"ended", "returned"} =>
         last[c].attempt = attempt[c] /\ last[c].status \in Statuses \ {"5xx"}
    /\ result[c] = "ok" =>
         last[c].status \in Successes /\ attempt[c] \in executed[c]

\* The client implements RemoteCall: at most retry_attempts executions of one
\* call, POST included, some perhaps after the caller was given an error, and
\* no success without one (client.py:122-151).
Outcome(c) == IF pc[c] = "idle" THEN "none" ELSE IF result[c] = "none" THEN "open" ELSE result[c]

Remote == INSTANCE RemoteCall WITH
  carried <- executed,
  outcome <- [c \in Calls |-> Outcome(c)]

ImplementsRemoteCall == Remote!Spec

\* Every call that was made ends, whatever the service does (client.py:40, 126-134).
Responds == \A c \in Calls : (pc[c] = "attempt") ~> (pc[c] \in Finished)
=============================================================================
