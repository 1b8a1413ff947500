------------------------ MODULE ServiceClientProofs ------------------------
(***************************************************************************)
(* Proofs about ServiceClient, for any number of calls and attempts: the   *)
(* types, what a result says, and that the client implements RemoteCall.   *)
(***************************************************************************)
EXTENDS ServiceClient, TLAPS

\* A call that was not made has no request on its way.
Located ==
  \A c \in Calls :
    /\ pc[c] = "idle" <=> attempt[c] = 0
    /\ \A n \in 1..Attempts : <<c, n>> \in sent => pc[c] # "idle"

\* A success is the answer of a service that has carried the attempt out, on
\* its way as well as in last_response.
SuccessIsCarriedOut ==
  /\ \A a \in answers : a.status \in Successes => a.attempt \in executed[a.call]
  /\ \A c \in Calls : last[c].status \in Successes => last[c].attempt \in executed[c]

IInv == TypeOK /\ Located /\ SuccessIsCarriedOut /\ ResultIsLastAnswer

-----------------------------------------------------------------------------
(* The steps that only move a call on, and what a response carries. *)

\* Steps of the client after which the answers to its request matter no more or not yet.
Moves(c) ==
  Call(c) \/ ConnectFails(c) \/ AnswerFails(c) \/ Disconnected(c) \/ Retry(c) \/ GiveUp(c)

\* The response that Receive reads is one of its attempt, and becomes last_response.
LEMMA ResponseIsRead ==
  ASSUME TypeOK, NEW c \in Calls, Receive(c)
  PROVE  \E a \in answers :
           /\ a.call = c /\ a.attempt = attempt[c] /\ a.status \in Statuses
           /\ a.attempt \in 1..Attempts
           /\ last' = [last EXCEPT ![c] = [attempt |-> a.attempt, status |-> a.status]]
           /\ pc' = [pc EXCEPT ![c] = IF a.status = "5xx" THEN "failed" ELSE "ended"]
BY DEF Receive, TypeOK

\* What Return gives the caller has a type, and is "ok" only for a success.
LEMMA OutcomeIsTyped ==
  ASSUME NEW c \in Calls, Return(c)
  PROVE  \E outcome \in {"ok", "refused", "error"} :
           /\ result' = [result EXCEPT ![c] = outcome]
           /\ pc' = [pc EXCEPT ![c] = IF outcome = "error" THEN "raised" ELSE "returned"]
           /\ outcome = "ok" => last[c].status \in Successes
BY DEF Return, ResultOf, Successes

\* Every step keeps the types.
LEMMA TypesAreKept == ClientAssumption /\ IInv /\ [Next]_vars => TypeOK'
<1> SUFFICES ASSUME ClientAssumption, IInv, [Next]_vars PROVE TypeOK'
  OBVIOUS
<1> USE DEF IInv
<1>1. ASSUME NEW c \in Calls, Moves(c) PROVE TypeOK'
  BY <1>1 DEF TypeOK, Moves, Call, ConnectFails, AnswerFails, Disconnected, Retry, GiveUp,
     Fail, Raise, network, Finished, ClientAssumption
<1>2. ASSUME NEW c \in Calls, Send(c) PROVE TypeOK'
  <2>1. attempt[c] \in 1..Attempts
    BY <1>2 DEF Send, TypeOK, Located
  <2> QED
    BY <1>2, <2>1 DEF TypeOK, Send, Finished
<1>3. ASSUME NEW c \in Calls, Receive(c) PROVE TypeOK'
  <2>1. PICK a \in answers :
          /\ a.status \in Statuses /\ a.attempt \in 1..Attempts
          /\ last' = [last EXCEPT ![c] = [attempt |-> a.attempt, status |-> a.status]]
          /\ pc' = [pc EXCEPT ![c] = IF a.status = "5xx" THEN "failed" ELSE "ended"]
    BY <1>3, ResponseIsRead
  <2>2. pc[c] = "waiting" /\ UNCHANGED <<attempt, result, network>>
    BY <1>3 DEF Receive
  <2> QED
    BY <2>1, <2>2 DEF TypeOK, network, Finished
<1>4. ASSUME NEW c \in Calls, Return(c) PROVE TypeOK'
  <2>1. PICK outcome \in {"ok", "refused", "error"} :
          /\ result' = [result EXCEPT ![c] = outcome]
          /\ pc' = [pc EXCEPT ![c] = IF outcome = "error" THEN "raised" ELSE "returned"]
    BY <1>4, OutcomeIsTyped
  <2>2. UNCHANGED <<attempt, last, network>>
    BY <1>4 DEF Return
  <2> QED
    BY <2>1, <2>2 DEF TypeOK, network, Finished
<1>5. ASSUME NEW r \in sent, Serve(r[1], r[2]) \/ ServeUnanswered(r[1], r[2]) PROVE TypeOK'
  <2>1. r[1] \in Calls /\ r[2] \in 1..Attempts
    BY DEF TypeOK
  <2> QED
    BY <1>5, <2>1 DEF TypeOK, Serve, ServeUnanswered
<1>6. CASE UNCHANGED vars
  BY <1>6 DEF TypeOK, vars
<1> QED
  BY <1>1, <1>2, <1>3, <1>4, <1>5, <1>6 DEF Next, ClientStep, Moves

\* What every action of the client preserves: it takes no call back.
LEMMA ControlIsKept == ClientAssumption /\ IInv /\ [Next]_vars => Located'
<1> SUFFICES ASSUME ClientAssumption, IInv, [Next]_vars PROVE Located'
  OBVIOUS
<1> USE DEF IInv
<1>1. ASSUME NEW c \in Calls, Moves(c) PROVE Located'
  BY <1>1 DEF TypeOK, Located, Moves, Call, ConnectFails, AnswerFails, Disconnected, Retry,
     GiveUp, Fail, Raise, network
<1>2. ASSUME NEW c \in Calls, Send(c) \/ Receive(c) \/ Return(c) PROVE Located'
  BY <1>2 DEF TypeOK, Located, Send, Receive, Return, network
<1>3. ASSUME NEW r \in sent, Serve(r[1], r[2]) \/ ServeUnanswered(r[1], r[2]) PROVE Located'
  BY <1>3 DEF TypeOK, Located, Serve, ServeUnanswered
<1>4. CASE UNCHANGED vars
  BY <1>4 DEF Located, vars
<1> QED
  BY <1>1, <1>2, <1>3, <1>4 DEF Next, ClientStep, Moves

\* The service answers with a success only what it has carried out, which stays
\* so, and last_response is one of its answers.
LEMMA SuccessIsKept == ClientAssumption /\ IInv /\ [Next]_vars => SuccessIsCarriedOut'
<1> SUFFICES ASSUME ClientAssumption, IInv, [Next]_vars PROVE SuccessIsCarriedOut'
  OBVIOUS
<1> USE DEF IInv
<1>1. CASE UNCHANGED <<last, executed, answers>>
  BY <1>1 DEF SuccessIsCarriedOut
<1>2. ASSUME NEW c \in Calls, Receive(c) PROVE SuccessIsCarriedOut'
  <2>1. PICK a \in answers :
          /\ a.call = c
          /\ last' = [last EXCEPT ![c] = [attempt |-> a.attempt, status |-> a.status]]
    BY <1>2, ResponseIsRead
  <2>2. UNCHANGED <<executed, answers>>
    BY <1>2 DEF Receive, network
  <2>3. a.status \in Successes => a.attempt \in executed[c]
    BY <2>1 DEF SuccessIsCarriedOut
  <2> QED
    BY <2>1, <2>2, <2>3 DEF SuccessIsCarriedOut, TypeOK
<1>3. ASSUME NEW r \in sent, Serve(r[1], r[2]) PROVE SuccessIsCarriedOut'
  <2>1. PICK status \in Statuses :
          /\ answers' = answers \union {[call |-> r[1], attempt |-> r[2], status |-> status]}
          /\ \/ executed' = [executed EXCEPT ![r[1]] = executed[r[1]] \union {r[2]}]
             \/ status \notin Successes /\ UNCHANGED executed
    BY <1>3 DEF Serve
  <2>2. r[1] \in Calls /\ r[2] \in 1..Attempts /\ UNCHANGED last
    BY <1>3 DEF TypeOK, Serve
  <2> QED
    BY <2>1, <2>2 DEF TypeOK, SuccessIsCarriedOut
<1>4. ASSUME NEW r \in sent, ServeUnanswered(r[1], r[2]) PROVE SuccessIsCarriedOut'
  <2>1. r[1] \in Calls /\ r[2] \in 1..Attempts
    BY DEF TypeOK
  <2>2. \A c \in Calls : executed[c] \subseteq executed'[c]
    BY <1>4, <2>1 DEF ServeUnanswered, TypeOK
  <2>3. UNCHANGED <<last, answers>>
    BY <1>4 DEF ServeUnanswered
  <2> QED
    BY <2>2, <2>3 DEF TypeOK, SuccessIsCarriedOut
<1> QED
  BY <1>1, <1>2, <1>3, <1>4 DEF Next, ClientStep, Call, Send, ConnectFails, AnswerFails,
     Disconnected, Retry, GiveUp, Return, Fail, Raise, network, vars

\* The loop ends without an exception only after the attempt that has set
\* last_response, and a call that has ended keeps its result.
LEMMA ResultsAreKept == ClientAssumption /\ IInv /\ [Next]_vars => ResultIsLastAnswer'
<1> SUFFICES ASSUME ClientAssumption, IInv, [Next]_vars PROVE ResultIsLastAnswer'
  OBVIOUS
<1> USE DEF IInv
<1>1. ASSUME NEW c \in Calls, Moves(c) \/ Send(c) PROVE ResultIsLastAnswer'
  BY <1>1 DEF TypeOK, Finished, ResultIsLastAnswer, Moves, Call, Send, ConnectFails,
     AnswerFails, Disconnected, Retry, GiveUp, Fail, Raise, network
<1>2. ASSUME NEW c \in Calls, Receive(c) PROVE ResultIsLastAnswer'
  <2>1. PICK a \in answers :
          /\ a.attempt = attempt[c] /\ a.status \in Statuses
          /\ last' = [last EXCEPT ![c] = [attempt |-> a.attempt, status |-> a.status]]
          /\ pc' = [pc EXCEPT ![c] = IF a.status = "5xx" THEN "failed" ELSE "ended"]
    BY <1>2, ResponseIsRead
  <2>2. pc[c] = "waiting" /\ result[c] = "none" /\ UNCHANGED <<attempt, result, executed>>
    BY <1>2 DEF Receive, network, TypeOK, Finished
  <2> QED
    BY <2>1, <2>2 DEF ResultIsLastAnswer, TypeOK
<1>3. ASSUME NEW c \in Calls, Return(c) PROVE ResultIsLastAnswer'
  <2>1. PICK outcome \in {"ok", "refused", "error"} :
          /\ result' = [result EXCEPT ![c] = outcome]
          /\ pc' = [pc EXCEPT ![c] = IF outcome = "error" THEN "raised" ELSE "returned"]
          /\ outcome = "ok" => last[c].status \in Successes
    BY <1>3, OutcomeIsTyped
  <2>2. pc[c] = "ended" /\ UNCHANGED <<attempt, last, executed>>
    BY <1>3 DEF Return, network
  <2>3. last[c].attempt = attempt[c] /\ last[c].status \in Statuses \ {"5xx"}
    BY <2>2 DEF ResultIsLastAnswer
  <2>4. outcome = "ok" => attempt[c] \in executed[c]
    BY <2>1, <2>3 DEF SuccessIsCarriedOut
  <2> QED
    BY <2>1, <2>2, <2>3, <2>4 DEF ResultIsLastAnswer, TypeOK
<1>4. ASSUME NEW r \in sent, Serve(r[1], r[2]) \/ ServeUnanswered(r[1], r[2])
      PROVE  ResultIsLastAnswer'
  <2>1. UNCHANGED <<pc, attempt, last, result>>
    BY <1>4 DEF Serve, ServeUnanswered
  <2>2. \A c \in Calls : executed[c] \subseteq executed'[c]
    BY <1>4 DEF Serve, ServeUnanswered, TypeOK
  <2> QED
    BY <2>1, <2>2 DEF ResultIsLastAnswer
<1>5. CASE UNCHANGED vars
  BY <1>5 DEF ResultIsLastAnswer, vars
<1> QED
  BY <1>1, <1>2, <1>3, <1>4, <1>5 DEF Next, ClientStep, Moves

\* The inductive invariant holds.
LEMMA Inductive == ClientAssumption => (Spec => []IInv)
<1> SUFFICES ASSUME ClientAssumption PROVE Spec => []IInv
  OBVIOUS
<1>1. Init => IInv
  BY DEF Init, IInv, ClientAssumption, TypeOK, Located, SuccessIsCarriedOut,
     ResultIsLastAnswer, Finished, NoResponse, Successes
<1>2. IInv /\ [Next]_vars => IInv'
  BY TypesAreKept, ControlIsKept, SuccessIsKept, ResultsAreKept DEF IInv
<1> QED
  BY <1>1, <1>2, PTL DEF Spec

-----------------------------------------------------------------------------
(* Steps of the client as steps of RemoteCall. *)

\* The end of the loop closes the call; a success has been carried out.
LEMMA ReturnRefines ==
  ASSUME IInv, NEW c \in Calls, Return(c)
  PROVE  Remote!Close(c)
<1>1. PICK outcome \in {"ok", "refused", "error"} :
        /\ result' = [result EXCEPT ![c] = outcome]
        /\ pc' = [pc EXCEPT ![c] = IF outcome = "error" THEN "raised" ELSE "returned"]
        /\ outcome = "ok" => last[c].status \in Successes
  BY OutcomeIsTyped
<1>2. pc[c] = "ended" /\ result[c] = "none" /\ UNCHANGED executed
  BY DEF Return, network, IInv, TypeOK, Finished
<1>3. outcome = "ok" => executed[c] # {}
  BY <1>1 DEF IInv, SuccessIsCarriedOut
<1>4. Outcome(c) = "open" /\ Outcome(c)' = outcome
  BY <1>1, <1>2 DEF IInv, TypeOK, Outcome
<1>5. \A d \in Calls \ {c} : Outcome(d)' = Outcome(d)
  BY <1>1 DEF IInv, TypeOK, Outcome
<1> QED
  BY <1>1, <1>2, <1>3, <1>4, <1>5 DEF Remote!Close, Remote!Outcomes

\* An exception that reaches the caller closes the call with an error.
LEMMA RaiseRefines ==
  ASSUME IInv, NEW c \in Calls, pc[c] \in {"waiting", "failed"}, Raise(c)
  PROVE  Remote!Close(c)
BY DEF IInv, TypeOK, Finished, Raise, network, Outcome, Remote!Close, Remote!Outcomes

\* What the service does is an execution of an attempt, or no step.
LEMMA ServeRefines ==
  ASSUME IInv, NEW r \in sent, Serve(r[1], r[2]) \/ ServeUnanswered(r[1], r[2])
  PROVE  [Remote!Next]_(Remote!call)
<1>1. r[1] \in Calls /\ r[2] \in 1..Attempts /\ r = <<r[1], r[2]>>
  BY DEF IInv, TypeOK
<1>2. pc[r[1]] # "idle" /\ Outcome(r[1]) # "none"
  BY <1>1 DEF IInv, Located, TypeOK, Outcome
<1>3. \A c \in Calls : Outcome(c)' = Outcome(c)
  BY DEF Serve, ServeUnanswered, Outcome
<1>4. \/ UNCHANGED executed
      \/ executed' = [executed EXCEPT ![r[1]] = executed[r[1]] \union {r[2]}]
  BY DEF Serve, ServeUnanswered
<1>5. CASE executed' = executed
  BY <1>3, <1>5 DEF Remote!call
<1>6. CASE r[2] \in executed[r[1]]
  <2>1. executed[r[1]] \union {r[2]} = executed[r[1]]
    BY <1>6
  <2>2. [executed EXCEPT ![r[1]] = executed[r[1]]] = executed
    BY <1>1 DEF IInv, TypeOK
  <2>3. executed' = executed
    BY <1>4, <2>1, <2>2
  <2> QED
    BY <1>5, <2>3
<1>7. CASE r[2] \notin executed[r[1]] /\ executed' # executed
  BY <1>1, <1>2, <1>3, <1>4, <1>7 DEF Remote!Next, Remote!CarryOut
<1> QED
  BY <1>5, <1>6, <1>7

\* Each step of the client, the network and the service is a step of RemoteCall
\* or leaves it where it is.
LEMMA NextRefines ==
  ASSUME IInv, [Next]_vars
  PROVE  [Remote!Next]_(Remote!call)
<1>1. ASSUME NEW c \in Calls, Call(c) PROVE Remote!Open(c)
  BY <1>1 DEF IInv, TypeOK, Finished, Call, network, Outcome, Remote!Open
<1>2. ASSUME NEW c \in Calls,
             Send(c) \/ ConnectFails(c) \/ AnswerFails(c) \/ Receive(c) \/ Retry(c)
      PROVE  UNCHANGED Remote!call
  <2>1. UNCHANGED <<result, executed>>
    BY <1>2 DEF Send, ConnectFails, AnswerFails, Receive, Retry, Fail, network
  <2>2. \A d \in Calls : (pc[d] = "idle") <=> (pc'[d] = "idle")
    BY <1>2 DEF IInv, TypeOK, Send, ConnectFails, AnswerFails, Receive, Retry, Fail
  <2> QED
    BY <2>1, <2>2 DEF Outcome, Remote!call
<1>3. ASSUME NEW c \in Calls, Disconnected(c) \/ GiveUp(c) PROVE Remote!Close(c)
  BY <1>3, RaiseRefines DEF Disconnected, GiveUp
<1>4. CASE UNCHANGED vars
  BY <1>4 DEF vars, Outcome, Remote!call
<1> QED
  BY <1>1, <1>2, <1>3, <1>4, ReturnRefines, ServeRefines DEF Next, ClientStep, Remote!Next

-----------------------------------------------------------------------------
(* The theorems. *)

\* A call has a result exactly when it has ended, and is attempted at most
\* retry_attempts times.
THEOREM TypesAreInvariant == Spec => []TypeOK
BY Inductive, ClientAssumption, PTL DEF IInv

\* Where the retry loop ends without an exception, last_response is the response
\* to the last attempt and no 5xx, whatever earlier attempts had set it to; a
\* success was carried out in that attempt.
THEOREM ResultsAreLastAnswers == Spec => []ResultIsLastAnswer
BY Inductive, ClientAssumption, PTL DEF IInv

\* The client implements RemoteCall: however requests and answers are delayed
\* and lost, a call is carried out at most retry_attempts times and has been
\* carried out if it succeeds.
THEOREM ClientImplementsRemoteCall == Spec => ImplementsRemoteCall
<1>1. Init => Remote!Init
  BY DEF Init, Remote!Init, Outcome
<1>2. IInv /\ [Next]_vars => [Remote!Next]_(Remote!call)
  BY NextRefines
<1> QED
  BY <1>1, <1>2, Inductive, ClientAssumption, PTL DEF Spec, ImplementsRemoteCall, Remote!Spec

=============================================================================
