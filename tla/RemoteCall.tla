----------------------------- MODULE RemoteCall -----------------------------
(***************************************************************************)
(* What a call through ServiceClient promises its caller, without          *)
(* messages, timeouts and retries.  The other service carries a call out   *)
(* at most once per attempt, and may do so after the caller was told of an *)
(* error; a call that succeeds has been carried out.                       *)
(***************************************************************************)
EXTENDS Naturals

CONSTANTS
  Calls,     \* calls to the other service
  Attempts   \* retry_attempts

VARIABLES
  carried,   \* carried[c]: the attempts of c that were carried out
  outcome    \* outcome[c]: "none", "open", or what c ended with

call == <<carried, outcome>>

Outcomes == {"ok", "refused", "error"}

Init ==
  /\ carried = [c \in Calls |-> {}]
  /\ outcome = [c \in Calls |-> "none"]

Open(c) ==
  /\ outcome[c] = "none"
  /\ outcome' = [outcome EXCEPT ![c] = "open"]
  /\ UNCHANGED carried

CarryOut(c) ==
  /\ outcome[c] # "none"
  /\ \E n \in (1..Attempts) \ carried[c] :
       carried' = [carried EXCEPT ![c] = carried[c] \union {n}]
  /\ UNCHANGED outcome

Close(c) ==
  /\ outcome[c] = "open"
  /\ \E o \in Outcomes :
       /\ o = "ok" => carried[c] # {}
       /\ outcome' = [outcome EXCEPT ![c] = o]
  /\ UNCHANGED carried

Next == \E c \in Calls : Open(c) \/ CarryOut(c) \/ Close(c)

Spec == Init /\ [][Next]_call
=============================================================================
