--------------------------- MODULE DaemonService ---------------------------
(***************************************************************************)
(* What the daemon promises its callers: one atomic state machine.  Each    *)
(* request takes effect at most once, at one instant after it was made, on  *)
(* the state that all earlier effects left; its caller is told that very    *)
(* outcome or an error.  A caller that gave up may still see its request    *)
(* performed later; one that was told "rejected" never does.                *)
(***************************************************************************)
EXTENDS DaemonState

CONSTANTS Clients,     \* callers, one request each
          RequestId,   \* RequestId[c]: the id of c's request
          Requests,    \* commands that callers request
          Local        \* commands that come from the daemon's own user interface

VARIABLES request,     \* request[c]: what c asked for
          outcome,     \* outcome[c]: what performing it gave
          result,      \* result[c]: what c was told
          state,       \* the daemon's state
          stopped      \* a shutdown was performed

vars == <<request, outcome, result, state, stopped>>

NoRequest == [kind |-> "no_frame"]
NoOutcome == [kind |-> "no_reply"]
NoResult  == [kind |-> "pending"]

Done(s, id)       == [kind |-> "success", id |-> id, snapshot |-> s]
Failed(id, codes) == [kind : {"error"}, id : {id}, code : codes]

\* Answers that promise the request had no effect and will have none.
Rejections ==
       [kind : {"refused", "id_mismatch"}]
  \cup [kind : {"error"}, id : 0..0 \cup {RequestId[c] : c \in Clients},
        code : {"invalid_frame", "unsupported_version"}]

\* Answers that promise nothing.
Silences == [kind : {"closed", "timeout"}]

Init ==
  /\ request = [c \in Clients |-> NoRequest]
  /\ outcome = [c \in Clients |-> NoOutcome]
  /\ result = [c \in Clients |-> NoResult]
  /\ state = DefaultSnapshot
  /\ stopped = FALSE

Invoke(c) ==
  /\ request[c] = NoRequest
  /\ \E r \in Requests : request' = [request EXCEPT ![c] = r]
  /\ UNCHANGED <<outcome, result, state, stopped>>

\* A command succeeds and is applied, or fails and changes nothing.
Perform(c) ==
  /\ ~stopped
  /\ request[c] # NoRequest
  /\ outcome[c] = NoOutcome
  /\ result[c] \notin Rejections
  /\ \/ /\ Valid(request[c])
        /\ state' = Reduce(state, request[c])
        /\ outcome' = [outcome EXCEPT ![c] = Done(state', RequestId[c])]
     \/ /\ \E f \in Failed(RequestId[c], {"invalid_command", "ui_unavailable", "internal"}) :
             outcome' = [outcome EXCEPT ![c] = f]
        /\ state' = state
  /\ stopped' = (request[c].kind = "shutdown")
  /\ UNCHANGED <<request, result>>

Return(c) ==
  /\ result[c] = NoResult
  /\ \/ outcome[c] # NoOutcome /\ result' = [result EXCEPT ![c] = outcome[c]]
     \/ outcome[c] = NoOutcome /\ \E r \in Rejections : result' = [result EXCEPT ![c] = r]
     \/ \E r \in Silences : result' = [result EXCEPT ![c] = r]
  /\ UNCHANGED <<request, outcome, state, stopped>>

\* The user acts in the window.
Act ==
  /\ ~stopped
  /\ \E a \in Local : state' = Reduce(state, a)
  /\ UNCHANGED <<request, outcome, result, stopped>>

Next == Act \/ \E c \in Clients : Invoke(c) \/ Perform(c) \/ Return(c)

Spec == Init /\ [][Next]_vars
=============================================================================
