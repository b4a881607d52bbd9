---------------------------- MODULE WorkerCalls ----------------------------
(* What a gamdl worker promises the calls made to it, with no mention of     *)
(* pipes, table or lock: a request is run at most once, a result goes only   *)
(* to the call that asked for it, and a call told "unavailable" (on which    *)
(* its caller runs the command line into the same directory) has a request   *)
(* that is not run and never will be.  GamdlWorker implements it.            *)

CONSTANTS Callers,   \* goroutines that may call
          Requests,  \* names for requests
          NoRequest,
          Results    \* how a download can end

VARIABLES status,    \* the process: "serving", "stopping" or "gone"
          used,      \* names already given to a request
          accepted,  \* requests the process has, or has run
          outcome,   \* Requests -> how the download ended
          state,     \* Callers -> "idle", "asked" or "answered"
          request,   \* Callers -> the request of the call
          answer     \* Callers -> what the call is told

vars == <<status, used, accepted, outcome, state, request, answer>>

Answers == Results \cup {"unavailable", "deadline"}

Init ==
  /\ status = "serving" /\ used = {} /\ accepted = {}
  /\ outcome = [r \in Requests |-> "none"]
  /\ state = [c \in Callers |-> "idle"]
  /\ request = [c \in Callers |-> NoRequest]
  /\ answer = [c \in Callers |-> "none"]

\* A call gets a name no request had before.
Ask(c, r) ==
  /\ state[c] = "idle" /\ r \notin used
  /\ used' = used \cup {r}
  /\ state' = [state EXCEPT ![c] = "asked"]
  /\ request' = [request EXCEPT ![c] = r]
  /\ UNCHANGED <<status, accepted, outcome, answer>>

\* A call turned away at the door has made no request.
Refuse(c) ==
  /\ state[c] = "idle" /\ status = "gone"
  /\ state' = [state EXCEPT ![c] = "answered"]
  /\ answer' = [answer EXCEPT ![c] = "unavailable"]
  /\ UNCHANGED <<status, used, accepted, outcome, request>>

\* Only a request whose call still waits reaches the process.
Accept(c) ==
  /\ state[c] = "asked" /\ status # "gone"
  /\ request[c] \notin accepted
  /\ accepted' = accepted \cup {request[c]}
  /\ UNCHANGED <<status, used, outcome, state, request, answer>>

\* The download of a request ends, once.
Decide(r, v) ==
  /\ status # "gone"
  /\ r \in accepted /\ outcome[r] = "none"
  /\ outcome' = [outcome EXCEPT ![r] = v]
  /\ UNCHANGED <<status, used, accepted, state, request, answer>>

Answer(c, a) ==
  /\ state[c] = "asked"
  /\ a \in Results => a = outcome[request[c]]
  /\ a = "unavailable" =>
       /\ status # "serving"
       /\ request[c] \in accepted => status = "gone"
  /\ state' = [state EXCEPT ![c] = "answered"]
  /\ answer' = [answer EXCEPT ![c] = a]
  /\ UNCHANGED <<status, used, accepted, outcome, request>>

\* The caller has its answer; the goroutine may call again.
Take(c) ==
  /\ state[c] = "answered"
  /\ state' = [state EXCEPT ![c] = "idle"]
  /\ request' = [request EXCEPT ![c] = NoRequest]
  /\ answer' = [answer EXCEPT ![c] = "none"]
  /\ UNCHANGED <<status, used, accepted, outcome>>

Stop ==
  /\ status = "serving"
  /\ status' = "stopping"
  /\ UNCHANGED <<used, accepted, outcome, state, request, answer>>

\* With the process goes every request it has not finished.
Die ==
  /\ status # "gone"
  /\ status' = "gone"
  /\ accepted' = {r \in accepted : outcome[r] # "none"}
  /\ UNCHANGED <<used, outcome, state, request, answer>>

Next ==
  \/ \E c \in Callers : Refuse(c) \/ Accept(c) \/ Take(c)
  \/ \E c \in Callers, r \in Requests : Ask(c, r)
  \/ \E c \in Callers, a \in Answers : Answer(c, a)
  \/ \E r \in Requests, v \in Results : Decide(r, v)
  \/ Stop \/ Die

Spec == Init /\ [][Next]_vars
=============================================================================
