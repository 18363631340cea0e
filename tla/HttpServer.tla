----------------------------- MODULE HttpServer -----------------------------
(***************************************************************************)
(* The http server of asio/http (beasthttp.cpp).  One thread runs all       *)
(* handlers.  A connection starts one read and one deadline; their handlers *)
(* are all that holds it, and it is destroyed when both are over.  The      *)
(* response is put together and write_response, which would send it and     *)
(* cancel the deadline, is called by nobody.                                *)
(***************************************************************************)
EXTENDS Naturals

CONSTANTS
  Connection  \* the connections of the model, its bound

VARIABLES
  armed,     \* armed[c]: outstanding operations, of "read", "deadline" and "write"
  socket_,   \* socket_[c]: "none" before the accept, "open", "closed"
  ready,     \* ready[c]: what the read has completed with, if it has
  response_, \* response_[c]: what is in the response, if anything
  count,     \* requests for /count
  process    \* "up", or "ended" by an exception that left run()

vars == <<armed, socket_, ready, response_, count, process>>

\* Method and target of a request; of a post to /email also what its body is:
\* no JSON, or JSON with an email that asString takes or throws at.
Request == {"get /count", "get /time", "get", "post", "post no JSON", "post email",
            "post no string", "delete"}

Init == /\ armed = [c \in Connection |-> {}]
        /\ socket_ = [c \in Connection |-> "none"]
        /\ ready = [c \in Connection |-> "nothing"]
        /\ response_ = [c \in Connection |-> "nothing"]
        /\ count = 0
        /\ process = "up"

\* http_server: the connection is started and the next one accepted.
Accept(c) == /\ socket_[c] = "none"
             /\ socket_' = [socket_ EXCEPT ![c] = "open"]
             /\ armed' = [armed EXCEPT ![c] = {"read", "deadline"}]
             /\ UNCHANGED <<ready, response_, count, process>>

\* A request is complete, or the peer closes or sends what is no request.
Arrive(c) == /\ socket_[c] = "open" /\ "read" \in armed[c] /\ ready[c] = "nothing"
             /\ \E r \in Request \cup {"error"} : ready' = [ready EXCEPT ![c] = r]
             /\ UNCHANGED <<armed, socket_, response_, count, process>>

\* The targets that are known, of a get and of a post.
create_response(r) == IF r \in {"get /count", "get /time"} THEN "ok" ELSE "not found"
create_post_response(r) == IF r \in {"post email", "post no JSON"} THEN "ok" ELSE "not found"

Result(r) == CASE r \in {"get", "get /count", "get /time"} -> create_response(r)
               [] r \in {"post", "post email", "post no JSON"} -> create_post_response(r)
               [] OTHER -> "bad request"

\* The handler of the read, process_request in it.  An exception of asString
\* goes through run to the end of main.
Process(c) ==
  /\ ready[c] # "nothing"
  /\ ready' = [ready EXCEPT ![c] = "nothing"]
  /\ armed' = [armed EXCEPT ![c] = @ \ {"read"}]
  /\ IF ready[c] = "error"
     THEN UNCHANGED <<response_, count, process>>
     ELSE IF ready[c] = "post no string"
     THEN process' = "ended" /\ UNCHANGED <<response_, count>>
     ELSE /\ response_' = [response_ EXCEPT ![c] = Result(ready[c])]
          /\ count' = IF ready[c] = "get /count" THEN count + 1 ELSE count
          /\ UNCHANGED process
  /\ UNCHANGED socket_

\* Mutant: the socket is not closed.
DeadlineOnly(c) ==
  /\ "deadline" \in armed[c]
  /\ armed' = [armed EXCEPT ![c] = @ \ {"deadline"}]
  /\ UNCHANGED <<ready, socket_, response_, count, process>>

\* The minute is over: the socket is closed, and a read on it completes with an
\* error, unless it had completed before and only waits for its handler.
Deadline(c) ==
  /\ "deadline" \in armed[c]
  /\ armed' = [armed EXCEPT ![c] = @ \ {"deadline"}]
  /\ socket_' = [socket_ EXCEPT ![c] = "closed"]
  /\ ready' = [ready EXCEPT ![c] = IF "read" \in armed[c] /\ @ = "nothing"
                                   THEN "error" ELSE @]
  /\ UNCHANGED <<response_, count, process>>

Next == /\ process = "up"
        /\ \E c \in Connection : Accept(c) \/ Arrive(c) \/ Process(c) \/ Deadline(c)

\* Time passes, and run() calls the handlers that are ready.
Fairness == \A c \in Connection : /\ WF_vars(process = "up" /\ Process(c))
                                  /\ WF_vars(process = "up" /\ Deadline(c))

Spec == Init /\ [][Next]_vars /\ Fairness

-----------------------------------------------------------------------------
\* Whatever its peer does, a connection comes to an end: nothing is outstanding
\* for it any more, so it is destroyed (beasthttp.cpp:69).
ConnectionEnds == \A c \in Connection :
  socket_[c] = "open" ~> armed[c] = {} \/ process = "ended"

\* A response that is ready is being written.
ResponseIsWritten == \A c \in Connection :
  response_[c] # "nothing" => "write" \in armed[c] \/ socket_[c] = "closed"
=============================================================================
