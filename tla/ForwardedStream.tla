--------------------------- MODULE ForwardedStream ---------------------------
(***************************************************************************)
(* What a streaming call through the gateway promises, with no goroutine,  *)
(* channel or queued result in sight: messages pass each way one by one,   *)
(* never more than were sent; the backend serves only while the call keeps *)
(* its process referenced; the reference is taken once and given back      *)
(* once; and the call has one outcome, a success only of a whole stream, a *)
(* failure only for a cause, after which nothing passes any more.          *)
(* StreamProxy implements it.                                              *)
(***************************************************************************)
EXTENDS Naturals

VARIABLES
    single,     \* whether the method takes one request
    requests,   \* sent by the client
    closed,     \* whether it has half closed
    left,       \* whether it has given up
    forwarded,  \* requests passed on to the backend
    responses,  \* sent by the backend
    ended,      \* how the backend ended
    returned,   \* responses passed on to the client
    ref,        \* the call's reference on the process
    open,       \* whether the backend stream is open
    outcome     \* what the client is told

clientVars  == <<single, requests, closed, left>>
backendVars == <<responses, ended>>
callVars    == <<ref, open, outcome>>
vars == <<clientVars, backendVars, callVars, forwarded, returned>>

Waiting == outcome = "none" /\ ~left
Served  == open /\ ref = "held" /\ ended = "none"

Init ==
    /\ single \in BOOLEAN
    /\ requests = 0 /\ forwarded = 0 /\ responses = 0 /\ returned = 0
    /\ closed = FALSE /\ left = FALSE
    /\ ended = "none" /\ ref = "none" /\ open = FALSE /\ outcome = "none"

-----------------------------------------------------------------------------
(* The peers                                                                *)

Request ==
    /\ Waiting /\ ~closed
    /\ requests' = requests + 1
    /\ UNCHANGED <<single, closed, left, backendVars, callVars, forwarded, returned>>

Close ==
    /\ Waiting /\ ~closed
    /\ closed' = TRUE
    /\ UNCHANGED <<single, requests, left, backendVars, callVars, forwarded, returned>>

Leave ==
    /\ Waiting
    /\ left' = TRUE
    /\ UNCHANGED <<single, requests, closed, backendVars, callVars, forwarded, returned>>

Respond ==
    /\ Waiting /\ Served
    /\ responses' = responses + 1
    /\ UNCHANGED <<clientVars, ended, callVars, forwarded, returned>>

End(how) ==
    /\ Waiting /\ Served
    /\ ended' = how
    /\ UNCHANGED <<clientVars, responses, callVars, forwarded, returned>>

-----------------------------------------------------------------------------
(* The call                                                                 *)

Reference ==
    /\ outcome = "none" /\ ref = "none"
    /\ ref' = "held"
    /\ UNCHANGED <<clientVars, backendVars, open, outcome, forwarded, returned>>

Open ==
    /\ outcome = "none" /\ ref = "held" /\ ~open
    /\ open' = TRUE
    /\ UNCHANGED <<clientVars, backendVars, ref, outcome, forwarded, returned>>

\* A request goes to a backend that is referenced, or is over and reads nothing.
Forward ==
    /\ Waiting /\ open /\ (ref = "held" \/ ended # "none")
    /\ forwarded < requests
    /\ forwarded' = forwarded + 1
    /\ UNCHANGED <<clientVars, backendVars, callVars, returned>>

Return ==
    /\ Waiting /\ returned < responses
    /\ returned' = returned + 1
    /\ UNCHANGED <<clientVars, backendVars, callVars, forwarded>>

\* Once the stream is over the reference may go before the call returns.
Release ==
    /\ outcome = "none" /\ ref = "held" /\ open
    /\ left \/ ended # "none"
    /\ ref' = "over"
    /\ UNCHANGED <<clientVars, backendVars, open, outcome, forwarded, returned>>

\* With its outcome the call gives back what it still holds.
Finish(o) ==
    /\ outcome = "none" /\ outcome' = o
    /\ ref' = IF ref = "held" THEN "over" ELSE ref
    /\ UNCHANGED <<clientVars, backendVars, open, forwarded>>

\* The last response may be passed on with the success.
Succeed ==
    /\ Finish("ok")
    /\ ended = "ok" /\ (~single => closed /\ forwarded = requests)
    /\ responses \in {returned, returned + 1} /\ returned' = responses

\* The client left, the backend ended, or there never was a stream.
Fail ==
    /\ Finish("failed")
    /\ left \/ ended # "none" \/ ~open
    /\ UNCHANGED returned

Next ==
    \/ Request \/ Close \/ Leave
    \/ Respond \/ \E how \in {"ok", "error", "lost"} : End(how)
    \/ Reference \/ Open \/ Forward \/ Return \/ Release
    \/ Succeed \/ Fail

Spec == Init /\ [][Next]_vars

=============================================================================
