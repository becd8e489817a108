---------------------------- MODULE StreamProxy ----------------------------
(***************************************************************************)
(* One streaming gRPC call through the gateway of internal/protocol: the   *)
(* proxies of grpc.go between a client's stream and the stream opened to a *)
(* scale-to-zero backend, and the reference on the backend's process that  *)
(* warmStream holds meanwhile.  A long-running call is the same without    *)
(* the reference.                                                          *)
(*                                                                         *)
(* The two legs are proxyBidiStream's goroutines.  The other two proxies   *)
(* run them one after the other: first the requests, then the responses.   *)
(* Messages of a stream arrive in order, so they are counted.              *)
(*                                                                         *)
(* What grpc-go answers on a stream (version 1.82, external): SendMsg on a *)
(* stream that is over fails with io.EOF once the trailers are in, or says *)
(* nothing when the method takes one request; RecvMsg gives what is left   *)
(* of the responses, then the status; of a single response it gives the    *)
(* status first; an error that carries no status, as io.EOF, becomes       *)
(* Unknown at the client.                                                  *)
(***************************************************************************)
EXTENDS Naturals, Sequences

CONSTANTS
    MaxMsg,     \* bound: messages each peer sends
    Window      \* bound: messages in flight on a hop before its sender waits

ASSUME MaxMsgAssumption == MaxMsg \in Nat \ {0}
ASSUME WindowAssumption == Window \in Nat \ {0}

VARIABLES
    kind,    \* what the method streams
    client,  \* messages sent and read; half closed; given up
    back,    \* the backend's handler: messages read and sent, how it ended
    stream,  \* the backend stream: not wanted yet, process warmed, open
    up,      \* client to backend: messages taken and pushed, half closed
    down,    \* backend to client: messages relayed and passed on
    errc,    \* results of proxyBidiStream's goroutines
    joined,  \* successful ones it has received
    refs,    \* references on the process, one of them another call's
    held,    \* whether this call's reference is still to be released
    result   \* what the proxy returned

peers == <<client, back>>
vars == <<kind, peers, stream, up, down, errc, joined, refs, held, result>>

Kinds   == {"server", "client", "bidi"}
\* The backend's status, a broken connection, a client that gave up, a raw
\* io.EOF, or no backend.
Results == {"ok", "error", "lost", "gone", "eof", "refused"}

Messages == 0..MaxMsg

Client == [sent: Messages, read: Messages, half: BOOLEAN, gone: BOOLEAN]
Back   == [read: Messages, sent: Messages, end: {"none", "ok", "error", "lost"}]
UpLeg  == [pc: {"off", "take", "push", "close", "done"},
           taken: Messages, pushed: Messages, half: BOOLEAN]
DownLeg == [pc: {"off", "recv", "send", "done"}, relayed: Messages, passed: Messages]

\* One type invariant for the module.
TypeOK ==
    /\ kind \in Kinds
    /\ client \in Client /\ back \in Back
    /\ stream \in {"none", "warm", "open"}
    /\ up \in UpLeg /\ down \in DownLeg
    /\ errc \in Seq(Results) /\ Len(errc) <= 2
    /\ joined \in 0..1
    /\ refs \in 0..2 /\ held \in BOOLEAN
    /\ result \in Results \union {"none"}

Returned == result # "none"
\* The context of the backend stream is cancelled.
Cancelled == client.gone \/ Returned
Over == Cancelled \/ back.end # "none"

-----------------------------------------------------------------------------
(* The reference and the ends of the legs                                   *)

\* A faulty variant: each of the calls drops the reference.
releaseEachTime == held' = FALSE /\ refs' = refs - 1

\* warmStream.releaseOnce: by a failed SendMsg or RecvMsg, by the end of the
\* responses and by the deferred releaseStream; only the first one counts.
releaseOnce == held' = FALSE /\ refs' = IF held THEN refs - 1 ELSE refs

\* A faulty variant: the channel is not buffered.
unbuffered == ~Returned

\* The channel holds the results of both goroutines.
hasRoom == Len(errc) < 2

\* A leg ends with r: proxyBidiStream's reports it, another one returns it.
endUp(r) ==
    /\ IF kind = "bidi"
       THEN /\ hasRoom /\ errc' = Append(errc, r)
            /\ up' = [up EXCEPT !.pc = "done"]
            /\ UNCHANGED <<result, down>>
       ELSE /\ result' = r
            /\ up' = [up EXCEPT !.pc = "done"] /\ down' = [down EXCEPT !.pc = "done"]
            /\ UNCHANGED errc

endDown(r) ==
    /\ IF kind = "bidi"
       THEN /\ hasRoom /\ errc' = Append(errc, r)
            /\ UNCHANGED result
       ELSE /\ result' = r
            /\ UNCHANGED errc
    /\ down' = [down EXCEPT !.pc = "done"]
    /\ UNCHANGED up

-----------------------------------------------------------------------------
(* Opening the backend stream                                               *)

\* warm: the instance is started if it is cold, and referenced.
Warm ==
    /\ stream = "none" /\ ~Returned
    /\ kind = "server" => up.pc = "push"
    /\ stream' = "warm" /\ refs' = refs + 1 /\ held' = TRUE
    /\ UNCHANGED <<kind, peers, up, down, errc, joined, result>>

WarmFail ==
    /\ stream = "none" /\ ~Returned
    /\ kind = "server" => up.pc = "push"
    /\ result' = "refused" /\ up' = [up EXCEPT !.pc = "done"]
    /\ UNCHANGED <<kind, peers, stream, down, errc, joined, refs, held>>

NewStream ==
    /\ stream = "warm" /\ ~Returned
    /\ stream' = "open"
    /\ up' = [up EXCEPT !.pc = IF kind = "server" THEN "push" ELSE "take"]
    /\ down' = [down EXCEPT !.pc = IF kind = "bidi" THEN "recv" ELSE "off"]
    /\ UNCHANGED <<kind, peers, errc, joined, refs, held, result>>

\* backendStream fails: the caller gets no stream to release.
NewStreamFail ==
    /\ stream = "warm" /\ ~Returned
    /\ result' = "refused" /\ up' = [up EXCEPT !.pc = "done"]
    /\ releaseOnce
    /\ UNCHANGED <<kind, peers, stream, down, errc, joined>>

-----------------------------------------------------------------------------
(* Requests                                                                 *)

Take ==
    /\ up.pc = "take" /\ ~Cancelled
    /\ client.sent > up.taken
    /\ up' = [up EXCEPT !.pc = "push", !.taken = @ + 1]
    /\ UNCHANGED <<kind, peers, stream, down, errc, joined, refs, held, result>>

\* The client has half closed: io.EOF, which proxyServerStream returns.
TakeEnd ==
    /\ up.pc = "take" /\ ~Cancelled
    /\ client.half /\ client.sent = up.taken
    /\ IF kind = "server" THEN endUp("eof")
       ELSE up' = [up EXCEPT !.pc = "close"] /\ UNCHANGED <<down, errc, result>>
    /\ UNCHANGED <<kind, peers, stream, joined, refs, held>>

\* Only the deferred release sees this end, in proxyClientStream.
TakeFail ==
    /\ up.pc = "take" /\ Cancelled
    /\ endUp("gone")
    /\ IF kind = "client" THEN releaseOnce ELSE UNCHANGED <<refs, held>>
    /\ UNCHANGED <<kind, peers, stream, joined>>

\* A faulty variant: the backend stream is opened with a context of its own.
PushDetached ==
    /\ up.pc = "push" /\ stream = "open"
    /\ up.pushed - back.read < Window
    /\ up' = [up EXCEPT !.pc = IF kind = "server" THEN "close" ELSE "take",
                        !.pushed = @ + 1]
    /\ UNCHANGED <<kind, peers, stream, down, errc, joined, refs, held, result>>

Push ==
    /\ up.pc = "push" /\ stream = "open" /\ ~Cancelled
    /\ up.pushed - back.read < Window
    /\ up' = [up EXCEPT !.pc = IF kind = "server" THEN "close" ELSE "take",
                        !.pushed = @ + 1]
    /\ UNCHANGED <<kind, peers, stream, down, errc, joined, refs, held, result>>

PushFail ==
    /\ up.pc = "push" /\ stream = "open" /\ Over
    /\ IF kind = "server"
       THEN /\ up' = [up EXCEPT !.pc = "close"]
            /\ UNCHANGED <<down, errc, result, refs, held>>
       ELSE endUp("eof") /\ releaseOnce
    /\ UNCHANGED <<kind, peers, stream, joined>>

\* A faulty variant: the goroutine ends without closing the backend's side.
CloseForgotten ==
    /\ up.pc = "close"
    /\ IF kind = "bidi"
       THEN /\ hasRoom /\ errc' = Append(errc, "ok")
            /\ UNCHANGED down
       ELSE /\ down' = [down EXCEPT !.pc = "recv"]
            /\ UNCHANGED errc
    /\ up' = [up EXCEPT !.pc = "done", !.half = kind # "bidi"]
    /\ UNCHANGED <<kind, peers, stream, joined, refs, held, result>>

CloseSend ==
    /\ up.pc = "close"
    /\ IF kind = "bidi"
       THEN /\ hasRoom /\ errc' = Append(errc, "ok")
            /\ UNCHANGED down
       ELSE /\ down' = [down EXCEPT !.pc = "recv"]
            /\ UNCHANGED errc
    /\ up' = [up EXCEPT !.pc = "done", !.half = TRUE]
    /\ UNCHANGED <<kind, peers, stream, joined, refs, held, result>>

-----------------------------------------------------------------------------
(* Responses                                                                *)

Recv ==
    /\ down.pc = "recv" /\ back.sent > down.relayed
    /\ kind = "client" => back.end = "ok"
    /\ down' = [down EXCEPT !.pc = "send", !.relayed = @ + 1]
    /\ UNCHANGED <<kind, peers, stream, up, errc, joined, refs, held, result>>

\* The status, after the responses; a broken connection may lose those.
RecvEnd ==
    /\ down.pc = "recv"
    /\ \/ back.end = "ok" /\ back.sent = down.relayed /\ endDown("ok")
       \/ back.end = "error" /\ (kind = "client" \/ back.sent = down.relayed)
          /\ endDown("error")
       \/ back.end = "lost" /\ endDown("lost")
       \/ Cancelled /\ endDown("gone")
    /\ releaseOnce
    /\ UNCHANGED <<kind, peers, stream, joined>>

\* To the client, as fast as it reads.  The last read of proxyClientStream finds
\* the status its first one has already waited for.
Send ==
    /\ down.pc = "send" /\ ~Cancelled
    /\ down.passed - client.read < Window
    /\ IF kind = "client"
       THEN /\ down' = [down EXCEPT !.pc = "done", !.passed = @ + 1]
            /\ result' = "ok" /\ releaseOnce
       ELSE /\ down' = [down EXCEPT !.pc = "recv", !.passed = @ + 1]
            /\ UNCHANGED <<result, refs, held>>
    /\ UNCHANGED <<kind, peers, stream, up, errc, joined>>

SendFail ==
    /\ down.pc = "send" /\ Cancelled
    /\ endDown("gone")
    /\ IF kind = "bidi" THEN UNCHANGED <<refs, held>> ELSE releaseOnce
    /\ UNCHANGED <<kind, peers, stream, joined>>

\* A faulty variant: both goroutines are waited for, whatever the first says.
JoinBoth ==
    /\ ~Returned /\ Len(errc) = 2
    /\ result' = IF errc[1] # "ok" THEN errc[1] ELSE errc[2]
    /\ errc' = << >>
    /\ releaseOnce
    /\ UNCHANGED <<kind, peers, stream, up, down, joined>>

\* A faulty variant: one result too many is waited for.
JoinOneMore ==
    /\ ~Returned /\ errc # << >>
    /\ errc' = Tail(errc)
    /\ IF Head(errc) # "ok" \/ joined = 2
       THEN result' = Head(errc) /\ releaseOnce /\ UNCHANGED joined
       ELSE joined' = joined + 1 /\ UNCHANGED <<result, refs, held>>
    /\ UNCHANGED <<kind, peers, stream, up, down>>

\* proxyBidiStream returns the first error, or success after two successes.
Join ==
    /\ ~Returned /\ errc # << >>
    /\ errc' = Tail(errc)
    /\ IF Head(errc) # "ok" \/ joined = 1
       THEN result' = Head(errc) /\ releaseOnce /\ UNCHANGED joined
       ELSE joined' = 1 /\ UNCHANGED <<result, refs, held>>
    /\ UNCHANGED <<kind, peers, stream, up, down>>

-----------------------------------------------------------------------------
(* The peers.  A server-streaming client sends one request, and a backend    *)
(* answers a client stream once when it ends well.                           *)

ClientSend ==
    /\ ~client.half /\ ~Cancelled
    /\ client.sent < (IF kind = "server" THEN 1 ELSE MaxMsg)
    /\ client.sent - up.taken < Window
    /\ client' = [client EXCEPT !.sent = @ + 1]

ClientHalf == ~client.half /\ ~Cancelled /\ client' = [client EXCEPT !.half = TRUE]

ClientGone == ~Cancelled /\ client' = [client EXCEPT !.gone = TRUE]

ClientRead ==
    /\ client.read < down.passed /\ ~Cancelled
    /\ client' = [client EXCEPT !.read = @ + 1]
    /\ UNCHANGED <<kind, back, stream, up, down, errc, joined, refs, held, result>>

Running == stream = "open" /\ ~Over

BackRead ==
    /\ Running /\ back.read < up.pushed
    /\ back' = [back EXCEPT !.read = @ + 1]
    /\ UNCHANGED <<kind, client, stream, up, down, errc, joined, refs, held, result>>

BackSend ==
    /\ Running
    /\ back.sent < (IF kind = "client" THEN 1 ELSE MaxMsg)
    /\ back.sent - down.relayed < Window
    /\ back' = [back EXCEPT !.sent = @ + 1]

BackEnd(how) ==
    /\ Running
    /\ (kind = "client" /\ how = "ok") => back.sent = 1
    /\ back' = [back EXCEPT !.end = how]

-----------------------------------------------------------------------------

Init ==
    /\ kind \in Kinds
    /\ client = [sent |-> 0, read |-> 0, half |-> FALSE, gone |-> FALSE]
    /\ back = [read |-> 0, sent |-> 0, end |-> "none"]
    /\ stream = "none"
    /\ up = [pc |-> IF kind = "server" THEN "take" ELSE "off",
             taken |-> 0, pushed |-> 0, half |-> FALSE]
    /\ down = [pc |-> "off", relayed |-> 0, passed |-> 0]
    /\ errc = << >> /\ joined = 0
    /\ refs = 1 /\ held = FALSE
    /\ result = "none"

Open == Warm \/ WarmFail \/ NewStream \/ NewStreamFail
Up   == Take \/ TakeEnd \/ TakeFail \/ Push \/ PushFail \/ CloseSend
Down == Recv \/ RecvEnd \/ Send \/ SendFail

Peers ==
    \/ (ClientSend \/ ClientHalf \/ ClientGone)
       /\ UNCHANGED <<kind, back, stream, up, down, errc, joined, refs, held, result>>
    \/ (BackSend \/ \E how \in {"ok", "error", "lost"} : BackEnd(how))
       /\ UNCHANGED <<kind, client, stream, up, down, errc, joined, refs, held, result>>

Next == Open \/ Up \/ Down \/ Join \/ ClientRead \/ BackRead \/ Peers

Spec == Init /\ [][Next]_vars

\* The goroutines are scheduled, and peers that stay read what arrives.  Nobody
\* has to send, to half close or to end.
FairSpec ==
    Spec /\ WF_vars(Open) /\ WF_vars(Up) /\ WF_vars(Down) /\ WF_vars(Join)
         /\ WF_vars(ClientRead) /\ WF_vars(BackRead)

-----------------------------------------------------------------------------
(* Properties                                                               *)

\* The client is told success only when the backend said so, with every response
\* delivered and, unless the method takes one request, every request passed on
\* and the client's own half closed (proxyBidiStream waits for both goroutines).
NoFalseSuccess ==
    result = "ok" =>
        /\ back.end = "ok" /\ down.passed = back.sent
        /\ kind # "server" => client.half /\ up.pushed = client.sent

\* While the backend serves a stream that somebody waits for, its process is
\* referenced by this call as well as by the other; once the proxy returns, by the
\* other alone: the reference is given back on every path, once, as releaseRef
\* only counts and a second release would take the other call's.
RefExact == (Running => refs = 2) /\ (Returned => refs = 1)

\* What the peers and the pool of processes see of the call, without its legs.
reference == IF refs = 2 THEN "held"
             ELSE IF refs = 0 THEN "another's"
             ELSE IF stream = "none" THEN "none" ELSE "over"
told      == IF result \in {"none", "ok"} THEN result ELSE "failed"

Forwarded == INSTANCE ForwardedStream WITH
    single    <- (kind = "server"),
    requests  <- client.sent, closed <- client.half, left <- client.gone,
    forwarded <- up.pushed,
    responses <- back.sent, ended <- back.end,
    returned  <- down.passed,
    ref       <- reference,
    open      <- (stream = "open"),
    outcome   <- told

\* Two goroutines, a channel, a release on each path and a deferred one add up to
\* one call: its reference is taken and given back once and covers all that the
\* backend does, it has one outcome, it never fails without a cause, and nothing
\* passes after it (proxyServerStream, proxyClientStream, proxyBidiStream).
IsForwardedStream == Forwarded!Spec

\* The client gets the status its backend ended with ("the gRPC entry returns the
\* standard gRPC status code directly", error-model.md).  The code does not keep
\* it: see the README.
StatusFaithful ==
    (Returned /\ ~client.gone /\ back.end \in {"ok", "error"}) => result = back.end

\* A client that gives up, or that has half closed and whose backend has ended,
\* never leaves a proxy waiting; nor does a backend that failed under a method
\* that streams responses.
ProxyEnds ==
    /\ client.gone ~> Returned
    /\ (client.half /\ back.end # "none") ~> Returned
    /\ (kind \in {"server", "bidi"} /\ back.end \in {"error", "lost"}) ~> Returned

\* The two directions of a stream are independent: the end of the requests is
\* passed on whatever the responses do, and a response of a bidirectional stream
\* does not wait for the client's next request.
BothWaysFlow ==
    /\ (client.half /\ stream = "open") ~> (up.half \/ Returned)
    /\ \A n \in 1..MaxMsg :
          (kind # "client" /\ back.sent >= n) ~> (down.passed >= n \/ Returned)

\* No goroutine of proxyBidiStream outlives its call, although only one result of
\* the two may ever be received: why errc has room for both.
LegsEnd == Returned ~> (up.pc \in {"off", "done"} /\ down.pc \in {"off", "done"})

=============================================================================
