------------------------- MODULE StreamProxyProofs -------------------------
(***************************************************************************)
(* Proofs about StreamProxy, for any number of messages and any window.    *)
(*                                                                         *)
(* The reference is exact because a leg gives it back early only when the  *)
(* backend is over or nobody waits any more (RefOK).  A success is true    *)
(* because what a leg passed on matches what it took (UpOK, DownOK) and a  *)
(* bidirectional proxy never counts more successes than it has legs that   *)
(* succeeded (OksOK), so that two of them are one of each.                 *)
(***************************************************************************)
EXTENDS StreamProxy, SequenceTheorems, TLAPS

-----------------------------------------------------------------------------
(* The inductive invariant                                                  *)

\* The request leg: every request taken is passed on before the next one, and
\* the backend's side is closed once they all were.
UpOK ==
    /\ up.pc = "off" => kind # "server"
    /\ kind = "server" /\ up.pc \in {"take", "push"} => up.pushed = 0
    /\ kind # "server" =>
          /\ up.pc = "push" => up.pushed + 1 = up.taken
          /\ up.pc \in {"off", "take", "close"} => up.pushed = up.taken
          /\ up.pc = "close" => client.half /\ client.sent = up.taken
          /\ up.half => up.pc = "done" /\ client.half /\ up.pushed = client.sent

\* The response leg.  It begins after the requests, but for a bidirectional stream.
DownOK ==
    /\ down.pc = "send" => down.passed + 1 = down.relayed
    /\ down.pc \in {"off", "recv"} => down.passed = down.relayed
    /\ kind # "bidi" /\ up.pc \in {"off", "take", "push", "close"} => down.pc = "off"
    /\ kind = "client" =>
          /\ back.sent <= 1 /\ (back.end = "ok" => back.sent = 1)
          /\ down.pc \in {"recv", "send"} => up.half
          /\ down.pc = "send" => back.end = "ok" /\ down.relayed = back.sent

\* Before the backend stream is open.
OpenOK ==
    stream # "open" =>
        /\ down.pc \in {"off", "done"} /\ errc = << >> /\ joined = 0
        /\ ~Returned => down.pc = "off"
        /\ kind # "server" /\ ~Returned => up.pc = "off"
        /\ kind = "server" /\ stream = "warm" /\ ~Returned => up.pc = "push"
        /\ kind # "server" => up.pc \in {"off", "done"}
        /\ up.pc # "close"

\* Whether this call's reference is held.
RefOK ==
    /\ refs = IF held THEN 2 ELSE 1
    /\ Returned => ~held
    /\ stream = "none" => ~held
    /\ stream = "warm" /\ ~Returned => held
    /\ stream = "open" /\ ~held => Over
    /\ kind = "server" /\ up.pc = "take" => stream = "none"

\* Only a bidirectional proxy has goroutines that report.
ErrcOK == kind # "bidi" => errc = << >>

okUp   == up.pc = "done" /\ up.half
okDown == down.pc = "done" /\ back.end = "ok" /\ down.passed = back.sent

\* Successes received and to be received, and legs that succeeded.
isOk(r)  == IF r = "ok" THEN 1 ELSE 0
oksIn(q) == (IF Len(q) > 0 THEN isOk(q[1]) ELSE 0) + (IF Len(q) > 1 THEN isOk(q[2]) ELSE 0)
oks      == joined + oksIn(errc)
upOks    == IF okUp THEN 1 ELSE 0
downOks  == IF okDown THEN 1 ELSE 0
OksOK    == kind = "bidi" => oks <= upOks + downOks

Inv == UpOK /\ DownOK /\ OpenOK /\ RefOK /\ ErrcOK /\ OksOK /\ NoFalseSuccess

-----------------------------------------------------------------------------
(* What a step does, field by field                                         *)

\* The counters are natural numbers, and the legs and peers records.
LEMMA Fields ==
    ASSUME TypeOK
    PROVE  /\ up \in UpLeg /\ down \in DownLeg /\ client \in Client /\ back \in Back
           /\ up.taken \in Nat /\ up.pushed \in Nat /\ up.half \in BOOLEAN
           /\ down.relayed \in Nat /\ down.passed \in Nat
           /\ client.sent \in Nat /\ client.read \in Nat
           /\ back.sent \in Nat /\ back.read \in Nat
           /\ refs \in Nat /\ joined \in Nat /\ MaxMsg \in Nat
           /\ held \in BOOLEAN /\ client.gone \in BOOLEAN
           /\ kind \in {"server", "client", "bidi"}
BY MaxMsgAssumption DEF TypeOK, Kinds, UpLeg, DownLeg, Client, Back, Messages

\* The request leg is at p, with its counters as they were.
upAt(p) == /\ up' \in UpLeg /\ up'.pc = p
           /\ up'.taken = up.taken /\ up'.pushed = up.pushed /\ up'.half = up.half
downAt(p) == /\ down' \in DownLeg /\ down'.pc = p
             /\ down'.relayed = down.relayed /\ down'.passed = down.passed

LEMMA UpAt ==
    ASSUME up \in UpLeg, NEW p \in {"off", "take", "push", "close", "done"},
           up' = [up EXCEPT !.pc = p]
    PROVE  upAt(p)
BY DEF UpLeg, upAt

LEMMA DownAt ==
    ASSUME down \in DownLeg, NEW p \in {"off", "recv", "send", "done"},
           down' = [down EXCEPT !.pc = p]
    PROVE  downAt(p)
BY DEF DownLeg, downAt

\* How a leg ends: a goroutine reports, another leg returns.
ends(r) == IF kind = "bidi" THEN errc' = Append(errc, r) /\ Len(errc) < 2 /\ result' = result
                            ELSE result' = r /\ errc' = errc
keepsRef == refs' = refs /\ held' = held
same     == kind' = kind /\ stream' = stream /\ joined' = joined
peersSame == client' = client /\ back' = back

LEMMA EndUp ==
    ASSUME TypeOK, NEW r, endUp(r)
    PROVE  ends(r) /\ upAt("done") /\ (kind = "bidi" => down' = down)
           /\ (kind # "bidi" => downAt("done"))
BY Fields, UpAt, DownAt DEF endUp, hasRoom, ends

LEMMA EndDown ==
    ASSUME TypeOK, NEW r, endDown(r)
    PROVE  ends(r) /\ downAt("done") /\ up' = up
BY Fields, DownAt DEF endDown, hasRoom, ends

LEMMA WarmEffect ==
    ASSUME TypeOK, Warm
    PROVE  /\ stream = "none" /\ ~Returned /\ (kind = "server" => up.pc = "push")
           /\ kind' = kind /\ joined' = joined /\ peersSame /\ stream' = "warm"
           /\ refs' = refs + 1 /\ held' = TRUE
           /\ up' = up /\ down' = down /\ errc' = errc /\ result' = result
BY DEF Warm, peers, peersSame

LEMMA WarmFailEffect ==
    ASSUME TypeOK, WarmFail
    PROVE  /\ stream = "none" /\ ~Returned
           /\ same /\ peersSame /\ keepsRef
           /\ upAt("done") /\ down' = down /\ errc' = errc /\ result' = "refused"
BY Fields, UpAt DEF WarmFail, peers, same, peersSame, keepsRef

LEMMA NewStreamEffect ==
    ASSUME TypeOK, NewStream
    PROVE  /\ stream = "warm" /\ ~Returned
           /\ kind' = kind /\ joined' = joined /\ peersSame /\ keepsRef /\ stream' = "open"
           /\ kind = "server" => upAt("push")
           /\ kind # "server" => upAt("take")
           /\ kind = "bidi" => downAt("recv")
           /\ kind # "bidi" => downAt("off")
           /\ errc' = errc /\ result' = result
BY Fields, UpAt, DownAt DEF NewStream, peers, peersSame, keepsRef

LEMMA NewStreamFailEffect ==
    ASSUME TypeOK, NewStreamFail
    PROVE  /\ stream = "warm" /\ ~Returned
           /\ same /\ peersSame /\ releaseOnce
           /\ upAt("done") /\ down' = down /\ errc' = errc /\ result' = "refused"
BY Fields, UpAt DEF NewStreamFail, peers, same, peersSame

LEMMA TakeEffect ==
    ASSUME TypeOK, Take
    PROVE  /\ up.pc = "take" /\ ~Cancelled /\ client.sent > up.taken
           /\ same /\ peersSame /\ keepsRef
           /\ up' \in UpLeg /\ up'.pc = "push" /\ up'.taken = up.taken + 1
           /\ up'.pushed = up.pushed /\ up'.half = up.half
           /\ down' = down /\ errc' = errc /\ result' = result
<1>1. up.taken + 1 \in Messages
  BY Fields DEF Take, Client, Messages
<1>2. /\ up' \in UpLeg /\ up'.pc = "push" /\ up'.taken = up.taken + 1
      /\ up'.pushed = up.pushed /\ up'.half = up.half
  BY <1>1, Fields DEF Take, UpLeg
<1> QED BY <1>2 DEF Take, peers, same, peersSame, keepsRef

LEMMA TakeEndEffect ==
    ASSUME TypeOK, TakeEnd
    PROVE  /\ up.pc = "take" /\ ~Cancelled /\ client.half /\ client.sent = up.taken
           /\ same /\ peersSame /\ keepsRef
           /\ kind = "server" => ends("eof") /\ upAt("done") /\ downAt("done")
           /\ kind # "server" => upAt("close") /\ down' = down /\ errc' = errc /\ result' = result
<1>1. CASE kind = "server"
  BY <1>1, EndUp DEF TakeEnd, peers, same, peersSame, keepsRef
<1>2. CASE kind # "server"
  BY <1>2, Fields, UpAt DEF TakeEnd, peers, same, peersSame, keepsRef
<1> QED BY <1>1, <1>2

LEMMA TakeFailEffect ==
    ASSUME TypeOK, TakeFail
    PROVE  /\ up.pc = "take" /\ Cancelled
           /\ same /\ peersSame
           /\ IF kind = "client" THEN releaseOnce ELSE keepsRef
           /\ ends("gone") /\ upAt("done")
           /\ kind = "bidi" => down' = down
           /\ kind # "bidi" => downAt("done")
BY EndUp DEF TakeFail, peers, same, peersSame, keepsRef

LEMMA PushEffect ==
    ASSUME TypeOK, Push
    PROVE  /\ up.pc = "push" /\ stream = "open" /\ ~Cancelled
           /\ same /\ peersSame /\ keepsRef
           /\ up'.pc = IF kind = "server" THEN "close" ELSE "take"
           /\ up'.taken = up.taken /\ up'.pushed = up.pushed + 1 /\ up'.half = up.half
           /\ up.pushed < MaxMsg => up' \in UpLeg
           /\ down' = down /\ errc' = errc /\ result' = result
<1>1. PICK p \in {"close", "take"} : p = IF kind = "server" THEN "close" ELSE "take"
  OBVIOUS
<1>2. up' = [up EXCEPT !.pc = p, !.pushed = up.pushed + 1]
  BY <1>1 DEF Push
<1>3. /\ up'.pc = p /\ up'.taken = up.taken
      /\ up'.pushed = up.pushed + 1 /\ up'.half = up.half
  BY <1>2, Fields DEF UpLeg
<1>4. up.pushed < MaxMsg => up.pushed + 1 \in Messages
  BY Fields DEF Messages
<1>5. up.pushed < MaxMsg => up' \in UpLeg
  BY <1>2, <1>4, Fields DEF UpLeg
<1> QED BY <1>1, <1>3, <1>5 DEF Push, peers, same, peersSame, keepsRef

LEMMA PushFailEffect ==
    ASSUME TypeOK, PushFail
    PROVE  /\ up.pc = "push" /\ stream = "open" /\ Over
           /\ same /\ peersSame
           /\ kind = "server" => upAt("close") /\ down' = down /\ errc' = errc /\ result' = result /\ keepsRef
           /\ kind # "server" => ends("eof") /\ upAt("done") /\ releaseOnce
           /\ kind = "bidi" => down' = down
           /\ kind = "client" => downAt("done")
<1>1. CASE kind = "server"
  BY <1>1, Fields, UpAt DEF PushFail, peers, same, peersSame, keepsRef
<1>2. CASE kind # "server"
  BY <1>2, EndUp DEF PushFail, peers, same, peersSame, keepsRef
<1> QED BY <1>1, <1>2

LEMMA CloseSendEffect ==
    ASSUME TypeOK, CloseSend
    PROVE  /\ up.pc = "close"
           /\ same /\ peersSame /\ keepsRef
           /\ up' \in UpLeg /\ up'.pc = "done" /\ up'.half
           /\ up'.taken = up.taken /\ up'.pushed = up.pushed
           /\ kind = "bidi" => errc' = Append(errc, "ok") /\ Len(errc) < 2 /\ down' = down
           /\ kind # "bidi" => errc' = errc /\ downAt("recv")
           /\ result' = result
<1>1. /\ up' \in UpLeg /\ up'.pc = "done" /\ up'.half
      /\ up'.taken = up.taken /\ up'.pushed = up.pushed
  BY Fields DEF CloseSend, UpLeg
<1> QED BY <1>1, Fields, DownAt DEF CloseSend, hasRoom, peers, same, peersSame, keepsRef

LEMMA RecvEffect ==
    ASSUME TypeOK, Recv
    PROVE  /\ down.pc = "recv" /\ back.sent > down.relayed
           /\ kind = "client" => back.end = "ok"
           /\ same /\ peersSame /\ keepsRef
           /\ down' \in DownLeg /\ down'.pc = "send"
           /\ down'.relayed = down.relayed + 1 /\ down'.passed = down.passed
           /\ up' = up /\ errc' = errc /\ result' = result
<1>1. down.relayed + 1 \in Messages
  BY Fields DEF Recv, Back, Messages
<1>2. /\ down' \in DownLeg /\ down'.pc = "send"
      /\ down'.relayed = down.relayed + 1 /\ down'.passed = down.passed
  BY <1>1, Fields DEF Recv, DownLeg
<1> QED BY <1>2 DEF Recv, peers, same, peersSame, keepsRef

LEMMA RecvEndEffect ==
    ASSUME TypeOK, RecvEnd
    PROVE  /\ down.pc = "recv"
           /\ same /\ peersSame /\ releaseOnce
           /\ downAt("done") /\ up' = up
           /\ \/ back.end = "ok" /\ back.sent = down.relayed /\ ends("ok")
              \/ (back.end \in {"error", "lost"} \/ Cancelled) /\ \E r \in {"error", "lost", "gone"} : ends(r)
BY EndDown DEF RecvEnd, peers, same, peersSame

LEMMA SendEffect ==
    ASSUME TypeOK, Send
    PROVE  /\ down.pc = "send" /\ ~Cancelled
           /\ same /\ peersSame
           /\ down'.pc = IF kind = "client" THEN "done" ELSE "recv"
           /\ down'.relayed = down.relayed /\ down'.passed = down.passed + 1
           /\ down.passed < MaxMsg => down' \in DownLeg
           /\ up' = up /\ errc' = errc
           /\ IF kind = "client" THEN result' = "ok" /\ releaseOnce ELSE result' = result /\ keepsRef
<1>1. PICK p \in {"done", "recv"} : p = IF kind = "client" THEN "done" ELSE "recv"
  OBVIOUS
<1>2. down' = [down EXCEPT !.pc = p, !.passed = down.passed + 1]
  BY <1>1 DEF Send
<1>3. /\ down'.pc = p
      /\ down'.relayed = down.relayed /\ down'.passed = down.passed + 1
  BY <1>2, Fields DEF DownLeg
<1>4. down.passed < MaxMsg => down.passed + 1 \in Messages
  BY Fields DEF Messages
<1>5. down.passed < MaxMsg => down' \in DownLeg
  BY <1>2, <1>4, Fields DEF DownLeg
<1> QED BY <1>1, <1>3, <1>5 DEF Send, peers, same, peersSame, keepsRef

LEMMA SendFailEffect ==
    ASSUME TypeOK, SendFail
    PROVE  /\ down.pc = "send" /\ Cancelled
           /\ same /\ peersSame
           /\ IF kind = "bidi" THEN keepsRef ELSE releaseOnce
           /\ ends("gone") /\ downAt("done") /\ up' = up
BY EndDown DEF SendFail, peers, same, peersSame, keepsRef

LEMMA JoinEffect ==
    ASSUME TypeOK, Join
    PROVE  /\ ~Returned /\ errc # << >> /\ errc' = Tail(errc)
           /\ kind' = kind /\ stream' = stream /\ peersSame
           /\ up' = up /\ down' = down
           /\ IF Head(errc) # "ok" \/ joined = 1 THEN result' = Head(errc) /\ releaseOnce /\ joined' = joined
                                             ELSE joined' = 1 /\ result' = result /\ keepsRef
BY DEF Join, peers, peersSame, keepsRef

LEMMA ClientReadEffect ==
    ASSUME TypeOK, ClientRead
    PROVE  /\ client.read < down.passed
           /\ same /\ back' = back /\ keepsRef
           /\ client' \in Client /\ client'.sent = client.sent
           /\ client'.half = client.half /\ client'.gone = client.gone
           /\ up' = up /\ down' = down /\ errc' = errc /\ result' = result
<1>1. client.read + 1 \in Messages
  BY Fields DEF ClientRead, DownLeg, Messages
<1>2. /\ client' \in Client /\ client'.sent = client.sent
      /\ client'.half = client.half /\ client'.gone = client.gone
  BY <1>1, Fields DEF ClientRead, Client
<1> QED BY <1>2 DEF ClientRead, same, keepsRef

LEMMA BackReadEffect ==
    ASSUME TypeOK, BackRead
    PROVE  /\ back.read < up.pushed
           /\ same /\ client' = client /\ keepsRef
           /\ back' \in Back /\ back'.sent = back.sent /\ back'.end = back.end
           /\ up' = up /\ down' = down /\ errc' = errc /\ result' = result
<1>1. back.read + 1 \in Messages
  BY Fields DEF BackRead, UpLeg, Messages
<1>2. back' \in Back /\ back'.sent = back.sent /\ back'.end = back.end
  BY <1>1, Fields DEF BackRead, Back
<1> QED BY <1>2 DEF BackRead, same, keepsRef

LEMMA PeersEffect ==
    ASSUME TypeOK, Peers
    PROVE  /\ same /\ keepsRef /\ up' = up /\ down' = down /\ errc' = errc /\ result' = result
           /\ client' \in Client /\ back' \in Back /\ ~Cancelled
           /\ client.half => client'.half /\ client'.sent = client.sent
           /\ client.gone => client'.gone
           /\ back.end # "none" => back' = back
           /\ kind = "client" /\ back.sent <= 1 => back'.sent <= 1
           /\ kind = "client" /\ back.end = "none" /\ back'.end = "ok" => back'.sent = 1
           /\ stream # "open" => back' = back
<1>1. CASE (ClientSend \/ ClientHalf \/ ClientGone)
           /\ UNCHANGED <<kind, back, stream, up, down, errc, joined, refs, held, result>>
  <2>1. ClientSend => client.sent + 1 \in Messages
    BY Fields, MaxMsgAssumption DEF ClientSend, Messages
  <2>2. /\ client' \in Client
        /\ client.half => client'.half /\ client'.sent = client.sent
        /\ client.gone => client'.gone
    BY <1>1, <2>1, Fields DEF ClientSend, ClientHalf, ClientGone, Client
  <2> QED BY <1>1, <2>2, Fields DEF ClientSend, ClientHalf, ClientGone, same, keepsRef
<1>2. CASE BackSend /\ UNCHANGED <<kind, client, stream, up, down, errc, joined, refs, held, result>>
  <2>1. back.sent + 1 \in Messages
    BY <1>2, Fields, MaxMsgAssumption DEF BackSend, Messages
  <2>2. back' \in Back /\ back'.sent = back.sent + 1 /\ back'.end = back.end
    BY <1>2, <2>1, Fields DEF BackSend, Back
  <2>3. stream = "open" /\ back.end = "none" /\ ~Cancelled /\ (kind = "client" => back.sent < 1)
    BY <1>2 DEF BackSend, Running, Over
  <2> QED BY <1>2, <2>2, <2>3, Fields DEF same, keepsRef
<1>3. ASSUME NEW how \in {"ok", "error", "lost"}, BackEnd(how),
             UNCHANGED <<kind, client, stream, up, down, errc, joined, refs, held, result>>
      PROVE  /\ same /\ keepsRef /\ up' = up /\ down' = down /\ errc' = errc /\ result' = result
             /\ client' = client /\ back' \in Back /\ back'.sent = back.sent /\ back'.end = how
             /\ stream = "open" /\ back.end = "none" /\ ~Cancelled
             /\ kind = "client" /\ how = "ok" => back.sent = 1
  <2>1. back' \in Back /\ back'.sent = back.sent /\ back'.end = how
    BY <1>3, Fields DEF BackEnd, Back
  <2> QED BY <1>3, <2>1 DEF BackEnd, Running, Over, same, keepsRef
<1> QED BY <1>1, <1>2, <1>3, Fields DEF Peers

-----------------------------------------------------------------------------
(* Counting successes                                                       *)

LEMMA IsOk == \A r : isOk(r) \in {0, 1} /\ (isOk(r) = 1 <=> r = "ok")
BY DEF isOk

LEMMA OksInShort ==
    ASSUME NEW q
    PROVE  /\ Len(q) = 0 => oksIn(q) = 0
           /\ Len(q) = 1 => oksIn(q) = isOk(q[1])
           /\ Len(q) = 2 => oksIn(q) = isOk(q[1]) + isOk(q[2])
<1>1. isOk(q[1]) \in {0, 1} /\ isOk(q[2]) \in {0, 1}
  BY IsOk
<1> QED BY <1>1 DEF oksIn

\* Short sequences.
LEMMA AppendFirst ==
    ASSUME NEW S, NEW q \in Seq(S), NEW r \in S, Len(q) = 0
    PROVE  Len(Append(q, r)) = 1 /\ Append(q, r)[1] = r
<1>1. Len(Append(q, r)) = Len(q) + 1 /\ Append(q, r)[Len(q) + 1] = r
  BY AppendProperties, Zenon
<1>2. Len(q) + 1 = 1
  OBVIOUS
<1> QED BY <1>1, <1>2, Zenon

LEMMA AppendSecond ==
    ASSUME NEW S, NEW q \in Seq(S), NEW r \in S, Len(q) = 1
    PROVE  Len(Append(q, r)) = 2 /\ Append(q, r)[1] = q[1] /\ Append(q, r)[2] = r
<1>1. Len(Append(q, r)) = Len(q) + 1 /\ Append(q, r)[Len(q) + 1] = r
  BY AppendProperties, Zenon
<1>2. Len(q) + 1 = 2 /\ 1 \in 1 .. Len(q)
  OBVIOUS
<1>3. ASSUME NEW i \in 1 .. Len(q) PROVE Append(q, r)[i] = q[i]
  BY SMT
<1> QED BY <1>1, <1>2, <1>3, Zenon

LEMMA TailOfOne ==
    ASSUME NEW S, NEW q \in Seq(S), Len(q) = 1 PROVE Len(Tail(q)) = 0
<1>1. q # << >>
  BY EmptySeq
<1>2. Len(Tail(q)) = Len(q) - 1
  BY <1>1, HeadTailProperties, Zenon
<1>3. Len(q) - 1 = 0
  OBVIOUS
<1> QED BY <1>2, <1>3, Zenon

LEMMA TailOfTwo ==
    ASSUME NEW S, NEW q \in Seq(S), Len(q) = 2
    PROVE  Len(Tail(q)) = 1 /\ Tail(q)[1] = q[2]
<1>1. q # << >>
  BY EmptySeq
<1>2. /\ Len(Tail(q)) = Len(q) - 1
      /\ \A i \in 1 .. Len(Tail(q)) : Tail(q)[i] = q[i + 1]
  BY <1>1, HeadTailProperties, Zenon
<1>3. Len(q) - 1 = 1 /\ 1 \in 1 .. 1 /\ 1 + 1 = 2
  OBVIOUS
<1>4. Len(Tail(q)) = 1
  BY <1>2, <1>3, Zenon
<1>5. Tail(q)[1] = q[1 + 1]
  BY <1>2, <1>3, <1>4, Zenon
<1> QED BY <1>3, <1>4, <1>5, Zenon

LEMMA HeadFirst ==
    ASSUME NEW S, NEW q \in Seq(S), q # << >> PROVE Head(q) = q[1] /\ Len(q) # 0
<1>1. Len(q) # 0
  BY EmptySeq
<1> QED BY <1>1, LenProperties

LEMMA ErrcLen == ASSUME TypeOK PROVE errc \in Seq(Results) /\ Len(errc) \in {0, 1, 2}
<1>1. errc \in Seq(Results) /\ Len(errc) <= 2
  BY DEF TypeOK
<1>2. Len(errc) \in Nat
  BY <1>1, LenProperties
<1>3. \A n \in Nat : n <= 2 => n \in {0, 1, 2}
  OBVIOUS
<1> QED BY <1>1, <1>2, <1>3, Zenon

\* A result reported, and a result received.
LEMMA AppendOks ==
    ASSUME NEW q \in Seq(Results), NEW r \in Results, Len(q) \in {0, 1}
    PROVE  oksIn(Append(q, r)) = oksIn(q) + isOk(r)
<1>1. isOk(r) \in {0, 1} /\ isOk(q[1]) \in {0, 1}
  BY IsOk
<1>2. CASE Len(q) = 0
  <2>1. Len(Append(q, r)) = 1 /\ Append(q, r)[1] = r
    BY <1>2, AppendFirst, Zenon
  <2>2. oksIn(Append(q, r)) = isOk(r) /\ oksIn(q) = 0
    BY <1>2, <2>1, OksInShort, Zenon
  <2> QED BY <1>1, <2>2
<1>3. CASE Len(q) = 1
  <2>1. Len(Append(q, r)) = 2 /\ Append(q, r)[1] = q[1] /\ Append(q, r)[2] = r
    BY <1>3, AppendSecond, Zenon
  <2>2. oksIn(Append(q, r)) = isOk(q[1]) + isOk(r) /\ oksIn(q) = isOk(q[1])
    BY <1>3, <2>1, OksInShort, Zenon
  <2> QED BY <2>2, Zenon
<1> QED BY <1>2, <1>3

LEMMA TailOks ==
    ASSUME NEW q \in Seq(Results), Len(q) \in {0, 1, 2}, q # << >>
    PROVE  oksIn(q) = isOk(Head(q)) + oksIn(Tail(q)) /\ oksIn(Tail(q)) \in {0, 1}
<1>1. Head(q) = q[1] /\ Len(q) # 0
  BY HeadFirst, Zenon
<1>2. isOk(q[1]) \in {0, 1} /\ isOk(q[2]) \in {0, 1}
  BY IsOk
<1>3. CASE Len(q) = 1
  <2>1. Len(Tail(q)) = 0
    BY <1>3, TailOfOne, Zenon
  <2>2. oksIn(Tail(q)) = 0 /\ oksIn(q) = isOk(q[1])
    BY <1>3, <2>1, OksInShort, Zenon
  <2> QED BY <1>1, <1>2, <2>2
<1>4. CASE Len(q) = 2
  <2>1. Len(Tail(q)) = 1 /\ Tail(q)[1] = q[2]
    BY <1>4, TailOfTwo, Zenon
  <2>2. oksIn(Tail(q)) = isOk(q[2]) /\ oksIn(q) = isOk(q[1]) + isOk(q[2])
    BY <1>4, <2>1, OksInShort, Zenon
  <2> QED BY <1>1, <1>2, <2>2
<1> QED BY <1>1, <1>3, <1>4, Zenon

\* The same of errc.
LEMMA OksNat ==
    ASSUME TypeOK
    PROVE  oks \in Nat /\ joined \in Nat /\ upOks \in {0, 1} /\ downOks \in {0, 1}
<1>1. /\ \A r : isOk(r) \in {0, 1}
      /\ upOks \in {0, 1} /\ downOks \in {0, 1}
  BY DEF isOk, upOks, downOks
<1>2. joined \in Nat
  BY Fields
<1>3. oksIn(errc) \in Nat
  <2>1. CASE Len(errc) = 0
    BY <2>1, OksInShort
  <2>2. CASE Len(errc) = 1
    BY <1>1, <2>2, OksInShort
  <2>3. CASE Len(errc) = 2
    BY <1>1, <2>3, OksInShort
  <2> QED BY <2>1, <2>2, <2>3, ErrcLen
<1> QED BY <1>1, <1>2, <1>3 DEF oks

LEMMA Reported ==
    ASSUME TypeOK, NEW r \in Results, Len(errc) < 2, errc' = Append(errc, r), joined' = joined
    PROVE  oks' = oks + isOk(r)
<1>1. errc \in Seq(Results) /\ Len(errc) \in {0, 1}
  <2>1. ~(2 < 2)
    OBVIOUS
  <2> QED BY <2>1, ErrcLen, Zenon
<1>2. oksIn(errc') = oksIn(errc) + isOk(r)
  BY <1>1, AppendOks, Zenon
<1>3. oksIn(errc) \in Nat /\ joined \in Nat /\ isOk(r) \in Nat
  <2>1. isOk(errc[1]) \in {0, 1} /\ isOk(r) \in {0, 1}
    BY IsOk
  <2>2. oksIn(errc) = 0 \/ oksIn(errc) = isOk(errc[1])
    BY <1>1, OksInShort, Zenon
  <2> QED BY <2>1, <2>2, Fields
<1>4. \A j, n, m \in Nat : j + (n + m) = (j + n) + m
  OBVIOUS
<1>5. oks' = joined + (oksIn(errc) + isOk(r)) /\ oks = joined + oksIn(errc)
  BY <1>2, Zenon DEF oks
<1> QED BY <1>3, <1>4, <1>5, Zenon

LEMMA Received ==
    ASSUME TypeOK, errc # << >>, errc' = Tail(errc)
    PROVE  /\ oks = joined + (isOk(Head(errc)) + oksIn(errc'))
           /\ oks' = joined' + oksIn(errc') /\ oksIn(errc') \in {0, 1}
<1>1. oksIn(errc) = isOk(Head(errc)) + oksIn(errc') /\ oksIn(errc') \in {0, 1}
  BY ErrcLen, TailOks, Zenon
<1> QED BY <1>1, Zenon DEF oks

-----------------------------------------------------------------------------
(* Every step keeps the invariant                                           *)

\* The request leg.
LEMMA NextUp ==
    ASSUME TypeOK, UpOK, OpenOK, Next
    PROVE  UpOK'
<1>1. CASE Warm
  BY <1>1, Fields, WarmEffect DEF UpOK, OpenOK, upAt, same, peersSame
<1>2. CASE WarmFail
  BY <1>2, Fields, WarmFailEffect DEF UpOK, OpenOK, upAt, same, peersSame
<1>3. CASE NewStream
  BY <1>3, Fields, NewStreamEffect DEF UpOK, OpenOK, upAt, same, peersSame
<1>4. CASE NewStreamFail
  BY <1>4, Fields, NewStreamFailEffect DEF UpOK, OpenOK, upAt, same, peersSame
<1>5. CASE Take
  BY <1>5, Fields, TakeEffect DEF UpOK, OpenOK, upAt, same, peersSame
<1>6. CASE TakeEnd
  BY <1>6, Fields, TakeEndEffect DEF UpOK, OpenOK, upAt, same, peersSame
<1>7. CASE TakeFail
  BY <1>7, Fields, TakeFailEffect DEF UpOK, OpenOK, upAt, same, peersSame
<1>8. CASE Push
  BY <1>8, Fields, PushEffect DEF UpOK, OpenOK, upAt, same, peersSame
<1>9. CASE PushFail
  BY <1>9, Fields, PushFailEffect DEF UpOK, OpenOK, upAt, same, peersSame
<1>10. CASE CloseSend
  BY <1>10, Fields, CloseSendEffect DEF UpOK, OpenOK, upAt, same, peersSame
<1>11. CASE Recv
  BY <1>11, Fields, RecvEffect DEF UpOK, OpenOK, upAt, same, peersSame
<1>12. CASE RecvEnd
  BY <1>12, Fields, RecvEndEffect DEF UpOK, OpenOK, upAt, same, peersSame
<1>13. CASE Send
  BY <1>13, Fields, SendEffect DEF UpOK, OpenOK, upAt, same, peersSame
<1>14. CASE SendFail
  BY <1>14, Fields, SendFailEffect DEF UpOK, OpenOK, upAt, same, peersSame
<1>15. CASE Join
  BY <1>15, Fields, JoinEffect DEF UpOK, OpenOK, upAt, same, peersSame
<1>16. CASE ClientRead
  BY <1>16, Fields, ClientReadEffect DEF UpOK, OpenOK, upAt, same, peersSame
<1>17. CASE BackRead
  BY <1>17, Fields, BackReadEffect DEF UpOK, OpenOK, upAt, same, peersSame
<1>18. CASE Peers
  BY <1>18, Fields, PeersEffect DEF UpOK, OpenOK, upAt, same, peersSame
<1> QED BY <1>1, <1>2, <1>3, <1>4, <1>5, <1>6, <1>7, <1>8, <1>9,
          <1>10, <1>11, <1>12, <1>13, <1>14, <1>15, <1>16, <1>17, <1>18
        DEF Next, Open, Up, Down

\* The response leg.
LEMMA NextDown ==
    ASSUME TypeOK, UpOK, DownOK, OpenOK, Next
    PROVE  DownOK'
<1>1. CASE Warm
  BY <1>1, Fields, WarmEffect DEF DownOK, UpOK, OpenOK, upAt, downAt, same, peersSame
<1>2. CASE WarmFail
  BY <1>2, Fields, WarmFailEffect DEF DownOK, UpOK, OpenOK, upAt, downAt, same, peersSame
<1>3. CASE NewStream
  BY <1>3, Fields, NewStreamEffect DEF DownOK, UpOK, OpenOK, upAt, downAt, same, peersSame
<1>4. CASE NewStreamFail
  BY <1>4, Fields, NewStreamFailEffect DEF DownOK, UpOK, OpenOK, upAt, downAt, same, peersSame
<1>5. CASE Take
  BY <1>5, Fields, TakeEffect DEF DownOK, UpOK, OpenOK, upAt, downAt, same, peersSame
<1>6. CASE TakeEnd
  BY <1>6, Fields, TakeEndEffect DEF DownOK, UpOK, OpenOK, upAt, downAt, same, peersSame
<1>7. CASE TakeFail
  BY <1>7, Fields, TakeFailEffect DEF DownOK, UpOK, OpenOK, upAt, downAt, same, peersSame
<1>8. CASE Push
  BY <1>8, Fields, PushEffect DEF DownOK, UpOK, OpenOK, upAt, downAt, same, peersSame
<1>9. CASE PushFail
  BY <1>9, Fields, PushFailEffect DEF DownOK, UpOK, OpenOK, upAt, downAt, same, peersSame
<1>10. CASE CloseSend
  BY <1>10, Fields, CloseSendEffect DEF DownOK, UpOK, OpenOK, upAt, downAt, same, peersSame
<1>11. CASE Recv
  BY <1>11, Fields, RecvEffect DEF DownOK, UpOK, OpenOK, upAt, downAt, same, peersSame
<1>12. CASE RecvEnd
  BY <1>12, Fields, RecvEndEffect DEF DownOK, UpOK, OpenOK, upAt, downAt, same, peersSame
<1>13. CASE Send
  BY <1>13, Fields, SendEffect DEF DownOK, UpOK, OpenOK, upAt, downAt, same, peersSame
<1>14. CASE SendFail
  BY <1>14, Fields, SendFailEffect DEF DownOK, UpOK, OpenOK, upAt, downAt, same, peersSame
<1>15. CASE Join
  BY <1>15, Fields, JoinEffect DEF DownOK, UpOK, OpenOK, upAt, downAt, same, peersSame
<1>16. CASE ClientRead
  BY <1>16, Fields, ClientReadEffect DEF DownOK, UpOK, OpenOK, upAt, downAt, same, peersSame
<1>17. CASE BackRead
  BY <1>17, Fields, BackReadEffect DEF DownOK, UpOK, OpenOK, upAt, downAt, same, peersSame
<1>18. CASE Peers
  BY <1>18, Fields, PeersEffect DEF DownOK, UpOK, OpenOK, upAt, downAt, same, peersSame
<1> QED BY <1>1, <1>2, <1>3, <1>4, <1>5, <1>6, <1>7, <1>8, <1>9,
          <1>10, <1>11, <1>12, <1>13, <1>14, <1>15, <1>16, <1>17, <1>18
        DEF Next, Open, Up, Down

\* The opening.
LEMMA NextOpen ==
    ASSUME TypeOK, UpOK, DownOK, OpenOK, RefOK, Next
    PROVE  OpenOK'
<1>1. CASE Warm
  BY <1>1, Fields, WarmEffect DEF DownOK, OpenOK, RefOK, Returned, ends, upAt, downAt, same, peersSame
<1>2. CASE WarmFail
  BY <1>2, Fields, WarmFailEffect DEF DownOK, OpenOK, RefOK, Returned, ends, upAt, downAt, same, peersSame
<1>3. CASE NewStream
  BY <1>3, Fields, NewStreamEffect DEF DownOK, OpenOK, RefOK, Returned, ends, upAt, downAt, same, peersSame
<1>4. CASE NewStreamFail
  BY <1>4, Fields, NewStreamFailEffect DEF DownOK, OpenOK, RefOK, Returned, ends, upAt, downAt, same, peersSame
<1>5. CASE Take
  BY <1>5, Fields, TakeEffect DEF DownOK, OpenOK, RefOK, Returned, ends, upAt, downAt, same, peersSame
<1>6. CASE TakeEnd
  BY <1>6, Fields, TakeEndEffect DEF DownOK, OpenOK, RefOK, Returned, ends, upAt, downAt, same, peersSame
<1>7. CASE TakeFail
  BY <1>7, Fields, TakeFailEffect DEF DownOK, OpenOK, RefOK, Returned, ends, upAt, downAt, same, peersSame
<1>8. CASE Push
  BY <1>8, Fields, PushEffect DEF DownOK, OpenOK, RefOK, Returned, ends, upAt, downAt, same, peersSame
<1>9. CASE PushFail
  BY <1>9, Fields, PushFailEffect DEF DownOK, OpenOK, RefOK, Returned, ends, upAt, downAt, same, peersSame
<1>10. CASE CloseSend
  BY <1>10, Fields, CloseSendEffect DEF DownOK, OpenOK, RefOK, Returned, ends, upAt, downAt, same, peersSame
<1>11. CASE Recv
  BY <1>11, Fields, RecvEffect DEF DownOK, OpenOK, RefOK, Returned, ends, upAt, downAt, same, peersSame
<1>12. CASE RecvEnd
  BY <1>12, Fields, RecvEndEffect DEF DownOK, OpenOK, RefOK, Returned, ends, upAt, downAt, same, peersSame
<1>13. CASE Send
  BY <1>13, Fields, SendEffect DEF DownOK, OpenOK, RefOK, Returned, ends, upAt, downAt, same, peersSame
<1>14. CASE SendFail
  BY <1>14, Fields, SendFailEffect DEF DownOK, OpenOK, RefOK, Returned, ends, upAt, downAt, same, peersSame
<1>15. CASE Join
  BY <1>15, Fields, JoinEffect DEF DownOK, OpenOK, RefOK, Returned, ends, upAt, downAt, same, peersSame
<1>16. CASE ClientRead
  BY <1>16, Fields, ClientReadEffect DEF DownOK, OpenOK, RefOK, Returned, ends, upAt, downAt, same, peersSame
<1>17. CASE BackRead
  BY <1>17, Fields, BackReadEffect DEF DownOK, OpenOK, RefOK, Returned, ends, upAt, downAt, same, peersSame
<1>18. CASE Peers
  BY <1>18, Fields, PeersEffect DEF DownOK, OpenOK, RefOK, Returned, ends, upAt, downAt, same, peersSame
<1> QED BY <1>1, <1>2, <1>3, <1>4, <1>5, <1>6, <1>7, <1>8, <1>9,
          <1>10, <1>11, <1>12, <1>13, <1>14, <1>15, <1>16, <1>17, <1>18
        DEF Next, Open, Up, Down

\* The reference is given back when the backend is over or the call.
LEMMA Released ==
    ASSUME TypeOK, RefOK, releaseOnce, kind' = kind, stream' = stream,
           stream = "open" => Over', stream = "warm" => Returned',
           up'.pc = "take" => up.pc = "take"
    PROVE  RefOK'
<1>1. held' = FALSE /\ refs' = 1
  BY Fields DEF RefOK, releaseOnce
<1> QED BY <1>1 DEF RefOK

LEMMA Kept ==
    ASSUME TypeOK, RefOK, keepsRef, kind' = kind, stream' = stream, Over => Over',
           Returned => Returned', Returned' => Returned \/ ~held,
           up'.pc = "take" => up.pc = "take" \/ kind # "server"
    PROVE  RefOK'
BY DEF RefOK, keepsRef

\* The reference.
LEMMA NextRef ==
    ASSUME TypeOK, DownOK, OpenOK, RefOK, Next
    PROVE  RefOK'
<1>1. CASE Warm
  BY <1>1, Fields, WarmEffect DEF RefOK, Returned
<1>2. CASE WarmFail
  BY <1>2, WarmFailEffect DEF RefOK, Returned, keepsRef, upAt, same
<1>3. CASE NewStream
  BY <1>3, NewStreamEffect DEF RefOK, Returned, keepsRef, upAt
<1>4. CASE NewStreamFail
  <2>1. Returned' /\ stream = "warm"
    BY <1>4, NewStreamFailEffect DEF Returned
  <2> QED BY <1>4, <2>1, NewStreamFailEffect, Released DEF same, upAt
<1>5. CASE Take \/ TakeEnd \/ Push
  <2>1. same /\ peersSame /\ keepsRef /\ (up'.pc = "take" => kind # "server")
    BY <1>5, TakeEffect, TakeEndEffect, PushEffect DEF upAt
  <2>2. result' = result \/ (result' = "eof" /\ ~held /\ result = "none")
    BY <1>5, TakeEffect, TakeEndEffect, PushEffect DEF RefOK, Cancelled, Returned, ends
  <2> QED BY <2>1, <2>2, Kept DEF Over, Cancelled, Returned, same, peersSame
<1>6. CASE TakeFail
  <2>1. Cancelled' /\ (kind # "bidi" => Returned')
    BY <1>6, TakeFailEffect, Fields DEF Cancelled, Returned, ends, peersSame
  <2>2. CASE kind = "client"
    BY <1>6, <2>1, <2>2, TakeFailEffect, Released DEF Over, upAt, same
  <2>3. CASE kind = "server"
    <3>1. ~held
      BY <1>6, <2>3, TakeFailEffect DEF RefOK
    <3> QED BY <1>6, <2>1, <2>3, <3>1, TakeFailEffect, Kept DEF Over, upAt, same
  <2>4. CASE kind = "bidi"
    <3>1. result' = result
      BY <1>6, <2>4, TakeFailEffect DEF ends
    <3> QED BY <1>6, <2>1, <2>4, <3>1, TakeFailEffect, Kept DEF Over, Returned, upAt, same
  <2> QED BY <2>2, <2>3, <2>4, Fields
<1>7. CASE PushFail
  <2>1. up'.pc # "take" /\ same /\ peersSame /\ stream = "open"
    BY <1>7, PushFailEffect, Fields DEF upAt
  <2>2. result' = result \/ Returned'
    BY <1>7, PushFailEffect DEF ends, Returned
  <2>3. Over'
    BY <1>7, <2>1, <2>2, PushFailEffect DEF Over, Cancelled, Returned, peersSame
  <2>4. CASE kind = "server"
    BY <1>7, <2>1, <2>3, <2>4, PushFailEffect, Kept DEF Returned, same
  <2>5. CASE kind # "server"
    BY <1>7, <2>1, <2>3, <2>5, PushFailEffect, Released DEF same
  <2> QED BY <2>4, <2>5
<1>8. CASE CloseSend
  BY <1>8, CloseSendEffect, Kept DEF Over, Cancelled, Returned, same, peersSame
<1>9. CASE Recv
  BY <1>9, RecvEffect, Kept DEF Over, Cancelled, Returned, same, peersSame
<1>10. CASE RecvEnd
  <2>1. back.end # "none" \/ Cancelled
    BY <1>10, RecvEndEffect
  <2>2. result' = result \/ Returned'
    BY <1>10, RecvEndEffect DEF ends, Returned
  <2>3. Over'
    BY <1>10, <2>1, <2>2, RecvEndEffect DEF Over, Cancelled, Returned, peersSame
  <2>4. stream = "open"
    BY <1>10, RecvEndEffect DEF OpenOK
  <2> QED BY <1>10, <2>3, <2>4, RecvEndEffect, Released DEF same
<1>11. CASE Send
  <2>1. stream = "open"
    BY <1>11, SendEffect DEF OpenOK
  <2>2. CASE kind = "client"
    <3>1. Returned'
      BY <1>11, <2>2, SendEffect DEF Returned
    <3> QED BY <1>11, <2>1, <2>2, <3>1, SendEffect, Released DEF Over, Cancelled, same
  <2>3. CASE kind # "client"
    BY <1>11, <2>3, SendEffect, Kept DEF Over, Cancelled, Returned, same, peersSame
  <2> QED BY <2>2, <2>3
<1>12. CASE SendFail
  <2>1. stream = "open"
    BY <1>12, SendFailEffect DEF OpenOK
  <2>2. CASE kind = "bidi"
    <3>1. result' = result
      BY <1>12, <2>2, SendFailEffect DEF ends
    <3> QED BY <1>12, <2>2, <3>1, SendFailEffect, Kept
            DEF Over, Cancelled, Returned, same, peersSame
  <2>3. CASE kind # "bidi"
    <3>1. Returned'
      BY <1>12, <2>3, SendFailEffect DEF Returned, ends
    <3> QED BY <1>12, <2>1, <2>3, <3>1, SendFailEffect, Released DEF Over, Cancelled, same
  <2> QED BY <2>2, <2>3
<1>13. CASE Join
  <2>1. Head(errc) \in Results
    BY <1>13, JoinEffect DEF TypeOK
  <2>2. Head(errc) # "none"
    BY <2>1 DEF Results
  <2>3. stream = "open"
    BY <1>13, JoinEffect DEF OpenOK
  <2>4. CASE Head(errc) # "ok" \/ joined = 1
    <3>1. Returned'
      BY <1>13, <2>2, <2>4, JoinEffect DEF Returned
    <3> QED BY <1>13, <2>3, <2>4, <3>1, JoinEffect, Released DEF Over, Cancelled
  <2>5. CASE ~(Head(errc) # "ok" \/ joined = 1)
    BY <1>13, <2>5, JoinEffect, Kept DEF Over, Cancelled, Returned, peersSame
  <2> QED BY <2>4, <2>5
<1>14. CASE ClientRead
  BY <1>14, ClientReadEffect, Kept DEF Over, Cancelled, Returned, same
<1>15. CASE BackRead
  BY <1>15, BackReadEffect, Kept DEF Over, Cancelled, Returned, same
<1>16. CASE Peers
  BY <1>16, PeersEffect, Kept DEF Over, Cancelled, Returned, same
<1> QED BY <1>1, <1>2, <1>3, <1>4, <1>5, <1>6, <1>7, <1>8, <1>9, <1>10, <1>11, <1>12,
           <1>13, <1>14, <1>15, <1>16
        DEF Next, Open, Up, Down

\* The truth of a success, but for the joining of two.
LEMMA NextTrue ==
    ASSUME TypeOK, UpOK, UpOK', DownOK, DownOK', OpenOK, ErrcOK, OksOK, NoFalseSuccess, Next
    PROVE  NoFalseSuccess'
<1>1. CASE Warm
  BY <1>1, Fields, WarmEffect DEF NoFalseSuccess, UpOK, DownOK, Returned, Over, Cancelled, ends, upAt, downAt, same, peersSame
<1>2. CASE WarmFail
  BY <1>2, Fields, WarmFailEffect DEF NoFalseSuccess, UpOK, DownOK, Returned, Over, Cancelled, ends, upAt, downAt, same, peersSame
<1>3. CASE NewStream
  BY <1>3, Fields, NewStreamEffect DEF NoFalseSuccess, UpOK, DownOK, Returned, Over, Cancelled, ends, upAt, downAt, same, peersSame
<1>4. CASE NewStreamFail
  BY <1>4, Fields, NewStreamFailEffect DEF NoFalseSuccess, UpOK, DownOK, Returned, Over, Cancelled, ends, upAt, downAt, same, peersSame
<1>5. CASE Take
  BY <1>5, Fields, TakeEffect DEF NoFalseSuccess, UpOK, DownOK, Returned, Over, Cancelled, ends, upAt, downAt, same, peersSame
<1>6. CASE TakeEnd
  BY <1>6, Fields, TakeEndEffect DEF NoFalseSuccess, UpOK, DownOK, Returned, Over, Cancelled, ends, upAt, downAt, same, peersSame
<1>7. CASE TakeFail
  BY <1>7, Fields, TakeFailEffect DEF NoFalseSuccess, UpOK, DownOK, Returned, Over, Cancelled, ends, upAt, downAt, same, peersSame
<1>8. CASE Push
  BY <1>8, Fields, PushEffect DEF NoFalseSuccess, UpOK, DownOK, Returned, Over, Cancelled, ends, upAt, downAt, same, peersSame
<1>9. CASE PushFail
  BY <1>9, Fields, PushFailEffect DEF NoFalseSuccess, UpOK, DownOK, Returned, Over, Cancelled, ends, upAt, downAt, same, peersSame
<1>10. CASE CloseSend
  BY <1>10, Fields, CloseSendEffect DEF NoFalseSuccess, UpOK, DownOK, Returned, Over, Cancelled, ends, upAt, downAt, same, peersSame
<1>11. CASE Recv
  BY <1>11, Fields, RecvEffect DEF NoFalseSuccess, UpOK, DownOK, Returned, Over, Cancelled, ends, upAt, downAt, same, peersSame
<1>12. CASE RecvEnd
  <2>1. CASE back.end = "ok" /\ back.sent = down.relayed
    <3>1. back.sent = down.passed /\ (kind = "client" => up.half)
      BY <1>12, <2>1, RecvEndEffect DEF DownOK
    <3>2. CASE kind = "bidi"
      <4>1. result' = result
        BY <1>12, <3>2, RecvEndEffect DEF ends
      <4> QED BY <1>12, <4>1, RecvEndEffect DEF NoFalseSuccess, downAt, same, peersSame
    <3>3. CASE kind # "bidi"
      BY <1>12, <2>1, <3>1, <3>3, Fields, RecvEndEffect
         DEF NoFalseSuccess, UpOK, downAt, same, peersSame
    <3> QED BY <3>2, <3>3
  <2>2. ASSUME NEW r \in {"error", "lost", "gone"}, ends(r), ~(back.end = "ok" /\ back.sent = down.relayed)
        PROVE  NoFalseSuccess'
    <3>1. result' = "ok" => result = "ok" /\ kind = "bidi"
      BY <2>2 DEF ends
    <3> QED BY <1>12, <3>1, RecvEndEffect DEF NoFalseSuccess, downAt, same, peersSame
  <2> QED BY <1>12, <2>1, <2>2, RecvEndEffect
<1>13. CASE Send
  BY <1>13, Fields, SendEffect DEF NoFalseSuccess, UpOK, DownOK, Returned, Over, Cancelled, ends, upAt, downAt, same, peersSame
<1>14. CASE SendFail
  BY <1>14, Fields, SendFailEffect DEF NoFalseSuccess, UpOK, DownOK, Returned, Over, Cancelled, ends, upAt, downAt, same, peersSame
<1>15. CASE Join
  <2>1. CASE result' # "ok"
    BY <2>1 DEF NoFalseSuccess
  <2>2. CASE result' = "ok"
    <3>1. Head(errc) = "ok" /\ joined = 1
      BY <1>15, <2>2, JoinEffect DEF Returned, NoFalseSuccess
    <3>2. Len(errc) > 0 /\ errc[1] = "ok"
      BY <1>15, <3>1, JoinEffect DEF TypeOK
    <3>3. kind = "bidi"
      BY <1>15, JoinEffect DEF ErrcOK
    <3>4. PICK n \in {0, 1} : oks = joined + (isOk(Head(errc)) + n)
      BY <1>15, JoinEffect, Received
    <3>5. oks >= 2
      BY <3>1, <3>4 DEF isOk
    <3>6. 2 <= upOks + downOks
      BY <3>3, <3>5, OksNat DEF OksOK
    <3>7. okUp /\ okDown
      BY <3>6 DEF upOks, downOks
    <3> QED BY <1>15, <3>7, JoinEffect DEF okUp, okDown, NoFalseSuccess, UpOK, peersSame
  <2> QED BY <2>1, <2>2
<1>16. CASE ClientRead
  BY <1>16, Fields, ClientReadEffect DEF NoFalseSuccess, UpOK, DownOK, Returned, Over, Cancelled, ends, upAt, downAt, same, peersSame
<1>17. CASE BackRead
  BY <1>17, Fields, BackReadEffect DEF NoFalseSuccess, UpOK, DownOK, Returned, Over, Cancelled, ends, upAt, downAt, same, peersSame
<1>18. CASE Peers
  BY <1>18, Fields, PeersEffect DEF NoFalseSuccess, UpOK, DownOK, Returned, Over, Cancelled, ends, upAt, downAt, same, peersSame
<1> QED BY <1>1, <1>2, <1>3, <1>4, <1>5, <1>6, <1>7, <1>8, <1>9,
          <1>10, <1>11, <1>12, <1>13, <1>14, <1>15, <1>16, <1>17, <1>18
        DEF Next, Open, Up, Down

\* Results are appended by goroutines alone.
LEMMA NextErrc == ASSUME TypeOK, UpOK, ErrcOK, Next PROVE ErrcOK'
<1>1. CASE Open
  BY <1>1, WarmEffect, WarmFailEffect, NewStreamEffect, NewStreamFailEffect DEF Open, ErrcOK, same
<1>2. CASE Up
  BY <1>2, TakeEffect, TakeEndEffect, TakeFailEffect, PushEffect, PushFailEffect, CloseSendEffect
     DEF Up, ErrcOK, same, ends
<1>3. CASE Down
  BY <1>3, RecvEffect, RecvEndEffect, SendEffect, SendFailEffect DEF Down, ErrcOK, same, ends
<1>4. CASE Join \/ ClientRead \/ BackRead \/ Peers
  BY <1>4, JoinEffect, ClientReadEffect, BackReadEffect, PeersEffect DEF ErrcOK, same
<1> QED BY <1>1, <1>2, <1>3, <1>4 DEF Next

\* A leg that succeeded has.
LegsKeep == (okUp => okUp') /\ (okDown => okDown')

LEMMA Quiet ==
    ASSUME TypeOK, TypeOK', OksOK, kind' = kind, joined' = joined, LegsKeep,
           \/ errc' = errc
           \/ \E r \in Results \ {"ok"} : errc' = Append(errc, r) /\ Len(errc) < 2
    PROVE  OksOK'
<1>1. oks' = oks
  <2>1. CASE errc' = errc
    BY <2>1, Zenon DEF oks
  <2>2. ASSUME NEW r \in Results \ {"ok"}, errc' = Append(errc, r), Len(errc) < 2
        PROVE  oks' = oks
    <3>1. oks' = oks + isOk(r) /\ isOk(r) = 0
      BY <2>2, Reported DEF isOk
    <3> QED BY <3>1, OksNat
  <2> QED BY <2>1, <2>2
<1>2. upOks' >= upOks /\ downOks' >= downOks
  BY DEF LegsKeep, upOks, downOks
<1>3. upOks' \in {0, 1} /\ downOks' \in {0, 1}
  BY DEF upOks, downOks
<1> QED BY <1>1, <1>2, <1>3, OksNat DEF OksOK

LEMMA NextOks == ASSUME TypeOK, TypeOK', UpOK, DownOK, OpenOK, OksOK, Next PROVE OksOK'
<1>1. CASE Warm \/ WarmFail \/ NewStream \/ NewStreamFail
  <2>1. up.pc = "done" \/ ~okUp
    BY DEF okUp
  <2>2. kind # "server" => ~up.half \/ up.pc = "done"
    BY DEF UpOK
  <2> QED
    BY <1>1, Quiet, WarmEffect, WarmFailEffect, NewStreamEffect, NewStreamFailEffect
       DEF LegsKeep, okUp, okDown, OpenOK, Returned, upAt, downAt, same, peersSame
<1>2. CASE Take \/ TakeEnd \/ Push \/ Recv
  <2>1. CASE kind = "bidi"
    BY <1>2, <2>1, Quiet, TakeEffect, TakeEndEffect, PushEffect, RecvEffect
       DEF LegsKeep, okUp, okDown, same, peersSame
  <2>2. CASE kind # "bidi"
    BY <1>2, <2>2, TakeEffect, TakeEndEffect, PushEffect, RecvEffect DEF OksOK, same
  <2> QED BY <2>1, <2>2
<1>3. CASE TakeFail \/ PushFail \/ Send \/ SendFail
  <2>1. CASE kind = "bidi"
    <3>1. same /\ peersSame
      BY <1>3, TakeFailEffect, PushFailEffect, SendEffect, SendFailEffect
    <3>2. errc' = errc \/ \E r \in Results \ {"ok"} : errc' = Append(errc, r) /\ Len(errc) < 2
      <4>1. CASE Send
        BY <4>1, SendEffect
      <4>2. CASE TakeFail
        BY <2>1, <4>2, TakeFailEffect DEF ends, Results
      <4>3. CASE PushFail
        BY <2>1, <4>3, PushFailEffect DEF ends, Results
      <4>4. CASE SendFail
        BY <2>1, <4>4, SendFailEffect DEF ends, Results
      <4> QED BY <1>3, <4>1, <4>2, <4>3, <4>4
    <3>3. up' = up \/ up.pc # "done"
      BY <1>3, TakeFailEffect, PushFailEffect, SendEffect, SendFailEffect
    <3>4. down' = down \/ down.pc # "done"
      BY <1>3, <2>1, TakeFailEffect, PushFailEffect, SendEffect, SendFailEffect
    <3> QED BY <3>1, <3>2, <3>3, <3>4, Quiet DEF LegsKeep, okUp, okDown, same, peersSame
  <2>2. CASE kind # "bidi"
    BY <1>3, <2>2, TakeFailEffect, PushFailEffect, SendEffect, SendFailEffect DEF OksOK, same
  <2> QED BY <2>1, <2>2
<1>4. CASE CloseSend
  <2>1. CASE kind = "bidi"
    <3>1. ~okUp /\ okUp' /\ okDown' = okDown
      BY <1>4, <2>1, CloseSendEffect DEF okUp, okDown, peersSame
    <3>2. oks' = oks + 1
      BY <1>4, <2>1, CloseSendEffect, Reported DEF same, isOk, Results
    <3>3. upOks = 0 /\ upOks' = 1 /\ downOks' = downOks
      BY <3>1 DEF upOks, downOks
    <3> QED BY <2>1, <3>2, <3>3, OksNat DEF OksOK
  <2>2. CASE kind # "bidi"
    BY <1>4, <2>2, CloseSendEffect DEF OksOK, same
  <2> QED BY <2>1, <2>2
<1>5. CASE RecvEnd
  <2>1. CASE kind # "bidi"
    BY <1>5, <2>1, RecvEndEffect DEF OksOK, same
  <2>2. CASE kind = "bidi" /\ back.end = "ok" /\ back.sent = down.relayed /\ ends("ok")
    <3>1. ~okDown /\ okDown' /\ okUp' = okUp
      BY <1>5, <2>2, RecvEndEffect DEF okUp, okDown, peersSame, downAt, DownOK
    <3>2. oks' = oks + 1
      BY <1>5, <2>2, RecvEndEffect, Reported DEF same, isOk, ends, Results
    <3>3. downOks = 0 /\ downOks' = 1 /\ upOks' = upOks
      BY <3>1 DEF upOks, downOks
    <3> QED BY <2>2, <3>2, <3>3, OksNat DEF OksOK
  <2>3. ASSUME NEW r \in {"error", "lost", "gone"}, ends(r), kind = "bidi"
        PROVE  OksOK'
    <3>1. LegsKeep /\ same
      BY <1>5, RecvEndEffect DEF LegsKeep, okUp, okDown
    <3>2. r \in Results \ {"ok"} /\ errc' = Append(errc, r) /\ Len(errc) < 2
      BY <2>3 DEF ends, Results
    <3> QED BY <3>1, <3>2, Quiet DEF same
  <2> QED BY <1>5, <2>1, <2>2, <2>3, RecvEndEffect
<1>6. CASE Join
  <2>1. okUp' = okUp /\ okDown' = okDown
    BY <1>6, JoinEffect DEF okUp, okDown, peersSame
  <2>2. upOks' = upOks /\ downOks' = downOks
    BY <2>1 DEF upOks, downOks
  <2>3. PICK n \in {0, 1} : oks = joined + (isOk(Head(errc)) + n) /\ oks' = joined' + n
    BY <1>6, JoinEffect, Received
  <2>4. joined' = joined \/ (joined' = 1 /\ joined = 0 /\ Head(errc) = "ok")
    <3>1. joined \in {0, 1}
      BY DEF TypeOK
    <3> QED BY <1>6, <3>1, JoinEffect
  <2>5. CASE joined' = joined
    <3>1. PICK m \in {0, 1} : m = isOk(Head(errc))
      BY IsOk
    <3>2. \A j \in Nat : j + n <= j + (m + n)
      OBVIOUS
    <3>3. oks = joined + (m + n) /\ oks' = joined + n
      BY <2>3, <2>5, <3>1
    <3>4. oks' <= oks /\ oks' \in Nat
      BY <3>2, <3>3, OksNat
    <3>5. kind' = kind
      BY <1>6, JoinEffect
    <3> QED BY <2>2, <3>4, <3>5, OksNat DEF OksOK
  <2>6. CASE joined' = 1 /\ joined = 0 /\ Head(errc) = "ok"
    <3>1. isOk(Head(errc)) = 1
      BY <2>6 DEF isOk
    <3>2. oks' = oks
      BY <2>3, <2>6, <3>1, OksNat
    <3> QED BY <1>6, <2>2, <3>2, JoinEffect DEF OksOK
  <2> QED BY <2>4, <2>5, <2>6
<1>7. CASE ClientRead \/ BackRead
  BY <1>7, Quiet, ClientReadEffect, BackReadEffect DEF LegsKeep, okUp, okDown, same
<1>8. CASE Peers
  BY <1>8, Quiet, PeersEffect DEF LegsKeep, okUp, okDown, same
<1> QED BY <1>1, <1>2, <1>3, <1>4, <1>5, <1>6, <1>7, <1>8 DEF Next, Open, Up, Down

-----------------------------------------------------------------------------
(* Types                                                                    *)

LEMMA ErrcTypes ==
    ASSUME TypeOK,
           \/ errc' = errc
           \/ \E r \in Results : errc' = Append(errc, r) /\ Len(errc) < 2
           \/ errc # << >> /\ errc' = Tail(errc)
    PROVE  errc' \in Seq(Results) /\ Len(errc') <= 2
<1>1. errc \in Seq(Results) /\ Len(errc) \in {0, 1, 2}
  BY ErrcLen
<1>2. CASE errc' = errc
  BY <1>2 DEF TypeOK
<1>3. ASSUME NEW r \in Results, errc' = Append(errc, r), Len(errc) < 2
      PROVE  errc' \in Seq(Results) /\ Len(errc') <= 2
  <2>1. errc' \in Seq(Results) /\ Len(errc') = Len(errc) + 1
    BY <1>1, <1>3, AppendProperties, Zenon
  <2>2. \A n \in {0, 1, 2} : n < 2 => n + 1 <= 2
    OBVIOUS
  <2> QED BY <1>1, <1>3, <2>1, <2>2, Zenon
<1>4. CASE errc # << >> /\ errc' = Tail(errc)
  <2>1. errc' \in Seq(Results) /\ Len(errc') = Len(errc) - 1
    BY <1>1, <1>4, HeadTailProperties, Zenon
  <2>2. \A n \in {0, 1, 2} : n - 1 <= 2
    OBVIOUS
  <2> QED BY <1>1, <2>1, <2>2, Zenon
<1> QED BY <1>2, <1>3, <1>4

\* References are counted from 0 to 2.
LEMMA RefTypes ==
    ASSUME TypeOK, RefOK, keepsRef \/ releaseOnce
    PROVE  refs' \in 0..2 /\ held' \in BOOLEAN
<1>1. refs \in 1..2
  BY Fields DEF RefOK
<1>2. CASE keepsRef
  BY <1>1, <1>2, Fields DEF keepsRef
<1>3. CASE releaseOnce
  <2>1. refs' = 1 /\ held' = FALSE
    BY <1>3, Fields DEF RefOK, releaseOnce
  <2>2. refs' \in 0..2
    BY <2>1
  <2>3. held' \in BOOLEAN
    BY <2>1, Zenon
  <2> QED BY <2>2, <2>3, Zenon
<1> QED BY <1>2, <1>3

LEMMA LegTypes ==
    ASSUME up' = up \/ (\E p : upAt(p)), down' = down \/ (\E p : downAt(p)), TypeOK
    PROVE  up' \in UpLeg /\ down' \in DownLeg
BY Fields DEF upAt, downAt

LEMMA ResultTypes ==
    ASSUME TypeOK, NEW r \in Results, ends(r)
    PROVE  /\ result' \in Results \union {"none"}
           /\ errc' \in Seq(Results) /\ Len(errc') <= 2
BY ErrcTypes DEF TypeOK, ends

LEMMA NextTypes == ASSUME TypeOK, UpOK, DownOK, RefOK, Next PROVE TypeOK'
<1> DEFINE Rest == /\ kind' \in Kinds /\ client' \in Client /\ back' \in Back
                   /\ stream' \in {"none", "warm", "open"} /\ joined' \in 0..1
           Legs == up' \in UpLeg /\ down' \in DownLeg
           Refs == refs' \in 0..2 /\ held' \in BOOLEAN
           Ends == /\ result' \in Results \union {"none"}
                   /\ errc' \in Seq(Results) /\ Len(errc') <= 2
<1>1. SUFFICES Rest /\ Legs /\ Refs /\ Ends
  BY DEF TypeOK
<1>2. same /\ peersSame => Rest
  BY DEF same, peersSame, TypeOK
<1>3. errc' = errc /\ (result' = result \/ result' \in Results) => Ends
  BY DEF TypeOK
<1>4. Results = {"ok", "error", "lost", "gone", "eof", "refused"}
  BY DEF Results
<1>5. CASE Warm
  <2>1. refs = 1
    BY <1>5, WarmEffect DEF RefOK
  <2>2. Rest
    BY <1>5, WarmEffect DEF TypeOK, peersSame
  <2>3. Legs
    BY <1>5, WarmEffect, Fields
  <2>4. Refs
    BY <1>5, <2>1, WarmEffect
  <2> QED BY <1>3, <1>5, <2>2, <2>3, <2>4, WarmEffect
<1>6. CASE WarmFail
  <2>1. Legs /\ Refs
    BY <1>6, WarmFailEffect, LegTypes, RefTypes
  <2> QED BY <1>2, <1>3, <1>4, <1>6, <2>1, WarmFailEffect
<1>7. CASE NewStream
  <2>1. Legs
    BY <1>7, NewStreamEffect, LegTypes
  <2>2. Refs
    BY <1>7, NewStreamEffect, RefTypes
  <2>3. Rest
    BY <1>7, NewStreamEffect DEF TypeOK, peersSame
  <2> QED BY <1>3, <1>7, <2>1, <2>2, <2>3, NewStreamEffect
<1>8. CASE NewStreamFail
  <2>1. Legs /\ Refs
    BY <1>8, NewStreamFailEffect, LegTypes, RefTypes
  <2> QED BY <1>2, <1>3, <1>4, <1>8, <2>1, NewStreamFailEffect
<1>9. CASE Take
  <2>1. Legs /\ Refs
    BY <1>9, TakeEffect, Fields, RefTypes
  <2> QED BY <1>2, <1>3, <1>9, <2>1, TakeEffect
<1>10. CASE TakeEnd
  <2>1. Refs
    BY <1>10, TakeEndEffect, RefTypes
  <2>2. Legs
    BY <1>10, TakeEndEffect, LegTypes
  <2>3. Ends
    <3>1. CASE kind = "server"
      BY <1>4, <1>10, <3>1, TakeEndEffect, ResultTypes
    <3>2. CASE kind # "server"
      BY <1>3, <1>10, <3>2, TakeEndEffect
    <3> QED BY <3>1, <3>2
  <2> QED BY <1>2, <1>10, <2>1, <2>2, <2>3, TakeEndEffect
<1>11. CASE TakeFail
  <2>1. Refs
    BY <1>11, TakeFailEffect, RefTypes
  <2>2. Legs
    BY <1>11, TakeFailEffect, LegTypes
  <2>3. Ends
    BY <1>4, <1>11, TakeFailEffect, ResultTypes
  <2> QED BY <1>2, <1>11, <2>1, <2>2, <2>3, TakeFailEffect
<1>12. CASE Push
  <2>1. up.pushed < MaxMsg
    <3>1. up.taken <= MaxMsg
      BY DEF TypeOK, UpLeg, Messages
    <3>2. CASE kind = "server"
      BY <1>12, <3>2, PushEffect, MaxMsgAssumption DEF UpOK
    <3>3. CASE kind # "server"
      BY <1>12, <3>1, <3>3, PushEffect, Fields DEF UpOK
    <3> QED BY <3>2, <3>3
  <2>2. Legs
    BY <1>12, <2>1, PushEffect, Fields
  <2>3. Refs
    BY <1>12, PushEffect, RefTypes
  <2> QED BY <1>2, <1>3, <1>12, <2>2, <2>3, PushEffect
<1>13. CASE PushFail
  <2>1. Refs
    BY <1>13, PushFailEffect, RefTypes
  <2>2. Legs
    BY <1>13, PushFailEffect, LegTypes, Fields
  <2>3. Ends
    <3>1. CASE kind = "server"
      BY <1>3, <1>13, <3>1, PushFailEffect
    <3>2. CASE kind # "server"
      BY <1>4, <1>13, <3>2, PushFailEffect, ResultTypes
    <3> QED BY <3>1, <3>2
  <2> QED BY <1>2, <1>13, <2>1, <2>2, <2>3, PushFailEffect
<1>14. CASE CloseSend
  <2>1. Refs
    BY <1>14, CloseSendEffect, RefTypes
  <2>2. Legs
    BY <1>14, CloseSendEffect, Fields DEF downAt
  <2>3. Ends
    <3>1. "ok" \in Results
      BY <1>4
    <3>2. errc' \in Seq(Results) /\ Len(errc') <= 2
      BY <1>14, <3>1, CloseSendEffect, ErrcTypes
    <3> QED BY <1>14, <3>2, CloseSendEffect DEF TypeOK
  <2> QED BY <1>2, <1>14, <2>1, <2>2, <2>3, CloseSendEffect
<1>15. CASE Recv
  <2>1. Legs /\ Refs
    BY <1>15, RecvEffect, Fields, RefTypes
  <2> QED BY <1>2, <1>3, <1>15, <2>1, RecvEffect
<1>16. CASE RecvEnd
  <2>1. Legs /\ Refs
    BY <1>16, RecvEndEffect, LegTypes, RefTypes
  <2>2. Ends
    BY <1>4, <1>16, RecvEndEffect, ResultTypes
  <2> QED BY <1>2, <1>16, <2>1, <2>2, RecvEndEffect
<1>17. CASE Send
  <2>1. down.passed < MaxMsg
    <3>1. down.relayed <= MaxMsg
      BY DEF TypeOK, DownLeg, Messages
    <3> QED BY <1>17, <3>1, SendEffect, Fields DEF DownOK
  <2>2. Legs
    BY <1>17, <2>1, SendEffect, Fields
  <2>3. Refs
    BY <1>17, SendEffect, RefTypes
  <2>4. Ends
    BY <1>3, <1>4, <1>17, SendEffect
  <2> QED BY <1>2, <1>17, <2>2, <2>3, <2>4, SendEffect
<1>18. CASE SendFail
  <2>1. Legs
    BY <1>18, SendFailEffect, LegTypes
  <2>2. Refs
    BY <1>18, SendFailEffect, RefTypes
  <2>3. Ends
    BY <1>4, <1>18, SendFailEffect, ResultTypes
  <2> QED BY <1>2, <1>18, <2>1, <2>2, <2>3, SendFailEffect
<1>19. CASE Join
  <2>1. Refs
    BY <1>19, JoinEffect, RefTypes
  <2>2. Legs
    BY <1>19, JoinEffect, Fields
  <2>3. errc' \in Seq(Results) /\ Len(errc') <= 2
    BY <1>19, JoinEffect, ErrcTypes
  <2>4. Head(errc) \in Results
    <3>1. errc \in Seq(Results)
      BY ErrcLen
    <3> QED BY <1>19, <3>1, JoinEffect, HeadTailProperties, Zenon
  <2>5. result' \in Results \union {"none"}
    BY <1>19, <2>4, JoinEffect DEF TypeOK
  <2>6. Rest
    BY <1>19, JoinEffect DEF TypeOK, peersSame
  <2> QED BY <2>1, <2>2, <2>3, <2>5, <2>6
<1>20. CASE ClientRead
  <2>1. Rest /\ Legs
    BY <1>20, ClientReadEffect DEF TypeOK, same
  <2> QED BY <1>3, <1>20, <2>1, ClientReadEffect, RefTypes
<1>21. CASE BackRead
  <2>1. Rest /\ Legs
    BY <1>21, BackReadEffect DEF TypeOK, same
  <2> QED BY <1>3, <1>21, <2>1, BackReadEffect, RefTypes
<1>22. CASE Peers
  <2>1. Rest /\ Legs
    BY <1>22, PeersEffect DEF TypeOK, same
  <2> QED BY <1>3, <1>22, <2>1, PeersEffect, RefTypes
<1> QED BY <1>5, <1>6, <1>7, <1>8, <1>9, <1>10, <1>11, <1>12, <1>13, <1>14, <1>15, <1>16,
           <1>17, <1>18, <1>19, <1>20, <1>21, <1>22
        DEF Next, Open, Up, Down

-----------------------------------------------------------------------------
(* The theorems                                                             *)

Strong == TypeOK /\ Inv

LEMMA InitStrong == Init => Strong
<1> SUFFICES ASSUME Init PROVE Strong
  OBVIOUS
<1>1. 0 \in Messages
  BY MaxMsgAssumption DEF Messages
<1>2. client \in Client /\ back \in Back /\ up \in UpLeg /\ down \in DownLeg
  BY <1>1 DEF Init, Client, Back, UpLeg, DownLeg
<1>3. errc \in Seq(Results) /\ Len(errc) = 0
  BY EmptySeq DEF Init
<1>4. TypeOK
  <2>1. /\ kind \in Kinds /\ stream \in {"none", "warm", "open"} /\ joined \in 0..1
    BY SMT DEF Init
  <2>2. refs \in 0..2
    BY DEF Init
  <2>3. held \in BOOLEAN
    BY Zenon DEF Init
  <2>4. result \in Results \union {"none"}
    BY Zenon DEF Init
  <2>5. \A n : n = 0 => n <= 2
    OBVIOUS
  <2> QED BY <1>2, <1>3, <2>1, <2>2, <2>3, <2>4, <2>5, Zenon DEF TypeOK
<1>5. UpOK /\ DownOK /\ ErrcOK /\ RefOK /\ NoFalseSuccess
  BY DEF Init, Kinds, UpOK, DownOK, ErrcOK, RefOK, NoFalseSuccess, Returned
<1>6. OpenOK
  BY DEF Init, Kinds, OpenOK, Returned
<1>7. OksOK
  <2>1. oks = 0 + 0
    BY <1>3, OksInShort, Zenon DEF Init, oks
  <2> QED BY <1>4, <2>1, OksNat DEF OksOK
<1> QED BY <1>4, <1>5, <1>6, <1>7 DEF Strong, Inv

LEMMA NextStrong == ASSUME Strong, [Next]_vars PROVE Strong'
<1>1. CASE Next
  <2>1. TypeOK'
    BY <1>1, NextTypes DEF Strong, Inv
  <2>2. UpOK' /\ DownOK' /\ OpenOK' /\ RefOK' /\ ErrcOK'
    BY <1>1, NextUp, NextDown, NextOpen, NextRef, NextErrc DEF Strong, Inv
  <2>3. OksOK' /\ NoFalseSuccess'
    BY <1>1, <2>1, <2>2, NextOks, NextTrue DEF Strong, Inv
  <2> QED BY <2>1, <2>2, <2>3 DEF Strong, Inv
<1>2. CASE UNCHANGED vars
  BY <1>2 DEF vars, peers, Strong, Inv, TypeOK, UpOK, DownOK, OpenOK, RefOK, ErrcOK, OksOK,
              NoFalseSuccess, Returned, Over, Cancelled, oks, upOks, downOks, okUp, okDown
<1> QED BY <1>1, <1>2

\* The inductive invariant: beside the types, where each leg stands while the
\* backend stream is open, what the reference is worth, and that the successes
\* received, queued and still to come add up (proxyBidiStream's join).
THEOREM ProxyStrong == Spec => []Strong
BY InitStrong, NextStrong, PTL DEF Spec

\* The types, for any number of messages: errc never holds more than two results
\* and the references on the process stay within this call's and the other's.
THEOREM ProxyTyped == Spec => []TypeOK
BY ProxyStrong, PTL DEF Strong

\* A stream somebody waits for holds its reference and a finished one does not,
\* whichever of the failures ended it.
THEOREM ReferencesExact == Spec => []RefExact
<1>1. Strong => RefExact
  BY DEF Strong, Inv, RefOK, RefExact, Running, Returned, Over, Cancelled
<1> QED BY <1>1, ProxyStrong, PTL

\* The gateway never reports a success the backend did not, nor one of half a
\* stream.
THEOREM SuccessIsTrue == Spec => []NoFalseSuccess
BY ProxyStrong, PTL DEF Strong, Inv

-----------------------------------------------------------------------------
(* The refinement: one call, seen from outside                              *)

\* No leg gets ahead of the peer it listens to.
FlowOK ==
    /\ up.taken <= client.sent
    /\ kind = "server" /\ up.pc = "push" => client.sent # 0
    /\ down.relayed <= back.sent

\* A proxy whose legs return for it is done when it has returned.
OnceOK == kind # "bidi" /\ Returned => up.pc = "done" /\ down.pc \in {"off", "done"}

\* Why a call may fail once its stream is open.
Cause == client.gone \/ back.end # "none"

\* A failure that waits for its receiver has a cause.
failsIn(q) == (Len(q) > 0 /\ q[1] # "ok") \/ (Len(q) > 1 /\ q[2] # "ok")
CauseOK    == ~Returned /\ failsIn(errc) => Cause

\* What the refinement needs beside the invariant of the proxy.
Causal == FlowOK /\ OnceOK /\ CauseOK

\* Failures in short sequences.
LEMMA FailsInShort ==
    ASSUME NEW q
    PROVE  /\ Len(q) = 0 => ~failsIn(q)
           /\ Len(q) = 1 => (failsIn(q) <=> q[1] # "ok")
           /\ Len(q) = 2 => (failsIn(q) <=> q[1] # "ok" \/ q[2] # "ok")
BY DEF failsIn

LEMMA AppendFails ==
    ASSUME NEW q \in Seq(Results), NEW r \in Results, Len(q) \in {0, 1},
           failsIn(Append(q, r))
    PROVE  failsIn(q) \/ r # "ok"
<1>1. CASE Len(q) = 0
  <2>1. Len(Append(q, r)) = 1 /\ Append(q, r)[1] = r
    BY <1>1, AppendFirst, Zenon
  <2> QED BY <2>1, FailsInShort, Zenon
<1>2. CASE Len(q) = 1
  <2>1. Len(Append(q, r)) = 2 /\ Append(q, r)[1] = q[1] /\ Append(q, r)[2] = r
    BY <1>2, AppendSecond, Zenon
  <2> QED BY <1>2, <2>1, FailsInShort, Zenon
<1> QED BY <1>1, <1>2

LEMMA TailFails ==
    ASSUME NEW q \in Seq(Results), Len(q) \in {0, 1, 2}, q # << >>
    PROVE  /\ failsIn(Tail(q)) => failsIn(q)
           /\ Head(q) # "ok" => failsIn(q)
<1>1. Head(q) = q[1] /\ Len(q) # 0
  BY HeadFirst, Zenon
<1>2. CASE Len(q) = 1
  <2>1. Len(Tail(q)) = 0
    BY <1>2, TailOfOne, Zenon
  <2> QED BY <1>1, <1>2, <2>1, FailsInShort, Zenon
<1>3. CASE Len(q) = 2
  <2>1. Len(Tail(q)) = 1 /\ Tail(q)[1] = q[2]
    BY <1>3, TailOfTwo, Zenon
  <2> QED BY <1>1, <1>3, <2>1, FailsInShort, Zenon
<1> QED BY <1>1, <1>2, <1>3, Zenon

\* What a step of a peer does: one of five things, for a call that still waits.
LEMMA PeersMove ==
    ASSUME TypeOK, Peers
    PROVE  /\ ~Cancelled
           /\ \/ /\ ~client.half /\ back' = back
                 /\ client'.sent = client.sent + 1
                 /\ client'.half = client.half /\ client'.gone = client.gone
              \/ /\ ~client.half /\ back' = back /\ client'.sent = client.sent
                 /\ client'.half = TRUE /\ client'.gone = client.gone
              \/ /\ back' = back /\ client'.sent = client.sent
                 /\ client'.half = client.half /\ client'.gone = TRUE
              \/ /\ Running /\ client' = client
                 /\ back'.sent = back.sent + 1 /\ back'.end = back.end
              \/ /\ Running /\ client' = client /\ back'.sent = back.sent
                 /\ back'.end \in {"ok", "error", "lost"}
<1>1. CASE (ClientSend \/ ClientHalf \/ ClientGone)
           /\ UNCHANGED <<kind, back, stream, up, down, errc, joined, refs, held, result>>
  BY <1>1, Fields DEF ClientSend, ClientHalf, ClientGone, Client
<1>2. CASE BackSend /\ UNCHANGED <<kind, client, stream, up, down, errc, joined, refs, held, result>>
  BY <1>2, Fields DEF BackSend, Running, Over, Back
<1>3. ASSUME NEW how \in {"ok", "error", "lost"}, BackEnd(how),
             UNCHANGED <<kind, client, stream, up, down, errc, joined, refs, held, result>>
      PROVE  /\ client' = client /\ back'.sent = back.sent /\ back'.end = how
             /\ Running /\ ~Cancelled
  BY <1>3, Fields DEF BackEnd, Running, Over, Back
<1> QED BY <1>1, <1>2, <1>3 DEF Peers

\* Each counter follows the one before it.
LEMMA NextFlow ==
    ASSUME TypeOK, OpenOK, FlowOK, Next
    PROVE  FlowOK'
<1> USE Fields DEF FlowOK, same, peersSame
<1>1. CASE Warm \/ WarmFail \/ NewStream \/ NewStreamFail
  BY <1>1, WarmEffect, WarmFailEffect, NewStreamEffect, NewStreamFailEffect DEF OpenOK, upAt, downAt
<1>2. CASE Take
  BY <1>2, TakeEffect
<1>3. CASE TakeEnd
  BY <1>3, TakeEndEffect DEF upAt, downAt
<1>4. CASE TakeFail
  BY <1>4, TakeFailEffect DEF upAt, downAt
<1>5. CASE Push
  BY <1>5, PushEffect
<1>6. CASE PushFail
  BY <1>6, PushFailEffect DEF upAt, downAt
<1>7. CASE CloseSend
  BY <1>7, CloseSendEffect DEF downAt
<1>8. CASE Recv
  BY <1>8, RecvEffect
<1>9. CASE RecvEnd \/ SendFail
  BY <1>9, RecvEndEffect, SendFailEffect DEF downAt
<1>10. CASE Send
  BY <1>10, SendEffect
<1>11. CASE Join
  BY <1>11, JoinEffect
<1>12. CASE ClientRead
  BY <1>12, ClientReadEffect
<1>13. CASE BackRead
  BY <1>13, BackReadEffect
<1>14. CASE Peers
  <2>1. client'.sent \in {client.sent, client.sent + 1}
    BY <1>14, PeersMove
  <2>2. back'.sent \in {back.sent, back.sent + 1}
    BY <1>14, PeersMove
  <2>3. up' = up /\ down' = down /\ kind' = kind
    BY <1>14, PeersEffect
  <2>4. up.taken <= client'.sent /\ (client.sent # 0 => client'.sent # 0)
    BY <2>1
  <2>5. down.relayed <= back'.sent
    BY <2>2
  <2> QED BY <2>3, <2>4, <2>5
<1> QED BY <1>1, <1>2, <1>3, <1>4, <1>5, <1>6, <1>7, <1>8, <1>9, <1>10, <1>11, <1>12, <1>13,
           <1>14
        DEF Next, Open, Up, Down

\* A leg that returns for the proxy leaves nothing running.
LEMMA NextOnce ==
    ASSUME TypeOK, DownOK, OpenOK, ErrcOK, OnceOK, Next
    PROVE  OnceOK'
<1> USE Fields DEF OnceOK, Returned, same, ends
<1>1. CASE Warm \/ WarmFail \/ NewStream \/ NewStreamFail
  BY <1>1, WarmEffect, WarmFailEffect, NewStreamEffect, NewStreamFailEffect
     DEF OpenOK, Returned, upAt, downAt
<1>2. CASE Take \/ Push
  BY <1>2, TakeEffect, PushEffect
<1>3. CASE TakeEnd
  BY <1>3, TakeEndEffect DEF upAt, downAt
<1>4. CASE TakeFail
  BY <1>4, TakeFailEffect DEF upAt, downAt
<1>5. CASE PushFail
  BY <1>5, PushFailEffect DEF upAt, downAt
<1>6. CASE CloseSend
  BY <1>6, CloseSendEffect
<1>7. CASE Recv
  BY <1>7, RecvEffect
<1>8. CASE RecvEnd \/ SendFail
  <2>1. kind # "bidi" => up.pc = "done"
    BY <1>8, RecvEndEffect, SendFailEffect DEF DownOK, TypeOK, UpLeg
  <2> QED BY <1>8, <2>1, RecvEndEffect, SendFailEffect DEF downAt
<1>9. CASE Send
  <2>1. kind # "bidi" => up.pc = "done"
    BY <1>9, SendEffect DEF DownOK, TypeOK, UpLeg
  <2> QED BY <1>9, <2>1, SendEffect
<1>10. CASE Join
  BY <1>10, JoinEffect DEF ErrcOK
<1>11. CASE ClientRead \/ BackRead \/ Peers
  BY <1>11, ClientReadEffect, BackReadEffect, PeersEffect
<1> QED BY <1>1, <1>2, <1>3, <1>4, <1>5, <1>6, <1>7, <1>8, <1>9, <1>10, <1>11
        DEF Next, Open, Up, Down

\* A leg of a bidirectional stream that fails has a cause, unless nobody waits.
LEMMA NextCause ==
    ASSUME TypeOK, ErrcOK, OpenOK, CauseOK, Next
    PROVE  CauseOK'
<1>1. Cause => Cause'
  <2>1. client.gone => client'.gone
    BY WarmEffect, WarmFailEffect, NewStreamEffect, NewStreamFailEffect, TakeEffect, TakeEndEffect,
       TakeFailEffect, PushEffect, PushFailEffect, CloseSendEffect, RecvEffect, RecvEndEffect,
       SendEffect, SendFailEffect, JoinEffect, ClientReadEffect, BackReadEffect, PeersEffect
       DEF Next, Open, Up, Down, peersSame, same
  <2>2. back'.end = back.end \/ back.end = "none"
    BY WarmEffect, WarmFailEffect, NewStreamEffect, NewStreamFailEffect, TakeEffect, TakeEndEffect,
       TakeFailEffect, PushEffect, PushFailEffect, CloseSendEffect, RecvEffect, RecvEndEffect,
       SendEffect, SendFailEffect, JoinEffect, ClientReadEffect, BackReadEffect, PeersEffect
       DEF Next, Open, Up, Down, peersSame, same
  <2> QED BY <2>1, <2>2 DEF Cause
<1>2. CASE errc' = errc /\ (Returned => Returned')
  BY <1>1, <1>2 DEF CauseOK, failsIn
<1>3. ASSUME NEW r \in Results, kind = "bidi", ends(r), r # "ok" => Cause \/ Returned
      PROVE  CauseOK'
  <2>1. errc \in Seq(Results) /\ Len(errc) \in {0, 1}
    <3>1. ~(2 < 2)
      OBVIOUS
    <3> QED BY <1>3, <3>1, ErrcLen, Zenon DEF ends
  <2>2. failsIn(errc') => failsIn(errc) \/ r # "ok"
    BY <1>3, <2>1, AppendFails, Zenon DEF ends
  <2>3. Returned => Returned'
    BY <1>3 DEF ends, Returned
  <2>4. ASSUME failsIn(errc'), ~Returned' PROVE Cause'
    BY <1>1, <1>3, <2>2, <2>3, <2>4, Zenon DEF CauseOK
  <2> QED BY <2>4, Zenon DEF CauseOK, failsIn
<1>4. ASSUME kind # "bidi", NEW r \in Results, ends(r)
      PROVE  errc' = errc /\ Returned'
  BY <1>4 DEF ends, Returned, Results
<1>5. CASE Open
  BY <1>2, <1>5, WarmEffect, WarmFailEffect, NewStreamEffect, NewStreamFailEffect
     DEF Open, same, Returned
<1>6. CASE Take \/ Push \/ Recv \/ Send
  <2>1. errc' = errc /\ (Returned => Returned')
    BY <1>6, TakeEffect, PushEffect, RecvEffect, SendEffect DEF Returned
  <2> QED BY <1>2, <2>1
<1>7. CASE TakeEnd
  <2>1. CASE kind = "server"
    BY <1>2, <1>4, <1>7, <2>1, TakeEndEffect DEF Results
  <2>2. CASE kind # "server"
    BY <1>2, <1>7, <2>2, TakeEndEffect DEF Returned
  <2> QED BY <2>1, <2>2
<1>8. CASE TakeFail \/ SendFail
  <2>1. ends("gone") /\ Cancelled
    BY <1>8, TakeFailEffect, SendFailEffect
  <2> QED BY <1>2, <1>3, <1>4, <2>1 DEF Cancelled, Cause, Results
<1>9. CASE PushFail
  <2>1. Over
    BY <1>9, PushFailEffect
  <2>2. CASE kind = "server"
    BY <1>2, <1>9, <2>2, PushFailEffect DEF Returned
  <2>3. CASE kind # "server"
    BY <1>2, <1>3, <1>4, <1>9, <2>1, <2>3, PushFailEffect DEF Over, Cancelled, Cause, Results
  <2> QED BY <2>2, <2>3
<1>10. CASE CloseSend
  <2>1. CASE kind = "bidi"
    BY <1>3, <1>10, <2>1, CloseSendEffect DEF ends, Results
  <2>2. CASE kind # "bidi"
    BY <1>2, <1>10, <2>2, CloseSendEffect DEF Returned
  <2> QED BY <2>1, <2>2
<1>11. CASE RecvEnd
  <2>1. PICK r \in {"ok", "error", "lost", "gone"} :
              ends(r) /\ (r # "ok" => Cause \/ Returned)
    BY <1>11, RecvEndEffect DEF Cancelled, Cause
  <2> QED BY <1>2, <1>3, <1>4, <2>1 DEF Results
<1>12. CASE Join
  <2>1. ~Returned /\ errc # << >> /\ errc' = Tail(errc)
    BY <1>12, JoinEffect
  <2>2. failsIn(errc') => failsIn(errc)
    BY <2>1, ErrcLen, TailFails, Zenon
  <2> QED BY <1>1, <2>1, <2>2, Zenon DEF CauseOK, failsIn
<1>13. CASE ClientRead \/ BackRead \/ Peers
  BY <1>2, <1>13, ClientReadEffect, BackReadEffect, PeersEffect DEF Returned
<1> QED BY <1>5, <1>6, <1>7, <1>8, <1>9, <1>10, <1>11, <1>12, <1>13 DEF Next, Up, Down

\* What the reference and the result look like from outside.
LEMMA HeldIsSeen ==
    ASSUME RefOK
    PROVE  (reference = "held" <=> held) /\ (reference = "none" <=> stream = "none")
BY DEF RefOK, reference

LEMMA ReferenceKept ==
    ASSUME keepsRef, stream' = stream
    PROVE  reference' = reference
BY DEF keepsRef, reference

LEMMA ReferenceGiven ==
    ASSUME TypeOK, RefOK, releaseOnce, stream' = stream
    PROVE  reference' = IF reference = "held" THEN "over" ELSE reference
BY DEF RefOK, releaseOnce, reference

LEMMA Told == /\ told = "none" <=> ~Returned
              /\ told = "ok" <=> result = "ok"
              /\ result \notin {"none", "ok"} => told = "failed"
BY DEF told, Returned

\* Everything but the reference and the result that is seen from outside.
restKept == /\ kind' = kind /\ stream' = stream /\ peersSame
            /\ up'.pushed = up.pushed /\ down'.passed = down.passed

\* A step that nobody outside sees.
LEMMA Unseen ==
    ASSUME restKept, reference' = reference, result' = result
    PROVE  UNCHANGED Forwarded!vars
BY DEF restKept, peersSame, told, Forwarded!vars, Forwarded!clientVars, Forwarded!backendVars,
       Forwarded!callVars

\* The call fails.
LEMMA FailStep ==
    ASSUME TypeOK, RefOK, restKept, releaseOnce \/ (keepsRef /\ ~held),
           ~Returned, Returned', result' # "ok", Cause \/ stream # "open"
    PROVE  Forwarded!Fail
<1>1. reference' = IF reference = "held" THEN "over" ELSE reference
  BY ReferenceGiven, ReferenceKept, HeldIsSeen DEF restKept
<1>2. told = "none" /\ told' = "failed"
  BY Told DEF told, Returned
<1>3. Forwarded!Finish("failed")
  BY <1>1, <1>2 DEF Forwarded!Finish, Forwarded!clientVars, Forwarded!backendVars, restKept,
                    peersSame
<1> QED BY <1>3 DEF Forwarded!Fail, restKept, Cause

\* The call succeeds, perhaps with its last response.
LEMMA SucceedStep ==
    ASSUME TypeOK, RefOK, releaseOnce, kind' = kind, stream' = stream, peersSame,
           up'.pushed = up.pushed, down'.passed \in {down.passed, down.passed + 1},
           ~Returned, result' = "ok", NoFalseSuccess'
    PROVE  Forwarded!Succeed
<1>1. reference' = IF reference = "held" THEN "over" ELSE reference
  BY ReferenceGiven
<1>2. told = "none" /\ told' = "ok"
  BY Told DEF told
<1>3. Forwarded!Finish("ok")
  BY <1>1, <1>2 DEF Forwarded!Finish, Forwarded!clientVars, Forwarded!backendVars, peersSame
<1>4. /\ back.end = "ok" /\ down'.passed = back.sent
      /\ kind # "server" => client.half /\ up.pushed = client.sent
  BY DEF NoFalseSuccess, peersSame
<1>5. back.sent \in {down.passed, down.passed + 1}
  BY <1>4
<1> QED BY <1>3, <1>4, <1>5 DEF Forwarded!Succeed

\* The reference goes before the call does, or had gone already.
LEMMA ReleaseStep ==
    ASSUME TypeOK, RefOK, restKept, releaseOnce, result' = result,
           Returned \/ (stream = "open" /\ Cause)
    PROVE  Forwarded!Release \/ UNCHANGED Forwarded!vars
<1>1. reference' = IF reference = "held" THEN "over" ELSE reference
  BY ReferenceGiven DEF restKept
<1>2. CASE reference # "held"
  BY <1>1, <1>2, Unseen
<1>3. CASE reference = "held"
  <2>1. held /\ ~Returned
    BY <1>3, HeldIsSeen DEF RefOK
  <2>2. told = "none" /\ told' = told
    BY <2>1, Told DEF told
  <2> QED BY <1>1, <1>3, <2>1, <2>2
          DEF Forwarded!Release, Forwarded!clientVars, Forwarded!backendVars, restKept, peersSame,
              Cause
<1> QED BY <1>2, <1>3

\* The peers are the same inside and outside.
LEMMA PeersForward ==
    ASSUME TypeOK, RefOK, Peers
    PROVE  Forwarded!Next
<1>1. kind' = kind /\ stream' = stream /\ up' = up /\ down' = down
  BY PeersEffect DEF same
<1>2. reference' = reference
  BY PeersEffect, ReferenceKept DEF same
<1>3. told' = told
  BY PeersEffect DEF told
<1>4. Forwarded!Waiting
  BY PeersMove, Told DEF Forwarded!Waiting, Cancelled
<1>5. Running => Forwarded!Served
  BY HeldIsSeen DEF Running, Over, RefOK, Forwarded!Served
<1> USE <1>1, <1>2, <1>3, <1>4 DEF Forwarded!clientVars, Forwarded!backendVars, Forwarded!callVars
<1>6. CASE /\ ~client.half /\ back' = back
           /\ client'.sent = client.sent + 1
           /\ client'.half = client.half /\ client'.gone = client.gone
  BY <1>6 DEF Forwarded!Request, Forwarded!Next
<1>7. CASE /\ ~client.half /\ back' = back /\ client'.sent = client.sent
           /\ client'.half = TRUE /\ client'.gone = client.gone
  BY <1>7 DEF Forwarded!Close, Forwarded!Next
<1>8. CASE /\ back' = back /\ client'.sent = client.sent
           /\ client'.half = client.half /\ client'.gone = TRUE
  BY <1>8 DEF Forwarded!Leave, Forwarded!Next
<1>9. CASE /\ Running /\ client' = client
           /\ back'.sent = back.sent + 1 /\ back'.end = back.end
  BY <1>5, <1>9 DEF Forwarded!Respond, Forwarded!Next
<1>10. CASE /\ Running /\ client' = client /\ back'.sent = back.sent
            /\ back'.end \in {"ok", "error", "lost"}
  <2>1. Forwarded!End(back'.end)
    BY <1>5, <1>10 DEF Forwarded!End
  <2> QED BY <1>10, <2>1 DEF Forwarded!Next
<1> QED BY PeersMove, <1>6, <1>7, <1>8, <1>9, <1>10

\* Opening the stream.
LEMMA OpenForwards ==
    ASSUME TypeOK, OpenOK, RefOK, Open
    PROVE  Forwarded!Next
<1>1. CASE Warm
  <2>1. ~held /\ reference = "none" /\ stream = "none" /\ ~Returned
    BY <1>1, WarmEffect, HeldIsSeen DEF RefOK
  <2>2. refs' = 2 /\ reference' = "held"
    BY <1>1, <2>1, WarmEffect DEF RefOK, reference
  <2>3. told = "none" /\ told' = told
    BY <1>1, <2>1, WarmEffect DEF told, Returned
  <2>4. Forwarded!Reference
    BY <1>1, <2>1, <2>2, <2>3, WarmEffect
       DEF Forwarded!Reference, Forwarded!clientVars, Forwarded!backendVars, peersSame
  <2> QED BY <2>4 DEF Forwarded!Next
<1>2. CASE WarmFail
  <2>1. restKept /\ ~held /\ keepsRef /\ ~Returned /\ result' = "refused" /\ stream # "open"
    BY <1>2, WarmFailEffect DEF RefOK, restKept, same, upAt
  <2>2. Forwarded!Fail
    BY <2>1, FailStep DEF Returned
  <2> QED BY <2>2 DEF Forwarded!Next
<1>3. CASE NewStream
  <2>1. held /\ reference = "held" /\ stream = "warm" /\ ~Returned
    BY <1>3, NewStreamEffect, HeldIsSeen DEF RefOK
  <2>2. reference' = "held"
    BY <1>3, <2>1, NewStreamEffect DEF RefOK, reference, keepsRef
  <2>3. told = "none" /\ told' = told
    BY <1>3, <2>1, NewStreamEffect DEF told, Returned
  <2>4. up'.pushed = up.pushed /\ down'.passed = down.passed
    BY <1>3, NewStreamEffect, Fields DEF upAt, downAt
  <2>5. Forwarded!Open
    BY <1>3, <2>1, <2>2, <2>3, <2>4, NewStreamEffect
       DEF Forwarded!Open, Forwarded!clientVars, Forwarded!backendVars, peersSame
  <2> QED BY <2>5 DEF Forwarded!Next
<1>4. CASE NewStreamFail
  <2>1. restKept /\ releaseOnce /\ ~Returned /\ result' = "refused" /\ stream # "open"
    BY <1>4, NewStreamFailEffect DEF restKept, same, upAt
  <2>2. Forwarded!Fail
    BY <2>1, FailStep DEF Returned
  <2> QED BY <2>2 DEF Forwarded!Next
<1> QED BY <1>1, <1>2, <1>3, <1>4 DEF Open

\* A leg that fails ends the call or reports, giving the reference back or not.
LEMMA EndForwards ==
    ASSUME TypeOK, RefOK, restKept, NEW r \in Results \ {"ok"}, ends(r),
           kind # "bidi" => ~Returned /\ (releaseOnce \/ (keepsRef /\ ~held)),
           releaseOnce \/ keepsRef,
           (kind # "bidi" /\ stream # "open") \/ Cause \/ Returned,
           kind = "bidi" => stream = "open"
    PROVE  Forwarded!Next \/ UNCHANGED Forwarded!vars
<1>1. CASE kind # "bidi"
  <2>1. ~Returned /\ Returned' /\ result' # "ok" /\ (Cause \/ stream # "open")
    BY <1>1 DEF ends, Returned, Results
  <2>2. Forwarded!Fail
    BY <1>1, <2>1, FailStep
  <2> QED BY <2>2 DEF Forwarded!Next
<1>2. CASE kind = "bidi"
  <2>1. result' = result
    BY <1>2 DEF ends
  <2>2. CASE releaseOnce
    BY <1>2, <2>1, <2>2, ReleaseStep DEF Forwarded!Next
  <2>3. CASE keepsRef
    BY <2>1, <2>3, ReferenceKept, Unseen DEF restKept
  <2> QED BY <2>2, <2>3
<1> QED BY <1>1, <1>2

\* The request leg.
LEMMA UpForwards ==
    ASSUME Strong, Causal, Up
    PROVE  Forwarded!Next \/ UNCHANGED Forwarded!vars
<1> USE DEF Strong, Inv, Causal
<1>1. kind = "bidi" => stream = "open"
  BY Fields DEF Up, Take, TakeEnd, TakeFail, Push, PushFail, CloseSend, OpenOK
<1>2. CASE Take
  BY <1>2, TakeEffect, ReferenceKept, Unseen DEF restKept, same
<1>3. CASE TakeEnd
  <2>1. CASE kind = "server"
    <3>1. stream = "none" /\ ~held /\ ~Returned
      BY <1>3, <2>1, TakeEndEffect DEF RefOK, OnceOK
    <3>2. restKept /\ keepsRef /\ ends("eof")
      BY <1>3, <2>1, TakeEndEffect DEF restKept, same, upAt, downAt
    <3> QED BY <2>1, <3>1, <3>2, EndForwards DEF Results
  <2>2. CASE kind # "server"
    <3>1. restKept /\ keepsRef /\ result' = result
      BY <1>3, <2>2, TakeEndEffect DEF restKept, same, upAt
    <3> QED BY <3>1, ReferenceKept, Unseen DEF restKept
  <2> QED BY <2>1, <2>2
<1>4. CASE TakeFail
  <2>1. restKept /\ ends("gone") /\ Cancelled /\ up.pc = "take"
    BY <1>4, TakeFailEffect, Fields DEF restKept, same, upAt, downAt
  <2>2. kind # "bidi" => ~Returned
    BY <2>1 DEF OnceOK
  <2>3. IF kind = "client" THEN releaseOnce ELSE keepsRef
    BY <1>4, TakeFailEffect
  <2>4. kind = "server" => ~held
    BY <2>1 DEF RefOK
  <2>5. Cause \/ Returned
    BY <2>1 DEF Cancelled, Cause
  <2> QED BY <1>1, <2>1, <2>2, <2>3, <2>4, <2>5, EndForwards, Fields DEF Results
<1>5. CASE Push
  <2>1. /\ up.pc = "push" /\ stream = "open" /\ ~Cancelled
        /\ same /\ peersSame /\ keepsRef /\ down' = down /\ result' = result
        /\ up'.pushed = up.pushed + 1
    BY <1>5, PushEffect
  <2>2. up.pushed < client.sent
    BY <2>1, Fields DEF UpOK, FlowOK
  <2>3. held \/ back.end # "none"
    BY <2>1 DEF RefOK, Over
  <2>4. reference' = reference /\ told' = told
    BY <2>1, ReferenceKept DEF told, same
  <2>5. Forwarded!Waiting /\ (reference = "held" <=> held)
    BY <2>1, Told, HeldIsSeen DEF Cancelled, Forwarded!Waiting
  <2>6. Forwarded!Forward
    BY <2>1, <2>2, <2>3, <2>4, <2>5
       DEF Forwarded!Forward, Forwarded!clientVars, Forwarded!backendVars, Forwarded!callVars,
           same, peersSame
  <2> QED BY <2>6 DEF Forwarded!Next
<1>6. CASE PushFail
  <2>1. up.pc = "push" /\ stream = "open" /\ Over /\ same /\ peersSame
    BY <1>6, PushFailEffect
  <2>2. CASE kind = "server"
    <3>1. restKept /\ keepsRef /\ result' = result
      BY <1>6, <2>2, PushFailEffect DEF restKept, same, upAt
    <3> QED BY <3>1, ReferenceKept, Unseen DEF restKept
  <2>3. CASE kind # "server"
    <3>1. restKept /\ releaseOnce /\ ends("eof")
      BY <1>6, <2>3, PushFailEffect, Fields DEF restKept, same, upAt, downAt
    <3>2. kind # "bidi" => ~Returned
      BY <2>1 DEF OnceOK
    <3>3. Cause \/ Returned
      BY <2>1 DEF Over, Cancelled, Cause
    <3> QED BY <1>1, <3>1, <3>2, <3>3, EndForwards DEF Results
  <2> QED BY <2>2, <2>3
<1>7. CASE CloseSend
  <2>1. restKept /\ keepsRef /\ result' = result
    BY <1>7, CloseSendEffect DEF restKept, same, downAt
  <2> QED BY <2>1, ReferenceKept, Unseen DEF restKept
<1> QED BY <1>2, <1>3, <1>4, <1>5, <1>6, <1>7 DEF Up

\* The response leg.
LEMMA DownForwards ==
    ASSUME Strong, Strong', Causal, Down
    PROVE  Forwarded!Next \/ UNCHANGED Forwarded!vars
<1> USE DEF Strong, Inv, Causal
<1>1. stream = "open"
  BY Fields DEF Down, Recv, RecvEnd, Send, SendFail, OpenOK
<1>2. kind # "bidi" => ~Returned
  BY DEF Down, Recv, RecvEnd, Send, SendFail, OnceOK
<1>3. CASE Recv
  BY <1>3, RecvEffect, ReferenceKept, Unseen DEF restKept, same
<1>4. CASE RecvEnd
  <2>1. restKept /\ releaseOnce
    BY <1>4, RecvEndEffect DEF restKept, same, downAt
  <2>2. ASSUME ends("ok")
        PROVE  Forwarded!Next \/ UNCHANGED Forwarded!vars
    <3>1. CASE kind = "bidi"
      <4>1. result' = result
        BY <2>2, <3>1 DEF ends
      <4>2. back.end = "ok" \/ Cause \/ Returned
        BY <1>4, RecvEndEffect DEF Cancelled, Cause
      <4>3. Cause \/ Returned
        BY <4>2 DEF Cause
      <4> QED BY <1>1, <2>1, <4>1, <4>3, ReleaseStep DEF Forwarded!Next
    <3>2. CASE kind # "bidi"
      <4>1. result' = "ok"
        BY <2>2, <3>2 DEF ends
      <4>2. Forwarded!Succeed
        BY <1>2, <2>1, <3>2, <4>1, SucceedStep DEF restKept
      <4> QED BY <4>2 DEF Forwarded!Next
    <3> QED BY <3>1, <3>2
  <2>3. ASSUME NEW r \in {"error", "lost", "gone"}, ends(r),
               back.end \in {"error", "lost"} \/ Cancelled
        PROVE  Forwarded!Next \/ UNCHANGED Forwarded!vars
    <3>1. Cause \/ Returned
      BY <2>3 DEF Cancelled, Cause
    <3> QED BY <1>1, <1>2, <2>1, <2>3, <3>1, EndForwards DEF Results
  <2> QED BY <1>4, <2>2, <2>3, RecvEndEffect
<1>5. CASE Send
  <2>1. /\ down.pc = "send" /\ ~Cancelled
        /\ same /\ peersSame /\ up' = up
        /\ down'.passed = down.passed + 1
        /\ IF kind = "client" THEN result' = "ok" /\ releaseOnce ELSE result' = result /\ keepsRef
    BY <1>5, SendEffect
  <2>2. CASE kind = "client"
    <3>1. Forwarded!Succeed
      BY <1>2, <2>1, <2>2, SucceedStep DEF same
    <3> QED BY <3>1 DEF Forwarded!Next
  <2>3. CASE kind # "client"
    <3>1. down.passed < back.sent
      BY <2>1, Fields DEF DownOK, FlowOK
    <3>2. reference' = reference /\ told' = told
      BY <2>1, <2>3, ReferenceKept DEF told, same
    <3>3. Forwarded!Waiting
      BY <2>1, Told DEF Cancelled, Forwarded!Waiting
    <3>4. Forwarded!Return
      BY <2>1, <3>1, <3>2, <3>3
         DEF Forwarded!Return, Forwarded!clientVars, Forwarded!backendVars, Forwarded!callVars,
             same, peersSame
    <3> QED BY <3>4 DEF Forwarded!Next
  <2> QED BY <2>2, <2>3
<1>6. CASE SendFail
  <2>1. restKept /\ ends("gone") /\ Cancelled
    BY <1>6, SendFailEffect DEF restKept, same, downAt
  <2>2. IF kind = "bidi" THEN keepsRef ELSE releaseOnce
    BY <1>6, SendFailEffect
  <2>3. Cause \/ Returned
    BY <2>1 DEF Cancelled, Cause
  <2> QED BY <1>1, <1>2, <2>1, <2>2, <2>3, EndForwards DEF Results
<1> QED BY <1>3, <1>4, <1>5, <1>6 DEF Down

\* The receiver of the results.
LEMMA JoinForwards ==
    ASSUME Strong, Strong', Causal, Join
    PROVE  Forwarded!Next \/ UNCHANGED Forwarded!vars
<1> USE DEF Strong, Inv, Causal
<1>1. /\ ~Returned /\ errc # << >> /\ restKept
      /\ IF Head(errc) # "ok" \/ joined = 1 THEN result' = Head(errc) /\ releaseOnce
                                            ELSE result' = result /\ keepsRef
  BY JoinEffect DEF restKept
<1>2. CASE Head(errc) = "ok" /\ joined # 1
  BY <1>1, <1>2, ReferenceKept, Unseen DEF restKept
<1>3. CASE Head(errc) = "ok" /\ joined = 1
  <2>1. Forwarded!Succeed
    BY <1>1, <1>3, SucceedStep DEF restKept
  <2> QED BY <2>1 DEF Forwarded!Next
<1>4. CASE Head(errc) # "ok"
  <2>1. Cause
    <3>1. failsIn(errc)
      BY <1>1, <1>4, ErrcLen, TailFails, Zenon
    <3> QED BY <1>1, <3>1 DEF CauseOK
  <2>2. Head(errc) \in Results
    <3>1. errc \in Seq(Results)
      BY ErrcLen
    <3> QED BY <1>1, <3>1, HeadTailProperties, Zenon
  <2>3. Returned'
    BY <1>1, <1>4, <2>2 DEF Returned, Results
  <2>4. Forwarded!Fail
    BY <1>1, <1>4, <2>1, <2>3, FailStep
  <2> QED BY <2>4 DEF Forwarded!Next
<1> QED BY <1>2, <1>3, <1>4

\* Every step of the proxy is a step of the stream it promises, or none.
LEMMA StepForwards ==
    ASSUME Strong, Strong', Causal, [Next]_vars
    PROVE  [Forwarded!Next]_(Forwarded!vars)
<1>1. CASE Open
  BY <1>1, OpenForwards DEF Strong, Inv
<1>2. CASE Up
  BY <1>2, UpForwards
<1>3. CASE Down
  BY <1>3, DownForwards
<1>4. CASE Join
  BY <1>4, JoinForwards
<1>5. CASE ClientRead
  BY <1>5, ClientReadEffect, ReferenceKept
     DEF Strong, same, told, Forwarded!vars, Forwarded!clientVars, Forwarded!backendVars,
         Forwarded!callVars
<1>6. CASE BackRead
  BY <1>6, BackReadEffect, ReferenceKept
     DEF Strong, same, told, Forwarded!vars, Forwarded!clientVars, Forwarded!backendVars,
         Forwarded!callVars
<1>7. CASE Peers
  BY <1>7, PeersForward DEF Strong, Inv
<1>8. CASE UNCHANGED vars
  BY <1>8 DEF vars, peers, reference, told, Forwarded!vars, Forwarded!clientVars,
              Forwarded!backendVars, Forwarded!callVars
<1> QED BY <1>1, <1>2, <1>3, <1>4, <1>5, <1>6, <1>7, <1>8 DEF Next

\* Whatever the two legs, the channel between them and the four places that
\* release do, what the peers and the pool see is one call: one reference, one
\* outcome, no failure without a cause and nothing after the end.
THEOREM ProxyForwards == Spec => IsForwardedStream
<1>1. Init => Causal
  BY EmptySeq DEF Init, Causal, FlowOK, OnceOK, CauseOK, failsIn, Returned
<1>2. Strong /\ Causal /\ [Next]_vars => Causal'
  <2>1. ASSUME Strong, Causal, Next PROVE Causal'
    BY <2>1, NextFlow, NextOnce, NextCause DEF Strong, Inv, Causal
  <2>2. ASSUME Causal, UNCHANGED vars PROVE Causal'
    BY <2>2 DEF vars, peers, Causal, FlowOK, OnceOK, CauseOK, Cause, failsIn, Returned
  <2> QED BY <2>1, <2>2
<1>3. Strong /\ Strong' /\ Causal /\ [Next]_vars => [Forwarded!Next]_(Forwarded!vars)
  BY StepForwards
<1>4. Init => Forwarded!Init
  BY DEF Init, Kinds, reference, told, Forwarded!Init
<1> QED BY <1>1, <1>2, <1>3, <1>4, ProxyStrong, PTL
        DEF Spec, IsForwardedStream, Forwarded!Spec

=============================================================================
