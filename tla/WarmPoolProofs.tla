--------------------------- MODULE WarmPoolProofs ---------------------------
(***************************************************************************)
(* Proofs about WarmPool, for any number of instances and calls and any    *)
(* limit.                                                                  *)
(*                                                                         *)
(* A scan decides under one lock and acts under another, so what it chose  *)
(* by may have changed when it acts.  Two facts survive the change and     *)
(* carry both properties: whatever the scan passed over is in the history  *)
(* used (PassedOver), and as long as its victim has not been used, nothing *)
(* unused is older than it (VictimOldest).                                 *)
(***************************************************************************)
EXTENDS WarmPool, SequenceTheorems, TLAPS

-----------------------------------------------------------------------------
(* The inductive invariant                                                  *)

\* What a call or the eviction is at work on is an instance.
AtWork ==
    /\ \A c \in Call : call[c].pc # "idle" => call[c].inst \in Inst
    /\ scan.pc = "evict" => scan.victim \in Inst

\* While a scan is on: an instance that is referenced, or that was tried and
\* still has its mark, was used, switched or spared since the scan began.
PassedOver ==
    scan.pc # "off" => Referenced \subseteq used /\ pool \intersect scan.tried \subseteq used

\* A victim whose clock has not been renewed is still the oldest of those that
\* were left alone.
VictimOldest ==
    scan.pc = "evict" /\ scan.victim \notin fresh =>
        \A i \in pool : Older(i, scan.victim) => i \in used

Inv == TypeOK /\ AtWork /\ PassedOver /\ VictimOldest

-----------------------------------------------------------------------------
(* The order of the clocks: what RemoveFirst and Append do to it            *)

\* i comes before j in the sequence s.
Before(s, i, j) == \E m, n \in DOMAIN s : m < n /\ s[m] = i /\ s[n] = j

\* Where e is in s, the sequence without it.
LEMMA RemoveFirstAt ==
    ASSUME NEW S, NEW s \in Seq(S), IsInjective(s), NEW k \in 1..Len(s)
    PROVE  RemoveFirst(s, s[k]) = RemoveAt(s, k)
<1> DEFINE e == s[k]
           I == {i \in 1..Len(s) : s[i] = e}
<1>1. I = {k}
  BY DEF IsInjective
<1>2. Min(I) = k
  BY <1>1 DEF Min
<1>3. SelectInSeq(s, LAMBDA v : v = e) = Min(I)
  BY <1>1, Zenon DEF SelectInSeq
<1> QED
  BY <1>2, <1>3, Zenon DEF RemoveFirst

\* The sequence without its k-th element: the later ones move up by one.
LEMMA RemoveAtElements ==
    ASSUME NEW S, NEW s \in Seq(S), NEW k \in 1..Len(s)
    PROVE  /\ RemoveAt(s, k) \in Seq(S)
           /\ Len(RemoveAt(s, k)) = Len(s) - 1
           /\ \A m \in 1..(Len(s) - 1) : RemoveAt(s, k)[m] = IF m < k THEN s[m] ELSE s[m + 1]
<1> DEFINE a == SubSeq(s, 1, k - 1)
           b == SubSeq(s, k + 1, Len(s))
<1>1. Len(s) \in Nat /\ \A m \in 1..Len(s) : s[m] \in S
  OBVIOUS
<1>2. /\ a \in Seq(S) /\ Len(a) = k - 1
      /\ \A m \in 1..(k - 1) : a[m] = s[m]
  <2>1. /\ a \in Seq(S)
        /\ Len(a) = IF 1 <= k - 1 THEN k - 1 - 1 + 1 ELSE 0
        /\ \A m \in 1 .. (k - 1) - 1 + 1 : a[m] = s[1 + m - 1]
    BY <1>1, SubSeqProperties
  <2> QED
    BY <2>1
<1>3. /\ b \in Seq(S) /\ Len(b) = Len(s) - k
      /\ \A m \in 1..(Len(s) - k) : b[m] = s[m + k]
  <2>1. /\ b \in Seq(S)
        /\ Len(b) = IF k + 1 <= Len(s) THEN Len(s) - (k + 1) + 1 ELSE 0
        /\ \A m \in 1 .. Len(s) - (k + 1) + 1 : b[m] = s[k + 1 + m - 1]
    BY <1>1, SubSeqProperties
  <2> QED
    BY <1>1, <2>1
<1>4. /\ a \o b \in Seq(S) /\ Len(a \o b) = Len(a) + Len(b)
      /\ \A m \in 1..(Len(a) + Len(b)) : (a \o b)[m] = IF m <= Len(a) THEN a[m] ELSE b[m - Len(a)]
  BY <1>2, <1>3, ConcatProperties
<1>5. RemoveAt(s, k) = a \o b
  BY DEF RemoveAt
<1> HIDE DEF a, b
<1>6. ASSUME NEW m \in 1..(Len(s) - 1)
      PROVE  (a \o b)[m] = IF m < k THEN s[m] ELSE s[m + 1]
  <2>1. CASE m < k
    BY <1>1, <1>2, <1>3, <1>4, <2>1
  <2>2. CASE m >= k
    <3>1. m - (k - 1) \in 1..(Len(s) - k) /\ (m - (k - 1)) + k = m + 1
      BY <1>1, <2>2
    <3>2. (a \o b)[m] = b[m - (k - 1)]
      BY <1>1, <1>2, <1>3, <1>4, <2>2
    <3> QED
      BY <1>3, <2>2, <3>1, <3>2
  <2>3. m < k \/ m >= k
    OBVIOUS
  <2> QED
    BY <2>1, <2>2, <2>3
<1> QED
  BY <1>1, <1>2, <1>3, <1>4, <1>5, <1>6

\* Taking an instance out of the order leaves the order of the others.
LEMMA OrderRemove ==
    ASSUME NEW S, NEW s \in Seq(S), IsInjective(s), NEW e \in S
    PROVE  /\ RemoveFirst(s, e) \in Seq(S)
           /\ IsInjective(RemoveFirst(s, e))
           /\ ToSet(RemoveFirst(s, e)) = ToSet(s) \ {e}
           /\ \A i, j : Before(RemoveFirst(s, e), i, j) => Before(s, i, j)
<1> DEFINE r == RemoveFirst(s, e)
<1>1. CASE \A k \in 1..Len(s) : s[k] # e
  <2>1. r = s
    BY <1>1 DEF RemoveFirst
  <2>2. ToSet(s) = ToSet(s) \ {e}
    BY <1>1 DEF ToSet
  <2> QED
    BY <2>1, <2>2
<1>2. CASE \E k \in 1..Len(s) : s[k] = e
  <2>1. PICK k \in 1..Len(s) : s[k] = e
    BY <1>2
  <2>2. /\ r \in Seq(S) /\ Len(r) = Len(s) - 1
        /\ \A m \in 1..(Len(s) - 1) : r[m] = IF m < k THEN s[m] ELSE s[m + 1]
    <3>1. r = RemoveAt(s, k)
      BY <2>1, RemoveFirstAt
    <3> HIDE DEF r
    <3> QED
      BY <3>1, RemoveAtElements
  <2> DEFINE at(m) == IF m < k THEN m ELSE m + 1
  <2>3. /\ Len(s) \in Nat /\ DOMAIN s = 1..Len(s) /\ DOMAIN r = 1..(Len(s) - 1)
    BY <2>2
  <2>4. \A m \in DOMAIN r : at(m) \in DOMAIN s /\ at(m) # k /\ r[m] = s[at(m)]
    BY <2>2, <2>3
  <2>5. \A m, n \in DOMAIN r : /\ m < n => at(m) < at(n)
                               /\ at(m) = at(n) => m = n
    BY <2>3
  <2>6. \A n \in DOMAIN s : n # k => \E m \in DOMAIN r : at(m) = n
    <3> SUFFICES ASSUME NEW n \in DOMAIN s, n # k PROVE \E m \in DOMAIN r : at(m) = n
      OBVIOUS
    <3>1. CASE n < k
      <4>1. n \in DOMAIN r /\ at(n) = n
        BY <2>3, <3>1
      <4> QED
        BY <4>1
    <3>2. CASE n > k
      <4>1. n - 1 \in DOMAIN r /\ at(n - 1) = n
        BY <2>3, <3>2
      <4> QED
        BY <4>1
    <3> QED
      BY <2>3, <3>1, <3>2
  <2> HIDE DEF r, at
  <2>7. IsInjective(r)
    BY <2>4, <2>5 DEF IsInjective
  <2>8. ToSet(r) = ToSet(s) \ {e}
    BY <2>1, <2>3, <2>4, <2>6 DEF ToSet, IsInjective
  <2>9. \A i, j : Before(r, i, j) => Before(s, i, j)
    BY <2>4, <2>5 DEF Before
  <2> QED
    BY <2>2, <2>7, <2>8, <2>9 DEF r
<1> QED
  BY <1>1, <1>2

\* An instance whose clock is renewed goes to the end of the order.
LEMMA OrderTouch ==
    ASSUME NEW S, NEW s \in Seq(S), IsInjective(s), NEW e \in S
    PROVE  LET t == Append(RemoveFirst(s, e), e) IN
           /\ t \in Seq(S) /\ IsInjective(t) /\ ToSet(t) = ToSet(s) \union {e}
           /\ \A i, j : j # e /\ Before(t, i, j) => Before(s, i, j)
<1> DEFINE r == RemoveFirst(s, e)
           t == Append(r, e)
<1>1. /\ r \in Seq(S) /\ IsInjective(r) /\ ToSet(r) = ToSet(s) \ {e}
      /\ \A i, j : Before(r, i, j) => Before(s, i, j)
  BY OrderRemove
<1> HIDE DEF r
<1>2. /\ t \in Seq(S) /\ Len(t) = Len(r) + 1 /\ t[Len(r) + 1] = e
      /\ \A m \in 1..Len(r) : t[m] = r[m]
  BY <1>1, AppendProperties
<1>3. /\ Len(r) \in Nat /\ DOMAIN r = 1..Len(r) /\ DOMAIN t = 1..(Len(r) + 1)
  BY <1>1, <1>2
<1> HIDE DEF t
<1>4. \A m \in DOMAIN r : r[m] # e
  BY <1>1 DEF ToSet
<1>5. IsInjective(t)
  BY <1>1, <1>2, <1>3, <1>4 DEF IsInjective
<1>6. ToSet(t) = ToSet(r) \union {e}
  <2>1. DOMAIN t = DOMAIN r \union {Len(r) + 1}
    BY <1>3
  <2> QED
    BY <1>2, <1>3, <2>1 DEF ToSet
<1>7. ToSet(t) = ToSet(s) \union {e}
  BY <1>1, <1>6
<1>8. ASSUME NEW i, NEW j, j # e, Before(t, i, j) PROVE Before(s, i, j)
  <2>1. PICK m, n \in DOMAIN t : m < n /\ t[m] = i /\ t[n] = j
    BY <1>8 DEF Before
  <2>2. m \in DOMAIN r /\ n \in DOMAIN r
    BY <1>2, <1>3, <1>8, <2>1
  <2>3. Before(r, i, j)
    BY <1>2, <1>3, <2>1, <2>2 DEF Before
  <2> QED
    BY <1>1, <2>3
<1> QED
  BY <1>2, <1>5, <1>7, <1>8 DEF r, t

\* No instance is both before and after another.
LEMMA BeforeStrict ==
    ASSUME NEW S, NEW s \in Seq(S), IsInjective(s), NEW i, NEW j, Before(s, i, j)
    PROVE  i # j /\ ~Before(s, j, i)
<1>1. PICK m, n \in DOMAIN s : m < n /\ s[m] = i /\ s[n] = j
  BY DEF Before
<1>2. DOMAIN s \subseteq Int
  OBVIOUS
<1>3. i # j
  BY <1>1, <1>2 DEF IsInjective
<1>4. ASSUME Before(s, j, i) PROVE FALSE
  <2>1. PICK p, q \in DOMAIN s : p < q /\ s[p] = j /\ s[q] = i
    BY <1>4 DEF Before
  <2>2. p = n /\ q = m
    BY <1>1, <2>1 DEF IsInjective
  <2> QED
    BY <1>1, <1>2, <2>1, <2>2
<1> QED
  BY <1>3, <1>4

-----------------------------------------------------------------------------
(* What the operations have in common                                       *)

\* The order of two instances is Before in lru.
LEMMA OlderBefore == \A i, j : Older(i, j) <=> Before(lru, i, j)
BY DEF Older, Before

\* The fields of a call and of the scan.
LEMMA Fields ==
    ASSUME TypeOK
    PROVE  /\ \A c \in Call : /\ call[c] = [pc |-> call[c].pc, inst |-> call[c].inst]
                              /\ call[c].pc \in {"idle", "starting", "serving"}
                              /\ call[c].inst \in MaybeInst
           /\ scan.pc \in {"off", "idle", "lru", "evict"}
           /\ scan.todo \subseteq Inst /\ scan.tried \subseteq Inst /\ scan.victim \in MaybeInst
BY DEF TypeOK

\* A renewed clock: the instance is the youngest, and fresh while a scan is on.
LEMMA TouchOrder ==
    ASSUME TypeOK, NEW i \in Inst, touch(i)
    PROVE  /\ lru' \in Seq(Inst) /\ IsInjective(lru') /\ warm' = warm \union {i}
           /\ fresh' \subseteq Inst
           /\ scan.pc # "off" => fresh' = fresh \union {i}
           /\ \A j, k : Older(j, k)' /\ k # i => Older(j, k)
<1>1. lru \in Seq(Inst) /\ IsInjective(lru) /\ fresh \subseteq Inst
  BY DEF TypeOK
<1>2. lru' = Append(RemoveFirst(lru, i), i)
  BY DEF touch
<1>3. /\ lru' \in Seq(Inst) /\ IsInjective(lru') /\ ToSet(lru') = ToSet(lru) \union {i}
      /\ \A j, k : k # i /\ Before(lru', j, k) => Before(lru, j, k)
  BY <1>1, <1>2, OrderTouch
<1>4. \A j, k : Older(j, k)' <=> Before(lru', j, k)
  BY DEF Older, Before
<1> QED
  BY <1>1, <1>3, <1>4, OlderBefore DEF touch, sinceScan, warm

\* An instance whose process is gone.
LEMMA RemoveOrder ==
    ASSUME TypeOK, NEW i \in Inst, lru' = RemoveFirst(lru, i)
    PROVE  /\ lru' \in Seq(Inst) /\ IsInjective(lru') /\ warm' = warm \ {i}
           /\ \A j, k : Older(j, k)' => Older(j, k)
<1>1. lru \in Seq(Inst) /\ IsInjective(lru)
  BY DEF TypeOK
<1>2. /\ lru' \in Seq(Inst) /\ IsInjective(lru') /\ ToSet(lru') = ToSet(lru) \ {i}
      /\ \A j, k : Before(lru', j, k) => Before(lru, j, k)
  BY <1>1, OrderRemove
<1>3. \A j, k : Older(j, k)' <=> Before(lru', j, k)
  BY DEF Older, Before
<1> QED
  BY <1>2, <1>3, OlderBefore DEF warm

\* The calls on an instance whose process is gone are over; the others go on.
LEMMA UntrackCalls ==
    ASSUME TypeOK, AtWork, NEW i \in Inst, untrack(i)
    PROVE  /\ call' \in [Call -> [pc: {"idle", "starting", "serving"}, inst: MaybeInst]]
           /\ \A c \in Call : call'[c].pc # "idle" => call'[c].inst \in Inst
           /\ Referenced' = Referenced \ {i}
<1>1. NoCall \in [pc: {"idle", "starting", "serving"}, inst: MaybeInst] /\ NoCall.pc = "idle"
  BY DEF NoCall, MaybeInst
<1>2. call' = [c \in Call |-> IF c \in Serving(i) THEN NoCall ELSE call[c]]
  BY DEF untrack
<1>3. \A c \in Call : call'[c] = IF c \in Serving(i) THEN NoCall ELSE call[c]
  BY <1>2
<1>4. call' \in [Call -> [pc: {"idle", "starting", "serving"}, inst: MaybeInst]]
  BY <1>1, <1>2 DEF TypeOK
<1>5. \A c \in Call : call'[c].pc # "idle" => call'[c].inst \in Inst
  BY <1>1, <1>3 DEF AtWork
<1>6. \A c \in Call : call'[c].pc = "serving" <=> call[c].pc = "serving" /\ call[c].inst # i
  BY <1>1, <1>3 DEF Serving
<1>7. \A c \in Call : call'[c].pc = "serving" => call'[c].inst = call[c].inst
  BY <1>1, <1>3
<1> QED
  BY <1>4, <1>5, <1>6, <1>7 DEF Referenced, Serving

\* A step that leaves the scan alone keeps what the scan relies on, when what it
\* references or marks is counted as used and only renewed clocks move back.
LEMMA ScanUndisturbed ==
    ASSUME Inv, TypeOK', UNCHANGED scan,
           scan.pc # "off" =>
               /\ used \subseteq used' /\ fresh \subseteq fresh'
               /\ pool' \ pool \subseteq used' /\ Referenced' \ Referenced \subseteq used'
               /\ \A j, k : Older(j, k)' /\ k \notin fresh' => Older(j, k)
    PROVE  PassedOver' /\ VictimOldest'
<1>1. PassedOver'
  BY DEF Inv, PassedOver
<1>2. VictimOldest'
  <2> SUFFICES ASSUME scan.pc = "evict", scan.victim \notin fresh',
                      NEW j \in pool', Older(j, scan.victim)'
               PROVE  j \in used'
    BY DEF VictimOldest
  <2>1. Older(j, scan.victim) /\ scan.victim \notin fresh /\ used \subseteq used'
    OBVIOUS
  <2>2. CASE j \in pool
    BY <2>1, <2>2 DEF Inv, VictimOldest
  <2>3. CASE j \notin pool
    BY <2>3
  <2> QED
    BY <2>2, <2>3
<1> QED
  BY <1>1, <1>2

\* A call that becomes e changes nothing of the others.
LEMMA SetCall ==
    ASSUME TypeOK, AtWork, NEW c \in Call,
           NEW pc \in {"idle", "starting", "serving"}, NEW i \in MaybeInst,
           call' = [call EXCEPT ![c] = [pc |-> pc, inst |-> i]],
           pc # "idle" => i \in Inst
    PROVE  /\ call' \in [Call -> [pc: {"idle", "starting", "serving"}, inst: MaybeInst]]
           /\ \A d \in Call : call'[d].pc # "idle" => call'[d].inst \in Inst
           /\ Referenced' \subseteq Referenced \union (IF pc = "serving" THEN {i} ELSE {})
<1>1. /\ call' \in [Call -> [pc: {"idle", "starting", "serving"}, inst: MaybeInst]]
      /\ call'[c] = [pc |-> pc, inst |-> i]
      /\ \A d \in Call : d # c => call'[d] = call[d]
  BY DEF TypeOK
<1>2. \A d \in Call : call'[d].pc # "idle" => call'[d].inst \in Inst
  BY <1>1 DEF AtWork
<1>3. ASSUME NEW j \in Referenced', j \notin Referenced PROVE pc = "serving" /\ j = i
  <2>1. PICK d \in Call : call'[d].pc = "serving" /\ call'[d].inst = j
    BY <1>3 DEF Referenced, Serving
  <2>2. d = c
    BY <1>1, <1>3, <2>1 DEF Referenced, Serving
  <2> QED
    BY <1>1, <2>1, <2>2
<1> QED
  BY <1>1, <1>2, <1>3

-----------------------------------------------------------------------------
(* Calls and operations keep the invariant                                  *)

\* A call of a warm instance renews its clock and counts as a use of it.
LEMMA WarmHitInv ==
    ASSUME Inv, NEW c \in Call, NEW i \in Inst, WarmHit(c, i)
    PROVE  Inv'
<1>1. TypeOK /\ AtWork
  BY DEF Inv
<1>2. /\ call' = [call EXCEPT ![c] = [pc |-> "serving", inst |-> i]] /\ touch(i)
      /\ used' = sinceScan(used, i) /\ i \in warm
      /\ UNCHANGED <<pool, resident, gate, scan>>
  BY DEF WarmHit
<1>3. /\ call' \in [Call -> [pc: {"idle", "starting", "serving"}, inst: MaybeInst]]
      /\ \A d \in Call : call'[d].pc # "idle" => call'[d].inst \in Inst
      /\ Referenced' \subseteq Referenced \union {i}
  BY <1>1, <1>2, SetCall DEF MaybeInst
<1>4. /\ lru' \in Seq(Inst) /\ IsInjective(lru') /\ warm' = warm \union {i}
      /\ fresh' \subseteq Inst /\ (scan.pc # "off" => fresh' = fresh \union {i})
      /\ \A j, k : Older(j, k)' /\ k # i => Older(j, k)
  BY <1>1, <1>2, TouchOrder
<1>5. used' \subseteq Inst /\ (scan.pc # "off" => used' = used \union {i})
  BY <1>1, <1>2 DEF sinceScan, TypeOK
<1>6. TypeOK'
  BY <1>1, <1>2, <1>3, <1>4, <1>5 DEF TypeOK
<1>7. AtWork'
  BY <1>1, <1>2, <1>3 DEF AtWork
<1>8. PassedOver' /\ VictimOldest'
  BY <1>2, <1>3, <1>4, <1>5, <1>6, ScanUndisturbed
<1> QED
  BY <1>6, <1>7, <1>8 DEF Inv

\* A cold start takes the gate; nothing of the pool changes yet.
LEMMA ColdStartInv ==
    ASSUME Inv, NEW c \in Call, NEW i \in Inst, ColdStart(c, i)
    PROVE  Inv'
<1>1. TypeOK /\ AtWork
  BY DEF Inv
<1>2. /\ call' = [call EXCEPT ![c] = [pc |-> "starting", inst |-> i]]
      /\ gate' = [gate EXCEPT ![i] = "start"]
      /\ UNCHANGED <<lru, pool, resident, scan, fresh, used>>
  BY DEF ColdStart
<1>3. /\ call' \in [Call -> [pc: {"idle", "starting", "serving"}, inst: MaybeInst]]
      /\ \A d \in Call : call'[d].pc # "idle" => call'[d].inst \in Inst
      /\ Referenced' \subseteq Referenced
  BY <1>1, <1>2, SetCall DEF MaybeInst
<1>4. TypeOK'
  BY <1>1, <1>2, <1>3 DEF TypeOK, warm
<1>5. AtWork'
  BY <1>1, <1>2, <1>3 DEF AtWork
<1>6. PassedOver' /\ VictimOldest'
  BY <1>2, <1>3, <1>4, ScanUndisturbed DEF Older
<1> QED
  BY <1>4, <1>5, <1>6 DEF Inv

\* A process that is spawned is the youngest, and used.
LEMMA SpawnInv ==
    ASSUME Inv, NEW c \in Call, Spawn(c)
    PROVE  Inv'
<1> DEFINE i == call[c].inst
<1>1. TypeOK /\ AtWork
  BY DEF Inv
<1>2. /\ call[c].pc = "starting" /\ gate' = [gate EXCEPT ![i] = "spawned"]
      /\ pool' = (IF i \in resident THEN pool ELSE pool \union {i})
      /\ touch(i) /\ used' = sinceScan(used, i)
      /\ UNCHANGED <<resident, call, scan>>
  BY DEF Spawn
<1>3. i \in Inst
  BY <1>1, <1>2 DEF AtWork
<1> HIDE DEF i
<1>4. /\ lru' \in Seq(Inst) /\ IsInjective(lru') /\ warm' = warm \union {i}
      /\ fresh' \subseteq Inst /\ (scan.pc # "off" => fresh' = fresh \union {i})
      /\ \A j, k : Older(j, k)' /\ k # i => Older(j, k)
  BY <1>1, <1>2, <1>3, TouchOrder
<1>5. used' \subseteq Inst /\ (scan.pc # "off" => used' = used \union {i})
  BY <1>1, <1>2, <1>3 DEF sinceScan, TypeOK
<1>6. TypeOK'
  BY <1>1, <1>2, <1>3, <1>4, <1>5 DEF TypeOK
<1>7. AtWork'
  BY <1>1, <1>2 DEF AtWork
<1>8. Referenced' = Referenced
  BY <1>2 DEF Referenced, Serving
<1>9. PassedOver' /\ VictimOldest'
  BY <1>2, <1>4, <1>5, <1>6, <1>8, ScanUndisturbed
<1> QED
  BY <1>6, <1>7, <1>9 DEF Inv

\* A start that is over: the call has its reference and counts as a use, or its
\* caller gave up.
LEMMA StartDoneInv ==
    ASSUME Inv, NEW c \in Call, StartDone(c)
    PROVE  Inv'
<1> DEFINE i == call[c].inst
<1>1. TypeOK /\ AtWork
  BY DEF Inv
<1>2. /\ call[c].pc = "starting" /\ gate' = [gate EXCEPT ![i] = "free"]
      /\ UNCHANGED <<lru, pool, resident, scan, fresh>>
  BY DEF StartDone
<1>3. i \in Inst
  BY <1>1, <1>2 DEF AtWork
<1>4. PICK gaveUp \in BOOLEAN :
          /\ call' = [call EXCEPT ![c] = IF gaveUp THEN NoCall ELSE [@ EXCEPT !.pc = "serving"]]
          /\ used' = IF gaveUp THEN used ELSE used \union {i}
  BY DEF StartDone
<1>5. /\ call' \in [Call -> [pc: {"idle", "starting", "serving"}, inst: MaybeInst]]
      /\ \A d \in Call : call'[d].pc # "idle" => call'[d].inst \in Inst
      /\ Referenced' \ Referenced \subseteq used'
  <2>1. CASE gaveUp
    <3>1. call' = [call EXCEPT ![c] = [pc |-> "idle", inst |-> None]]
      BY <1>4, <2>1 DEF NoCall
    <3> QED
      BY <1>1, <3>1, SetCall DEF MaybeInst
  <2>2. CASE ~gaveUp
    <3>1. call' = [call EXCEPT ![c] = [pc |-> "serving", inst |-> i]]
      <4>1. /\ call[c] = [pc |-> call[c].pc, inst |-> i]
            /\ call' = [call EXCEPT ![c] = [call[c] EXCEPT !.pc = "serving"]]
        BY <1>1, <1>4, <2>2, Fields
      <4>2. [call[c] EXCEPT !.pc = "serving"] = [pc |-> "serving", inst |-> i]
        BY <4>1
      <4> QED
        BY <4>1, <4>2
    <3>2. Referenced' \subseteq Referenced \union {i}
      BY <1>1, <1>3, <3>1, SetCall DEF MaybeInst
    <3> QED
      BY <1>1, <1>3, <1>4, <2>2, <3>1, <3>2, SetCall DEF MaybeInst
  <2> QED
    BY <2>1, <2>2
<1>6. used \subseteq used' /\ used' \subseteq Inst
  BY <1>1, <1>3, <1>4 DEF TypeOK
<1>7. TypeOK'
  BY <1>1, <1>2, <1>5, <1>6 DEF TypeOK, warm
<1>8. AtWork'
  BY <1>1, <1>2, <1>5 DEF AtWork
<1>9. PassedOver' /\ VictimOldest'
  BY <1>2, <1>5, <1>6, <1>7, ScanUndisturbed DEF Older
<1> QED
  BY <1>7, <1>8, <1>9 DEF Inv

\* A start that failed leaves nothing behind.
LEMMA StartFailInv ==
    ASSUME Inv, NEW c \in Call, StartFail(c)
    PROVE  Inv'
<1> DEFINE i == call[c].inst
<1>1. TypeOK /\ AtWork
  BY DEF Inv
<1>2. /\ call[c].pc = "starting" /\ gate' = [gate EXCEPT ![i] = "free"]
      /\ lru' = RemoveFirst(lru, i) /\ pool' = pool \ {i}
      /\ call' = [call EXCEPT ![c] = [pc |-> "idle", inst |-> None]]
      /\ UNCHANGED <<resident, scan, fresh, used>>
  BY DEF StartFail, NoCall
<1>3. i \in Inst
  BY <1>1, <1>2 DEF AtWork
<1>4. /\ call' \in [Call -> [pc: {"idle", "starting", "serving"}, inst: MaybeInst]]
      /\ \A d \in Call : call'[d].pc # "idle" => call'[d].inst \in Inst
      /\ Referenced' \subseteq Referenced
  BY <1>1, <1>2, SetCall DEF MaybeInst
<1> HIDE DEF i
<1>5. /\ lru' \in Seq(Inst) /\ IsInjective(lru') /\ warm' = warm \ {i}
      /\ \A j, k : Older(j, k)' => Older(j, k)
  BY <1>1, <1>2, <1>3, RemoveOrder
<1>6. TypeOK'
  BY <1>1, <1>2, <1>4, <1>5 DEF TypeOK
<1>7. AtWork'
  BY <1>1, <1>2, <1>4 DEF AtWork
<1>8. PassedOver' /\ VictimOldest'
  BY <1>2, <1>4, <1>5, <1>6, ScanUndisturbed
<1> QED
  BY <1>6, <1>7, <1>8 DEF Inv

\* A message of a stream renews the clock of its instance.
LEMMA TouchInstanceInv ==
    ASSUME Inv, NEW c \in Call, TouchInstance(c)
    PROVE  Inv'
<1> DEFINE i == call[c].inst
<1>1. TypeOK /\ AtWork
  BY DEF Inv
<1>2. /\ call[c].pc = "serving" /\ i \in warm /\ touch(i)
      /\ UNCHANGED <<pool, resident, gate, call, scan, used>>
  BY DEF TouchInstance
<1>3. i \in Inst
  BY <1>1, <1>2 DEF AtWork
<1> HIDE DEF i
<1>4. /\ lru' \in Seq(Inst) /\ IsInjective(lru') /\ warm' = warm \union {i}
      /\ fresh' \subseteq Inst /\ (scan.pc # "off" => fresh' = fresh \union {i})
      /\ \A j, k : Older(j, k)' /\ k # i => Older(j, k)
  BY <1>1, <1>2, <1>3, TouchOrder
<1>5. TypeOK'
  BY <1>1, <1>2, <1>4 DEF TypeOK
<1>6. AtWork'
  BY <1>1, <1>2 DEF AtWork
<1>7. Referenced' = Referenced
  BY <1>2 DEF Referenced, Serving
<1>8. PassedOver' /\ VictimOldest'
  BY <1>2, <1>4, <1>5, <1>7, ScanUndisturbed
<1> QED
  BY <1>5, <1>6, <1>8 DEF Inv

\* A call that ends gives its reference back.
LEMMA ReleaseRefInv ==
    ASSUME Inv, NEW c \in Call, releaseRef(c)
    PROVE  Inv'
<1>1. TypeOK /\ AtWork
  BY DEF Inv
<1>2. /\ call' = [call EXCEPT ![c] = [pc |-> "idle", inst |-> None]]
      /\ UNCHANGED <<lru, pool, resident, gate, scan, fresh, used>>
  BY DEF releaseRef, NoCall
<1>3. /\ call' \in [Call -> [pc: {"idle", "starting", "serving"}, inst: MaybeInst]]
      /\ \A d \in Call : call'[d].pc # "idle" => call'[d].inst \in Inst
      /\ Referenced' \subseteq Referenced
  BY <1>1, <1>2, SetCall DEF MaybeInst
<1>4. TypeOK'
  BY <1>1, <1>2, <1>3 DEF TypeOK, warm
<1>5. AtWork'
  BY <1>1, <1>2, <1>3 DEF AtWork
<1>6. PassedOver' /\ VictimOldest'
  BY <1>2, <1>3, <1>4, ScanUndisturbed DEF Older
<1> QED
  BY <1>4, <1>5, <1>6 DEF Inv

\* A process that exits takes its mark and its references with it.
LEMMA ExitInv ==
    ASSUME Inv, NEW i \in Inst, Exit(i)
    PROVE  Inv'
<1>1. TypeOK /\ AtWork
  BY DEF Inv
<1>2. /\ untrack(i) /\ lru' = RemoveFirst(lru, i) /\ pool' = pool \ {i}
      /\ UNCHANGED <<resident, gate, scan, fresh, used>>
  BY DEF Exit, untrack
<1>3. /\ call' \in [Call -> [pc: {"idle", "starting", "serving"}, inst: MaybeInst]]
      /\ \A c \in Call : call'[c].pc # "idle" => call'[c].inst \in Inst
      /\ Referenced' = Referenced \ {i}
  BY <1>1, <1>2, UntrackCalls
<1>4. /\ lru' \in Seq(Inst) /\ IsInjective(lru') /\ warm' = warm \ {i}
      /\ \A j, k : Older(j, k)' => Older(j, k)
  BY <1>1, <1>2, RemoveOrder
<1>5. TypeOK'
  BY <1>1, <1>2, <1>3, <1>4 DEF TypeOK
<1>6. AtWork'
  BY <1>1, <1>2, <1>3 DEF AtWork
<1>7. PassedOver' /\ VictimOldest'
  BY <1>2, <1>3, <1>4, <1>5, ScanUndisturbed
<1> QED
  BY <1>5, <1>6, <1>7 DEF Inv

\* A switch of the mode marks or unmarks the process and counts as a use.
LEMMA SwitchBeginInv ==
    ASSUME Inv, NEW i \in Inst, SwitchBegin(i)
    PROVE  Inv'
<1>1. TypeOK /\ AtWork
  BY DEF Inv
<1>2. /\ i \in warm /\ gate' = [gate EXCEPT ![i] = "switch"]
      /\ pool' = (IF i \in resident THEN pool \union {i} ELSE pool \ {i})
      /\ used' = sinceScan(used, i)
      /\ UNCHANGED <<resident, lru, call, scan, fresh>>
  BY DEF SwitchBegin
<1>3. used' \subseteq Inst /\ (scan.pc # "off" => used' = used \union {i})
  BY <1>1, <1>2 DEF sinceScan, TypeOK
<1>4. TypeOK'
  BY <1>1, <1>2, <1>3 DEF TypeOK, warm
<1>5. AtWork'
  BY <1>1, <1>2 DEF AtWork
<1>6. Referenced' = Referenced
  BY <1>2 DEF Referenced, Serving
<1>7. PassedOver' /\ VictimOldest'
  BY <1>2, <1>3, <1>4, <1>6, ScanUndisturbed DEF Older
<1> QED
  BY <1>4, <1>5, <1>7 DEF Inv

\* The end of a switch towards scale-to-zero renews the clock, whether or not the
\* row is written.
LEMMA SwitchEndInv ==
    ASSUME Inv, NEW i \in Inst, SwitchEnd(i)
    PROVE  Inv'
<1>1. TypeOK /\ AtWork
  BY DEF Inv
<1>2. /\ gate' = [gate EXCEPT ![i] = "free"]
      /\ (IF i \in resident THEN touch(i) ELSE UNCHANGED <<lru, fresh>>)
      /\ resident' \subseteq Inst
      /\ UNCHANGED <<pool, call, scan, used>>
  BY <1>1 DEF SwitchEnd, TypeOK
<1>3. /\ lru' \in Seq(Inst) /\ IsInjective(lru') /\ warm \subseteq warm'
      /\ fresh' \subseteq Inst /\ (scan.pc # "off" => fresh \subseteq fresh')
      /\ scan.pc # "off" => \A j, k : Older(j, k)' /\ k \notin fresh' => Older(j, k)
  <2>1. CASE i \in resident
    BY <1>1, <1>2, <2>1, TouchOrder
  <2>2. CASE i \notin resident
    BY <1>1, <1>2, <2>2 DEF TypeOK, Older, warm
  <2> QED
    BY <2>1, <2>2
<1>4. TypeOK'
  BY <1>1, <1>2, <1>3 DEF TypeOK
<1>5. AtWork'
  BY <1>1, <1>2 DEF AtWork
<1>6. Referenced' = Referenced
  BY <1>2 DEF Referenced, Serving
<1>7. PassedOver' /\ VictimOldest'
  BY <1>2, <1>3, <1>4, <1>6, ScanUndisturbed
<1> QED
  BY <1>4, <1>5, <1>7 DEF Inv

-----------------------------------------------------------------------------
(* The scan keeps the invariant                                             *)

\* The history starts with what is referenced or being switched.
LEMMA BeginScanInv ==
    ASSUME Inv, BeginScan
    PROVE  Inv'
<1>1. TypeOK /\ AtWork
  BY DEF Inv
<1>2. PICK n \in 0..Len(lru) :
          scan' = [scan EXCEPT !.pc = "idle", !.tried = {},
                     !.todo = (pool \intersect {lru[k] : k \in 1..n}) \ Referenced]
  BY DEF BeginScan
<1>3. /\ fresh' = {} /\ used' = Referenced \union {i \in Inst : gate[i] = "switch"}
      /\ UNCHANGED <<lru, pool, resident, gate, call>>
  BY DEF BeginScan
<1>4. pool \subseteq Inst
  BY <1>1 DEF TypeOK, warm, ToSet
<1>5. /\ scan' = [pc |-> "idle", tried |-> {}, victim |-> scan.victim,
                  todo |-> (pool \intersect {lru[k] : k \in 1..n}) \ Referenced]
      /\ scan'.pc = "idle" /\ scan'.tried = {}
  BY <1>1, <1>2 DEF TypeOK
<1>6. Referenced' = Referenced /\ Referenced \subseteq Inst
  BY <1>3 DEF Referenced, Serving
<1>7. TypeOK'
  <2>1. /\ scan' \in [pc: {"off", "idle", "lru", "evict"}, todo: SUBSET Inst,
                      tried: SUBSET Inst, victim: MaybeInst]
    BY <1>1, <1>4, <1>5, Fields
  <2> QED
    BY <1>1, <1>3, <1>6, <2>1 DEF TypeOK, warm
<1>8. AtWork' /\ PassedOver' /\ VictimOldest'
  BY <1>1, <1>3, <1>5, <1>6 DEF AtWork, PassedOver, VictimOldest
<1> QED
  BY <1>7, <1>8 DEF Inv

\* An instance that is parked leaves the pool, and nobody referenced it.
LEMMA ParkedFacts ==
    ASSUME TypeOK, AtWork, NEW i \in Inst, parked(i)
    PROVE  /\ lru' \in Seq(Inst) /\ IsInjective(lru') /\ warm' = warm \ {i}
           /\ pool' = pool \ {i} /\ UNCHANGED used
           /\ call' \in [Call -> [pc: {"idle", "starting", "serving"}, inst: MaybeInst]]
           /\ \A c \in Call : call'[c].pc # "idle" => call'[c].inst \in Inst
           /\ Referenced' = Referenced
           /\ \A j, k : Older(j, k)' => Older(j, k)
<1>1. untrack(i) /\ lru' = RemoveFirst(lru, i) /\ pool' = pool \ {i} /\ UNCHANGED used
  BY DEF parked, untrack
<1>2. i \notin Referenced
  BY DEF parked, stillIdle
<1>3. /\ lru' \in Seq(Inst) /\ IsInjective(lru') /\ warm' = warm \ {i}
      /\ \A j, k : Older(j, k)' => Older(j, k)
  BY <1>1, RemoveOrder
<1>4. /\ call' \in [Call -> [pc: {"idle", "starting", "serving"}, inst: MaybeInst]]
      /\ \A c \in Call : call'[c].pc # "idle" => call'[c].inst \in Inst
      /\ Referenced' = Referenced \ {i}
  BY <1>1, UntrackCalls
<1>5. Referenced' = Referenced
  BY <1>2, <1>4
<1> QED
  BY <1>1, <1>3, <1>4, <1>5

\* An instance that is spared counts as used.
LEMMA SparedFacts ==
    ASSUME TypeOK, scan.pc # "off", NEW i \in Inst, spared(i)
    PROVE  /\ used' = used \union {i}
           /\ lru' = lru /\ warm' = warm /\ pool' = pool /\ call' = call
           /\ Referenced' = Referenced
           /\ \A j, k : Older(j, k)' => Older(j, k)
BY DEF spared, sinceScan, warm, Referenced, Serving, Older

\* The idle stopper.
LEMMA ParkIdleInv ==
    ASSUME Inv, NEW i \in Inst, ParkIdle(i)
    PROVE  Inv'
<1>1. TypeOK /\ AtWork /\ PassedOver
  BY DEF Inv
<1>2. scan.pc = "idle" /\ UNCHANGED <<resident, gate, fresh>>
  BY DEF ParkIdle
<1>3. scan = [pc |-> scan.pc, todo |-> scan.todo, tried |-> scan.tried, victim |-> scan.victim]
  BY <1>1 DEF TypeOK
<1>4. CASE /\ parked(i)
           /\ scan' = [scan EXCEPT !.todo = @ \ {i}, !.tried = @ \union {i}]
  <2>1. /\ lru' \in Seq(Inst) /\ IsInjective(lru') /\ warm' = warm \ {i}
        /\ pool' = pool \ {i} /\ UNCHANGED used
        /\ call' \in [Call -> [pc: {"idle", "starting", "serving"}, inst: MaybeInst]]
        /\ \A c \in Call : call'[c].pc # "idle" => call'[c].inst \in Inst
        /\ Referenced' = Referenced
    BY <1>1, <1>4, ParkedFacts
  <2>2. /\ scan' \in [pc: {"off", "idle", "lru", "evict"}, todo: SUBSET Inst,
                      tried: SUBSET Inst, victim: MaybeInst]
        /\ scan'.pc = "idle" /\ scan'.tried = scan.tried \union {i}
    BY <1>1, <1>2, <1>4 DEF TypeOK
  <2>3. TypeOK'
    BY <1>1, <1>2, <2>1, <2>2 DEF TypeOK
  <2>4. AtWork' /\ PassedOver' /\ VictimOldest'
    BY <1>1, <1>2, <2>1, <2>2 DEF AtWork, PassedOver, VictimOldest
  <2> QED
    BY <2>3, <2>4 DEF Inv
<1>5. CASE spared(i) /\ scan' = [scan EXCEPT !.todo = @ \ {i}]
  <2>1. /\ used' = used \union {i} /\ lru' = lru /\ warm' = warm /\ pool' = pool
        /\ call' = call /\ Referenced' = Referenced
    BY <1>1, <1>2, <1>5, SparedFacts
  <2>2. /\ scan' \in [pc: {"off", "idle", "lru", "evict"}, todo: SUBSET Inst,
                      tried: SUBSET Inst, victim: MaybeInst]
        /\ scan'.pc = "idle" /\ scan'.tried = scan.tried
    BY <1>1, <1>2, <1>5 DEF TypeOK
  <2>3. TypeOK'
    BY <1>1, <1>2, <2>1, <2>2 DEF TypeOK
  <2>4. AtWork' /\ PassedOver' /\ VictimOldest'
    BY <1>1, <1>2, <2>1, <2>2 DEF AtWork, PassedOver, VictimOldest
  <2> QED
    BY <2>3, <2>4 DEF Inv
<1> QED
  BY <1>4, <1>5 DEF ParkIdle

\* The idle stopper is done.
LEMMA IdleDoneInv ==
    ASSUME Inv, IdleDone
    PROVE  Inv'
<1>1. TypeOK /\ AtWork /\ PassedOver
  BY DEF Inv
<1>2. /\ scan.pc = "idle" /\ scan' = [scan EXCEPT !.pc = "lru"]
      /\ UNCHANGED <<lru, pool, resident, gate, call, fresh, used>>
  BY DEF IdleDone
<1>3. /\ scan' \in [pc: {"off", "idle", "lru", "evict"}, todo: SUBSET Inst,
                    tried: SUBSET Inst, victim: MaybeInst]
      /\ scan'.pc = "lru" /\ scan'.tried = scan.tried
  BY <1>1, <1>2 DEF TypeOK
<1>4. TypeOK'
  BY <1>1, <1>2, <1>3 DEF TypeOK, warm
<1>5. AtWork' /\ PassedOver' /\ VictimOldest'
  BY <1>1, <1>2, <1>3 DEF AtWork, PassedOver, VictimOldest, Referenced, Serving
<1> QED
  BY <1>4, <1>5 DEF Inv

\* Whatever is older than the oldest candidate is no candidate, and so was passed
\* over.
LEMMA ChooseVictimInv ==
    ASSUME Inv, ChooseVictim
    PROVE  Inv'
<1>1. TypeOK /\ AtWork /\ PassedOver
  BY DEF Inv
<1>2. scan.pc = "lru" /\ UNCHANGED <<lru, pool, resident, gate, call>>
  BY DEF ChooseVictim
<1>3. pool \subseteq Inst
  BY <1>1 DEF TypeOK, warm, ToSet
<1>4. CASE scan' = NoScan /\ fresh' = {} /\ used' = {}
  <2>1. /\ scan' \in [pc: {"off", "idle", "lru", "evict"}, todo: SUBSET Inst,
                      tried: SUBSET Inst, victim: MaybeInst]
        /\ scan'.pc = "off"
    BY <1>4 DEF NoScan, MaybeInst
  <2>2. TypeOK'
    BY <1>1, <1>2, <1>4, <2>1 DEF TypeOK, warm
  <2>3. AtWork' /\ PassedOver' /\ VictimOldest'
    BY <1>1, <1>2, <2>1 DEF AtWork, PassedOver, VictimOldest
  <2> QED
    BY <2>2, <2>3 DEF Inv
<1>5. ASSUME NEW v \in candidates, \A i \in candidates \ {v} : Older(v, i),
             scan' = [scan EXCEPT !.pc = "evict", !.victim = v], UNCHANGED <<fresh, used>>
      PROVE  Inv'
  <2>1. v \in Inst
    BY <1>3 DEF candidates
  <2>2. /\ scan' \in [pc: {"off", "idle", "lru", "evict"}, todo: SUBSET Inst,
                      tried: SUBSET Inst, victim: MaybeInst]
        /\ scan'.pc = "evict" /\ scan'.tried = scan.tried /\ scan'.victim = v
    BY <1>1, <1>5, <2>1 DEF TypeOK, MaybeInst
  <2>3. Referenced' = Referenced /\ \A j, k : Older(j, k)' <=> Older(j, k)
    BY <1>2 DEF Referenced, Serving, Older
  <2>4. TypeOK'
    BY <1>1, <1>2, <1>5, <2>2 DEF TypeOK, warm
  <2>5. AtWork' /\ PassedOver'
    BY <1>1, <1>2, <1>5, <2>1, <2>2, <2>3 DEF AtWork, PassedOver
  <2>6. VictimOldest'
    <3> SUFFICES ASSUME NEW i \in pool, Older(i, v) PROVE i \in used
      BY <1>2, <1>5, <2>2, <2>3 DEF VictimOldest
    <3>1. i # v /\ ~Older(v, i)
      BY <1>1, BeforeStrict, OlderBefore DEF TypeOK
    <3>2. i \notin candidates
      BY <1>5, <3>1
    <3>3. i \in scan.tried \union Referenced
      BY <3>2 DEF candidates
    <3> QED
      BY <1>1, <1>2, <3>3 DEF PassedOver
  <2> QED
    BY <2>4, <2>5, <2>6 DEF Inv
<1> QED
  BY <1>4, <1>5 DEF ChooseVictim

\* The eviction.
LEMMA EvictInv ==
    ASSUME Inv, Evict
    PROVE  Inv'
<1> DEFINE v == scan.victim
<1>1. TypeOK /\ AtWork /\ PassedOver
  BY DEF Inv
<1>2. /\ scan.pc = "evict" /\ UNCHANGED <<resident, gate, fresh>>
      /\ scan' = [scan EXCEPT !.pc = "lru", !.victim = None, !.tried = @ \union {v}]
      /\ parked(v) \/ spared(v)
  BY DEF Evict
<1>3. v \in Inst
  BY <1>1, <1>2 DEF AtWork
<1>4. /\ scan' \in [pc: {"off", "idle", "lru", "evict"}, todo: SUBSET Inst,
                    tried: SUBSET Inst, victim: MaybeInst]
      /\ scan'.pc = "lru" /\ scan'.tried = scan.tried \union {v}
  BY <1>1, <1>2, <1>3 DEF TypeOK, MaybeInst
<1> HIDE DEF v
<1>5. CASE parked(v)
  <2>1. /\ lru' \in Seq(Inst) /\ IsInjective(lru') /\ warm' = warm \ {v}
        /\ pool' = pool \ {v} /\ UNCHANGED used
        /\ call' \in [Call -> [pc: {"idle", "starting", "serving"}, inst: MaybeInst]]
        /\ \A c \in Call : call'[c].pc # "idle" => call'[c].inst \in Inst
        /\ Referenced' = Referenced
    BY <1>1, <1>3, <1>5, ParkedFacts
  <2>2. TypeOK'
    BY <1>1, <1>2, <1>4, <2>1 DEF TypeOK
  <2>3. AtWork' /\ PassedOver' /\ VictimOldest'
    BY <1>1, <1>2, <1>4, <2>1 DEF AtWork, PassedOver, VictimOldest
  <2> QED
    BY <2>2, <2>3 DEF Inv
<1>6. CASE spared(v)
  <2>1. /\ used' = used \union {v} /\ lru' = lru /\ warm' = warm /\ pool' = pool
        /\ call' = call /\ Referenced' = Referenced
    BY <1>1, <1>2, <1>3, <1>6, SparedFacts
  <2>2. TypeOK'
    BY <1>1, <1>2, <1>3, <1>4, <2>1 DEF TypeOK
  <2>3. AtWork' /\ PassedOver' /\ VictimOldest'
    BY <1>1, <1>2, <1>4, <2>1 DEF AtWork, PassedOver, VictimOldest
  <2> QED
    BY <2>2, <2>3 DEF Inv
<1> QED
  BY <1>2, <1>5, <1>6

-----------------------------------------------------------------------------
(* The theorems                                                             *)

\* Nothing is warm at first.
LEMMA InitInv == Init => Inv
<1> SUFFICES ASSUME Init PROVE Inv
  OBVIOUS
<1>1. NoCall \in [pc: {"idle", "starting", "serving"}, inst: MaybeInst] /\ NoCall.pc = "idle"
  BY DEF NoCall, MaybeInst
<1>2. /\ NoScan \in [pc: {"off", "idle", "lru", "evict"}, todo: SUBSET Inst,
                     tried: SUBSET Inst, victim: MaybeInst]
      /\ NoScan.pc = "off"
  BY DEF NoScan, MaybeInst
<1>3. << >> \in Seq(Inst) /\ IsInjective(<< >>)
  BY DEF IsInjective
<1>4. TypeOK
  BY <1>1, <1>2, <1>3 DEF Init, TypeOK
<1>5. AtWork /\ PassedOver /\ VictimOldest
  BY <1>1, <1>2 DEF Init, AtWork, PassedOver, VictimOldest
<1> QED
  BY <1>4, <1>5 DEF Inv

\* Every step keeps the invariant.
LEMMA NextInv == Inv /\ [Next]_vars => Inv'
<1> SUFFICES ASSUME Inv, [Next]_vars PROVE Inv'
  OBVIOUS
<1>1. ASSUME NEW c \in Call, NEW i \in Inst, WarmHit(c, i) PROVE Inv'
  BY <1>1, WarmHitInv
<1>2. ASSUME NEW c \in Call, NEW i \in Inst, ColdStart(c, i) PROVE Inv'
  BY <1>2, ColdStartInv
<1>3. ASSUME NEW c \in Call, Starting(c) PROVE Inv'
  BY <1>3, SpawnInv, StartDoneInv, StartFailInv DEF Starting
<1>4. ASSUME NEW c \in Call, TouchInstance(c) PROVE Inv'
  BY <1>4, TouchInstanceInv
<1>5. ASSUME NEW c \in Call, releaseRef(c) PROVE Inv'
  BY <1>5, ReleaseRefInv
<1>6. ASSUME NEW i \in Inst, Exit(i) PROVE Inv'
  BY <1>6, ExitInv
<1>7. ASSUME NEW i \in Switching, SwitchBegin(i) \/ SwitchEnd(i) PROVE Inv'
  BY <1>7, SwitchingAssumption, SwitchBeginInv, SwitchEndInv
<1>8. CASE BeginScan
  BY <1>8, BeginScanInv
<1>9. CASE Scan
  BY <1>9, IdleDoneInv, ChooseVictimInv DEF Scan
<1>10. CASE Park
  BY <1>10, EvictInv, ParkIdleInv DEF Park
<1>11. CASE UNCHANGED vars
  BY <1>11 DEF vars, Inv, TypeOK, AtWork, PassedOver, VictimOldest, Referenced, Serving,
               Older, warm
<1> QED
  BY <1>1, <1>2, <1>3, <1>4, <1>5, <1>6, <1>7, <1>8, <1>9, <1>10, <1>11 DEF Next

\* The invariant of the pool.
LEMMA Invariant == Spec => []Inv
BY InitInv, NextInv, PTL DEF Spec

\* The pool holds only tracked processes, each instance at one place of the order,
\* and what the scan works from is well formed (scaletozero.go:147-316).
THEOREM TypeCorrect == Spec => []TypeOK
<1>1. Inv => TypeOK
  BY DEF Inv
<1> QED
  BY <1>1, Invariant, PTL

\* Only the scan's own steps move it.
LEMMA ScanSteps ==
    ASSUME [Next]_vars, scan' # scan
    PROVE  BeginScan \/ IdleDone \/ ChooseVictim \/ Park
<1>1. \A c \in Call : /\ \A j \in Inst : ~WarmHit(c, j) /\ ~ColdStart(c, j)
                      /\ ~Starting(c) /\ ~TouchInstance(c) /\ ~releaseRef(c)
  BY DEF WarmHit, ColdStart, Starting, Spawn, StartDone, StartFail, TouchInstance, releaseRef
<1>2. \A j \in Inst : ~Exit(j) /\ ~SwitchBegin(j) /\ ~SwitchEnd(j)
  BY DEF Exit, SwitchBegin, SwitchEnd
<1>3. ~UNCHANGED vars
  BY DEF vars
<1> QED
  BY <1>1, <1>2, <1>3, SwitchingAssumption DEF Next, Scan

\* A step that parks the victim passes over nothing that was left alone for longer.
LEMMA EvictionStep ==
    ASSUME Inv, [Next]_vars,
           NEW v \in pool \ pool', scan.pc = "evict", scan'.pc = "lru",
           NEW i \in pool, Older(i, v)
    PROVE  i \in used
<1>1. TypeOK /\ AtWork /\ VictimOldest
  BY DEF Inv
<1>2. scan' # scan
  OBVIOUS
<1>3. Evict
  BY <1>2, ScanSteps DEF BeginScan, IdleDone, ChooseVictim, ParkIdle, Park
<1>4. parked(scan.victim)
  BY <1>3 DEF Evict, spared
<1>5. v = scan.victim /\ v \notin fresh
  BY <1>4 DEF parked, untrack, stillIdle
<1> QED
  BY <1>1, <1>5 DEF VictimOldest

\* Between choosing its victim and having the victim's gate the scan holds no lock;
\* still it never evicts an instance while one that was idle for longer, and that
\* nothing used or spared, stays warm (scaletozero.go:241-316).
THEOREM OldestIsEvicted == Spec => EvictsOldest
<1>1. Inv /\ [Next]_vars =>
          [\A v \in pool \ pool' :
              scan.pc = "evict" /\ scan'.pc = "lru" =>
                  \A i \in pool : Older(i, v) => i \in used]_vars
  BY EvictionStep
<1> QED
  BY <1>1, Invariant, PTL DEF Spec, EvictsOldest

\* A scan that gives up has found every instance of the pool in use.
LEMMA LastChoice ==
    ASSUME Inv, [Next]_vars, scan.pc = "lru", scan'.pc = "off"
    PROVE  Cardinality(pool) <= MaxWarm \/ pool \subseteq used
<1>1. scan' # scan
  OBVIOUS
<1>2. ChooseVictim
  BY <1>1, ScanSteps DEF BeginScan, IdleDone, ParkIdle, Evict, Park
<1>3. candidates = {} \/ Cardinality(pool) <= MaxWarm
  <2> SUFFICES ASSUME ~(candidates = {} \/ Cardinality(pool) <= MaxWarm) PROVE FALSE
    OBVIOUS
  <2>1. PICK v \in candidates : scan' = [scan EXCEPT !.pc = "evict", !.victim = v]
    BY <1>2 DEF ChooseVictim
  <2>2. scan'.pc = "evict"
    BY <2>1 DEF Inv, TypeOK
  <2> QED
    BY <2>2
<1>4. ASSUME candidates = {} PROVE pool \subseteq used
  <2>1. pool \subseteq scan.tried \union Referenced
    BY <1>4 DEF candidates
  <2> QED
    BY <2>1 DEF Inv, PassedOver
<1> QED
  BY <1>3, <1>4

\* A scan ends with no more warm instances than stzMaxWarm, unless every one of
\* them was used, switched or could not be parked while it ran
\* (scaletozero.go:241-277).
THEOREM PoolStaysWithinLimit == Spec => PoolWithinLimit
<1>1. Inv /\ [Next]_vars =>
          [scan.pc = "lru" /\ scan'.pc = "off" =>
              Cardinality(pool) <= MaxWarm \/ pool \subseteq used]_vars
  BY LastChoice
<1> QED
  BY <1>1, Invariant, PTL DEF Spec, PoolWithinLimit

=============================================================================
