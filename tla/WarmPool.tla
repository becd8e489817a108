------------------------------ MODULE WarmPool ------------------------------
(***************************************************************************)
(* The pool of warm scale-to-zero instances and the scan of                *)
(* internal/supervisor/scaletozero.go that bounds it: the idle stopper,    *)
(* then the eviction of the least recently used instances over the limit.  *)
(* Supervisor has one instance in detail; here several compete, and what   *)
(* the scan saw under the lock is stale by the time it has a gate.         *)
(*                                                                         *)
(* Abstractions.  The activity clocks are their order (lru, oldest first)  *)
(* and whether each is later than the scan (fresh); which of the oldest    *)
(* have outlived the idle time is any choice.  stopProcess takes its       *)
(* process out of procs before it waits for it, with the gate held, so     *)
(* what follows is part of the same step.                                  *)
(***************************************************************************)
EXTENDS Naturals, FiniteSets, SequencesExt

CONSTANTS
    Inst,       \* instances
    Call,       \* calls that may be in progress at once
    None,       \* no instance
    MaxWarm,    \* stzMaxWarm
    Switching   \* bound: instances whose mode is switched

ASSUME NoneAssumption == None \notin Inst
ASSUME InstAssumption == IsFiniteSet(Inst)
ASSUME SwitchingAssumption == Switching \subseteq Inst
ASSUME MaxWarmAssumption == MaxWarm \in Nat \ {0}

VARIABLES
    lru,       \* instances with a tracked process, by lastActivity, oldest first
    pool,      \* those whose process is marked scaleToZero
    resident,  \* instances whose row says long-running
    gate,      \* what holds each instance's gate
    call,      \* the calls: where each is, and the instance it is for
    scan,      \* the pass of scanScaleToZero
    fresh,     \* instances whose lastActivity is after the scan's start
    used       \* history: referenced, switched or spared since that start

MaybeInst == Inst \union {None}
NoCall    == [pc |-> "idle", inst |-> None]
NoScan    == [pc |-> "off", todo |-> {}, tried |-> {}, victim |-> None]

vars == <<lru, pool, resident, gate, call, scan, fresh, used>>

\* The instances in s.procs.
warm == ToSet(lru)

\* One type invariant for the module.
TypeOK ==
    /\ lru \in Seq(Inst) /\ IsInjective(lru)
    /\ pool \subseteq warm /\ resident \subseteq Inst
    /\ gate \in [Inst -> {"free", "start", "spawned", "switch"}]
    /\ call \in [Call -> [pc: {"idle", "starting", "serving"}, inst: MaybeInst]]
    /\ scan \in [pc: {"off", "idle", "lru", "evict"}, todo: SUBSET Inst,
                 tried: SUBSET Inst, victim: MaybeInst]
    /\ fresh \subseteq Inst /\ used \subseteq Inst

-----------------------------------------------------------------------------

GateFree(i) == gate[i] = "free"
Serving(i)  == {c \in Call : call[c].pc = "serving" /\ call[c].inst = i}
Referenced  == {i \in Inst : Serving(i) # {}}
Older(i, j) == \E m, n \in DOMAIN lru : m < n /\ lru[m] = i /\ lru[n] = j

\* i joins S, which is kept while a scan is on.
sinceScan(S, i) == IF scan.pc = "off" THEN {} ELSE S \union {i}

\* lastActivity[i] is now.
touch(i) ==
    /\ lru' = Append(RemoveFirst(lru, i), i)
    /\ fresh' = sinceScan(fresh, i)

\* Its process leaves procs, with the mark and the references on it.
untrack(i) ==
    /\ lru' = RemoveFirst(lru, i) /\ pool' = pool \ {i}
    /\ call' = [c \in Call |-> IF c \in Serving(i) THEN NoCall ELSE call[c]]

-----------------------------------------------------------------------------
(* Calls and operations on one instance                                     *)

\* EnsureStarted of a warm instance.
WarmHit(c, i) ==
    /\ call[c].pc = "idle" /\ GateFree(i) /\ i \in warm
    /\ call' = [call EXCEPT ![c] = [pc |-> "serving", inst |-> i]]
    /\ touch(i) /\ used' = sinceScan(used, i)
    /\ UNCHANGED <<pool, resident, gate, scan>>

\* EnsureStarted of a cold one, up to the fork.
ColdStart(c, i) ==
    /\ call[c].pc = "idle" /\ GateFree(i) /\ i \notin warm
    /\ gate' = [gate EXCEPT ![i] = "start"]
    /\ call' = [call EXCEPT ![c] = [pc |-> "starting", inst |-> i]]
    /\ UNCHANGED <<lru, pool, resident, scan, fresh, used>>

\* The process is tracked, and its idle clock starts, before it is healthy and
\* before the call holds its reference.
Spawn(c) ==
    LET i == call[c].inst IN
    /\ call[c].pc = "starting" /\ gate[i] = "start"
    /\ gate' = [gate EXCEPT ![i] = "spawned"]
    /\ pool' = IF i \in resident THEN pool ELSE pool \union {i}
    /\ touch(i) /\ used' = sinceScan(used, i)
    /\ UNCHANGED <<resident, call, scan>>

\* It is healthy.  A caller that gave up takes no reference.
StartDone(c) ==
    LET i == call[c].inst IN
    /\ call[c].pc = "starting" /\ gate[i] = "spawned"
    /\ gate' = [gate EXCEPT ![i] = "free"]
    /\ \E gaveUp \in BOOLEAN :
          /\ call' = [call EXCEPT ![c] = IF gaveUp THEN NoCall ELSE [@ EXCEPT !.pc = "serving"]]
          /\ used' = IF gaveUp THEN used ELSE used \union {i}
    /\ UNCHANGED <<lru, pool, resident, scan, fresh>>

StartFail(c) ==
    LET i == call[c].inst IN
    /\ call[c].pc = "starting"
    /\ gate' = [gate EXCEPT ![i] = "free"]
    /\ lru' = RemoveFirst(lru, i) /\ pool' = pool \ {i}
    /\ call' = [call EXCEPT ![c] = NoCall]
    /\ UNCHANGED <<resident, scan, fresh, used>>

\* A message of a stream.
TouchInstance(c) ==
    /\ call[c].pc = "serving" /\ call[c].inst \in warm
    /\ touch(call[c].inst)
    /\ UNCHANGED <<pool, resident, gate, call, scan, used>>

releaseRef(c) ==
    /\ call[c].pc = "serving"
    /\ call' = [call EXCEPT ![c] = NoCall]
    /\ UNCHANGED <<lru, pool, resident, gate, scan, fresh, used>>

\* A faulty variant: the mark of a process outlives it.
ExitKeepingMark(i) ==
    /\ i \in warm /\ GateFree(i)
    /\ lru' = RemoveFirst(lru, i)
    /\ UNCHANGED <<pool, resident, gate, call, scan, fresh, used>>

\* The process exits, or its instance is stopped.
Exit(i) ==
    /\ i \in warm /\ GateFree(i)
    /\ untrack(i)
    /\ UNCHANGED <<resident, gate, scan, fresh, used>>

\* SetRuntimeMode between the resident modes: the process is marked first...
SwitchBegin(i) ==
    /\ i \in warm /\ GateFree(i)
    /\ gate' = [gate EXCEPT ![i] = "switch"]
    /\ pool' = IF i \in resident THEN pool \union {i} ELSE pool \ {i}
    /\ used' = sinceScan(used, i)
    /\ UNCHANGED <<resident, lru, call, scan, fresh>>

\* ...then, towards scale-to-zero, its clock is renewed, and the row is written;
\* when that fails the mark stays.
SwitchEnd(i) ==
    /\ gate[i] = "switch"
    /\ gate' = [gate EXCEPT ![i] = "free"]
    /\ IF i \in resident THEN touch(i) ELSE UNCHANGED <<lru, fresh>>
    /\ \/ resident' = IF i \in resident THEN resident \ {i} ELSE resident \union {i}
       \/ UNCHANGED resident
    /\ UNCHANGED <<pool, call, scan, used>>

-----------------------------------------------------------------------------
(* scanScaleToZero                                                          *)

BeginScan ==
    /\ scan.pc = "off"
    /\ \E n \in 0..Len(lru) :
          scan' = [scan EXCEPT !.pc = "idle", !.tried = {},
                     !.todo = (pool \intersect {lru[k] : k \in 1..n}) \ Referenced]
    /\ fresh' = {}
    /\ used' = Referenced \union {i \in Inst : gate[i] = "switch"}
    /\ UNCHANGED <<lru, pool, resident, gate, call>>

\* A faulty variant: only references are looked at again.
stillIdleByRefs(i) == i \in warm /\ i \notin Referenced

\* What parkIfStillIdle looks at again under the gate.
stillIdle(i) == i \in warm /\ i \notin fresh /\ i \notin Referenced

\* parkIfStillIdle: parked, or spared because it is no longer idle, no longer
\* scale-to-zero, or its row cannot be read.
parked(i) ==
    /\ stillIdle(i) /\ i \notin resident
    /\ untrack(i)
    /\ UNCHANGED used

spared(i) ==
    /\ used' = sinceScan(used, i)
    /\ UNCHANGED <<lru, pool, call>>

\* The idle stopper takes what it collected one by one.
ParkIdle(i) ==
    /\ scan.pc = "idle" /\ i \in scan.todo /\ GateFree(i)
    /\ \/ /\ parked(i)
          /\ scan' = [scan EXCEPT !.todo = @ \ {i}, !.tried = @ \union {i}]
       \/ /\ spared(i)
          /\ scan' = [scan EXCEPT !.todo = @ \ {i}]
    /\ UNCHANGED <<resident, gate, fresh>>

IdleDone ==
    /\ scan.pc = "idle" /\ scan.todo = {}
    /\ scan' = [scan EXCEPT !.pc = "lru"]
    /\ UNCHANGED <<lru, pool, resident, gate, call, fresh, used>>

candidates == pool \ (scan.tried \union Referenced)

\* A faulty variant: the limit itself counts as room for one more.
chooseVictimAtLimit ==
    /\ scan.pc = "lru"
    /\ IF candidates = {} \/ Cardinality(pool) <= MaxWarm + 1
       THEN scan' = NoScan /\ fresh' = {} /\ used' = {}
       ELSE \E v \in candidates :
              /\ \A i \in candidates \ {v} : Older(v, i)
              /\ scan' = [scan EXCEPT !.pc = "evict", !.victim = v]
              /\ UNCHANGED <<fresh, used>>
    /\ UNCHANGED <<lru, pool, resident, gate, call>>

\* Under s.mu: the oldest that this pass has not tried, or the end of it.
ChooseVictim ==
    /\ scan.pc = "lru"
    /\ IF candidates = {} \/ Cardinality(pool) <= MaxWarm
       THEN scan' = NoScan /\ fresh' = {} /\ used' = {}
       ELSE \E v \in candidates :
              /\ \A i \in candidates \ {v} : Older(v, i)
              /\ scan' = [scan EXCEPT !.pc = "evict", !.victim = v]
              /\ UNCHANGED <<fresh, used>>
    /\ UNCHANGED <<lru, pool, resident, gate, call>>

\* A faulty variant: a victim that could not be parked is chosen again.
EvictAgain ==
    LET v == scan.victim IN
    /\ scan.pc = "evict" /\ GateFree(v)
    /\ \/ parked(v) /\ scan' = [scan EXCEPT !.pc = "lru", !.victim = None, !.tried = @ \union {v}]
       \/ spared(v) /\ scan' = [scan EXCEPT !.pc = "lru"]
    /\ UNCHANGED <<resident, gate, fresh>>

\* Under the victim's gate.  Parked or not, it is not tried again.
Evict ==
    LET v == scan.victim IN
    /\ scan.pc = "evict" /\ GateFree(v)
    /\ parked(v) \/ spared(v)
    /\ scan' = [scan EXCEPT !.pc = "lru", !.victim = None, !.tried = @ \union {v}]
    /\ UNCHANGED <<resident, gate, fresh>>

-----------------------------------------------------------------------------

Init ==
    /\ lru = << >> /\ pool = {} /\ resident = {}
    /\ gate = [i \in Inst |-> "free"]
    /\ call = [c \in Call |-> NoCall]
    /\ scan = NoScan
    /\ fresh = {} /\ used = {}

Starting(c) == Spawn(c) \/ StartDone(c) \/ StartFail(c)
Scan        == IdleDone \/ ChooseVictim
Park        == Evict \/ \E i \in Inst : ParkIdle(i)

Next ==
    \/ \E c \in Call :
          \/ \E i \in Inst : WarmHit(c, i) \/ ColdStart(c, i)
          \/ Starting(c) \/ TouchInstance(c) \/ releaseRef(c)
    \/ \E i \in Inst : Exit(i)
    \/ \E i \in Switching : SwitchBegin(i) \/ SwitchEnd(i)
    \/ BeginScan \/ Scan \/ Park

Spec == Init /\ [][Next]_vars

\* Operations that hold a gate end, and the mutex that is the gate serves the
\* scan in the end, however many calls pass it first.
FairSpec ==
    /\ Spec
    /\ \A c \in Call : WF_vars(Starting(c))
    /\ \A i \in Switching : WF_vars(SwitchEnd(i))
    /\ WF_vars(Scan) /\ SF_vars(Park)

-----------------------------------------------------------------------------
(* Properties                                                               *)

\* An eviction passes over no instance that was idle for longer than the victim
\* through the whole scan: a victim that was called between its choice and its
\* gate is spared, although it is idle again (scaletozero.go:286).
EvictsOldest ==
    [][\A v \in pool \ pool' :
          scan.pc = "evict" /\ scan'.pc = "lru" =>
              \A i \in pool : Older(i, v) => i \in used]_vars

\* A scan ends with the pool within its limit, or full of instances that were
\* used, switched or could not be stopped while it ran.
PoolWithinLimit ==
    [][scan.pc = "lru" /\ scan'.pc = "off" =>
          Cardinality(pool) <= MaxWarm \/ pool \subseteq used]_vars

\* Whatever calls do meanwhile and whichever stops fail, a scan comes to an end.
ScanEnds == (scan.pc # "off") ~> (scan.pc = "off")

=============================================================================
