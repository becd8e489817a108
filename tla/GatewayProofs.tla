--------------------------- MODULE GatewayProofs ---------------------------
(***************************************************************************)
(* Proofs about Gateway, for any number of instances, calls, ports and     *)
(* on-demand slots.                                                        *)
(*                                                                         *)
(* A call's reference is right because four things agree: the call's       *)
(* progress, the gate, the row and the process.  OpOK and CallOK say how;  *)
(* they are inductive together with the type invariant and the count of    *)
(* slots, without which a slot might be given back that nobody took.       *)
(***************************************************************************)
EXTENDS Gateway, FiniteSetTheorems, TLAPS

-----------------------------------------------------------------------------
(* The inductive invariant                                                  *)

\* What an operation means for its instance.
OpOK(i) ==
    /\ op[i].pc \in {"stop", "start"} => proc[i] = None
    /\ op[i].pc = "announce" => Live(i)
    /\ Live(i) => row[i].running /\ row[i].addr = proc[i]

\* A call that warms an instance waits for the operation it began.
OpCallOK(i) ==
    op[i].call # None =>
        /\ op[i].pc \in {"start", "announce"}
        /\ call[op[i].call].pc = "warming" /\ call[op[i].call].inst = i

CallOK(c) ==
    /\ call[c].pc # "idle" => call[c].inst \in Inst
    /\ call[c].open => call[c].pc = "flight"
    /\ call[c].ref =>
          /\ call[c].pc \in {"warmed", "dial", "flight"}
          /\ GateFree(call[c].inst) /\ Live(call[c].inst)
          /\ call[c].pc # "warmed" => call[c].addr = proc[call[c].inst]
    /\ call[c].pc = "flight" /\ call[c].open => cached[call[c].inst] = call[c].addr

Inv ==
    /\ \A i \in Inst : OpOK(i) /\ OpCallOK(i)
    /\ \A c \in Call : CallOK(c)

-----------------------------------------------------------------------------
(* Types                                                                    *)

LEMMA CallType == ASSUME TypeOK, NEW c \in Call PROVE call[c] \in CallState
BY DEF TypeOK

LEMMA NoCallType == NoCall \in CallState
BY DEF NoCall, CallState, Modes, LR, MaybePort

LEMMA FreeGateType == FreeGate \in Op
BY DEF FreeGate, Op

LEMMA Changed ==
    ASSUME TypeOK, NEW c \in Call, NEW v \in CallState
    PROVE  [call EXCEPT ![c] = v] \in [Call -> CallState]
BY DEF TypeOK

LEMMA EndTypes == ASSUME TypeOK, NEW c \in Call, End(c) PROVE call' \in [Call -> CallState]
BY Changed, NoCallType DEF End

\* Closing and unreferencing touch one field of a call.
LEMMA ClosedOne ==
    ASSUME NEW calls \in [Call -> CallState], NEW i
    PROVE  /\ Closed(calls, i) \in [Call -> CallState]
           /\ \A c \in Call :
                /\ Closed(calls, i)[c].pc = calls[c].pc
                /\ Closed(calls, i)[c].inst = calls[c].inst
                /\ Closed(calls, i)[c].addr = calls[c].addr
                /\ Closed(calls, i)[c].ref = calls[c].ref
                /\ Closed(calls, i)[c].open => calls[c].open
                /\ calls[c].inst # i => Closed(calls, i)[c] = calls[c]
                /\ calls[c].inst = i /\ calls[c].pc = "flight" => ~Closed(calls, i)[c].open
<1>1. ASSUME NEW c \in Call
      PROVE  /\ Closed(calls, i)[c] \in CallState
             /\ Closed(calls, i)[c].pc = calls[c].pc
             /\ Closed(calls, i)[c].inst = calls[c].inst
             /\ Closed(calls, i)[c].addr = calls[c].addr
             /\ Closed(calls, i)[c].ref = calls[c].ref
             /\ Closed(calls, i)[c].open => calls[c].open
             /\ calls[c].inst # i => Closed(calls, i)[c] = calls[c]
             /\ calls[c].inst = i /\ calls[c].pc = "flight" => ~Closed(calls, i)[c].open
  <2>1. calls[c] \in CallState
    OBVIOUS
  <2> QED BY <2>1 DEF Closed, CallState
<1> QED BY <1>1 DEF Closed

LEMMA UnreferencedOne ==
    ASSUME TypeOK, NEW i
    PROVE  /\ Unreferenced(i) \in [Call -> CallState]
           /\ \A c \in Call :
                /\ Unreferenced(i)[c].pc = call[c].pc
                /\ Unreferenced(i)[c].inst = call[c].inst
                /\ Unreferenced(i)[c].addr = call[c].addr
                /\ Unreferenced(i)[c].open = call[c].open
                /\ call[c].inst # i => Unreferenced(i)[c] = call[c]
                /\ call[c].inst = i => ~Unreferenced(i)[c].ref
<1>1. ASSUME NEW c \in Call
      PROVE  /\ Unreferenced(i)[c] \in CallState
             /\ Unreferenced(i)[c].pc = call[c].pc
             /\ Unreferenced(i)[c].inst = call[c].inst
             /\ Unreferenced(i)[c].addr = call[c].addr
             /\ Unreferenced(i)[c].open = call[c].open
             /\ call[c].inst # i => Unreferenced(i)[c] = call[c]
             /\ call[c].inst = i => ~Unreferenced(i)[c].ref
  BY CallType DEF Unreferenced, CallState
<1> QED BY <1>1 DEF Unreferenced

LEMMA ColdRowType == ASSUME TypeOK, NEW i \in Inst, NEW on \in BOOLEAN PROVE ColdRow(i, on) \in Row
<1>1. row[i] \in Row
  BY DEF TypeOK
<1> QED BY <1>1 DEF ColdRow, Row, MaybePort

LEMMA OnDemandRowType == OnDemandRow \in Row
BY DEF OnDemandRow, Row, Modes, OD, MaybePort

LEMMA InitTypes == Init => TypeOK
<1> SUFFICES ASSUME Init PROVE TypeOK
  OBVIOUS
<1>1. \A m \in Modes : [mode |-> m, enabled |-> TRUE, running |-> m = OD, addr |-> None] \in Row
  BY DEF Row, MaybePort
<1>2. row \in [Inst -> Row]
  BY <1>1 DEF Init
<1>3. proc \in [Inst -> MaybePort] /\ cached \in [Inst -> MaybePort]
  BY DEF Init, MaybePort
<1>4. op \in [Inst -> Op] /\ call \in [Call -> CallState]
  BY NoCallType, FreeGateType DEF Init
<1>5. slots \in 0..Slots
  BY SlotsAssumption DEF Init
<1> QED BY <1>2, <1>3, <1>4, <1>5 DEF TypeOK

\* The operations of the supervisor keep the types.
LEMMA StopProcessTypes ==
    ASSUME TypeOK, NEW i \in Inst, NEW next \in {"disabled", "restart", "onDemand", "park"},
           stopProcess(i, next)
    PROVE  op' \in [Inst -> Op] /\ proc' \in [Inst -> MaybePort] /\ call' \in [Call -> CallState]
<1>1. [FreeGate EXCEPT !.pc = "stop", !.next = next] \in Op
  BY DEF FreeGate, Op
<1>2. op' \in [Inst -> Op]
  BY <1>1 DEF stopProcess, TypeOK
<1>3. proc' \in [Inst -> MaybePort]
  BY DEF stopProcess, TypeOK, MaybePort
<1> QED BY <1>2, <1>3, UnreferencedOne DEF stopProcess

LEMMA OperationTypes ==
    ASSUME TypeOK, NEW i \in Inst, Operation(i) PROVE TypeOK'
<1>0. row[i] \in Row /\ op[i] \in Op
  BY DEF TypeOK
<1>1. CASE StopDone(i)
  <2>1. ColdRow(i, FALSE) \in Row /\ ColdRow(i, row[i].enabled) \in Row
    BY <1>0, ColdRowType DEF Row
  <2>2. row' \in [Inst -> Row]
    BY <1>1, <2>1, OnDemandRowType DEF StopDone, TypeOK
  <2>3. [FreeGate EXCEPT !.pc = "start"] \in Op
    BY DEF FreeGate, Op
  <2>4. op' \in [Inst -> Op]
    BY <1>1, <2>3, FreeGateType DEF StopDone, TypeOK
  <2>5. cached' \in [Inst -> MaybePort]
    BY <1>1 DEF StopDone, InvalidateInstance, TypeOK, MaybePort
  <2>6. call' \in [Call -> CallState]
    BY <1>1, ClosedOne DEF StopDone, TypeOK
  <2> QED BY <1>1, <2>2, <2>4, <2>5, <2>6 DEF StopDone, TypeOK
<1>2. ASSUME NEW p \in Port, StartProc(i, p) PROVE TypeOK'
  <2>1. [row[i] EXCEPT !.running = TRUE, !.addr = p] \in Row
    BY <1>0 DEF Row, MaybePort
  <2>2. row' = [row EXCEPT ![i] = [row[i] EXCEPT !.running = TRUE, !.addr = p]]
    BY <1>2 DEF StartProc, TypeOK
  <2>3. row' \in [Inst -> Row]
    BY <2>1, <2>2 DEF TypeOK
  <2>4. [op[i] EXCEPT !.pc = "announce"] \in Op
    BY <1>0 DEF Op
  <2>5. op' \in [Inst -> Op]
    BY <1>2, <2>4 DEF StartProc, TypeOK
  <2>6. proc' \in [Inst -> MaybePort]
    BY <1>2 DEF StartProc, TypeOK, MaybePort
  <2> QED BY <1>2, <2>3, <2>5, <2>6 DEF StartProc, TypeOK
<1>3. CASE Announce(i)
  <2>1. ASSUME NEW c \in Call
        PROVE  /\ Closed(call, i)[c] \in CallState
               /\ [call[c] EXCEPT !.pc = "warmed", !.ref = TRUE] \in CallState
    <3>1. Closed(call, i)[c] \in CallState
      BY ClosedOne DEF TypeOK
    <3>2. [call[c] EXCEPT !.pc = "warmed", !.ref = TRUE] \in CallState
      BY CallType DEF CallState
    <3> QED BY <3>1, <3>2
  <2>2. call' \in [Call -> CallState]
    BY <1>3, <2>1, NoCallType DEF Announce
  <2>3. cached' \in [Inst -> MaybePort]
    BY <1>3 DEF Announce, InvalidateInstance, TypeOK, MaybePort
  <2>4. op' \in [Inst -> Op]
    BY <1>3, FreeGateType DEF Announce, TypeOK
  <2> QED BY <1>3, <2>2, <2>3, <2>4 DEF Announce, TypeOK
<1>4. CASE StartFail(i)
  <2> DEFINE failed == [c \in Call |-> IF c = op[i].call THEN NoCall ELSE call[c]]
  <2>1. failed \in [Call -> CallState]
    BY NoCallType DEF TypeOK
  <2>2. Closed(failed, i) \in [Call -> CallState]
    BY <2>1, ClosedOne
  <2>3. call' = failed \/ call' = Closed(failed, i)
    BY <1>4 DEF StartFail
  <2>4. call' \in [Call -> CallState]
    BY <2>1, <2>2, <2>3
  <2>5. ColdRow(i, row[i].enabled) \in Row
    BY <1>0, ColdRowType DEF Row
  <2>6. row' \in [Inst -> Row]
    BY <1>4, <2>5, OnDemandRowType DEF StartFail, TypeOK
  <2>7. proc' \in [Inst -> MaybePort] /\ cached' \in [Inst -> MaybePort]
    BY <1>4 DEF StartFail, InvalidateInstance, TypeOK, MaybePort
  <2>8. op' \in [Inst -> Op] /\ slots' = slots
    BY <1>4, FreeGateType DEF StartFail, TypeOK
  <2> QED BY <2>4, <2>6, <2>7, <2>8 DEF TypeOK
<1> QED BY <1>1, <1>2, <1>3, <1>4 DEF Operation

LEMMA OperatorTypes ==
    ASSUME TypeOK, NEW i \in Inst, Operator(i) \/ Park(i) \/ ProcExit(i) \/ Wait(i) PROVE TypeOK'
<1>0. row[i] \in Row /\ op[i] \in Op
  BY DEF TypeOK
<1>1. ASSUME NEW next \in {"disabled", "restart", "onDemand", "park"}, stopProcess(i, next),
             UNCHANGED <<row, cached, slots>>
      PROVE  TypeOK'
  BY <1>1, StopProcessTypes DEF TypeOK
<1>2. CASE Stop(i) \/ Restart(i) \/ SetModeOnDemand(i) \/ Park(i)
  BY <1>1, <1>2 DEF Stop, Restart, SetModeOnDemand, Park
<1>3. CASE Start(i)
  <2>1. [FreeGate EXCEPT !.pc = "start"] \in Op
    BY DEF FreeGate, Op
  <2>2. [row[i] EXCEPT !.enabled = TRUE] \in Row
    BY <1>0 DEF Row
  <2> QED BY <1>3, <2>1, <2>2 DEF Start, TypeOK
<1>4. ASSUME NEW mode \in Modes, SetModeResident(i, mode) PROVE TypeOK'
  <2>1. [row[i] EXCEPT !.mode = mode] \in Row
    BY <1>0 DEF Row
  <2>2. row' \in [Inst -> Row]
    BY <1>4, <2>1 DEF SetModeResident, TypeOK
  <2>3. cached' \in [Inst -> MaybePort]
    BY <1>4 DEF SetModeResident, InvalidateInstance, TypeOK, MaybePort
  <2>4. call' \in [Call -> CallState]
    BY <1>4, ClosedOne DEF SetModeResident, TypeOK
  <2> QED BY <1>4, <2>2, <2>3, <2>4 DEF SetModeResident, TypeOK
<1>5. ASSUME NEW mode \in Modes, SetModeCold(i, mode) PROVE TypeOK'
  <2>1. ColdRow(i, row[i].enabled) \in Row
    BY <1>0, ColdRowType DEF Row
  <2>2. [ColdRow(i, row[i].enabled) EXCEPT !.mode = mode] \in Row
    BY <2>1 DEF Row
  <2>3. row' \in [Inst -> Row]
    BY <1>5, <2>2 DEF SetModeCold, TypeOK
  <2>4. \A n \in {"done", "onDemand"} : [FreeGate EXCEPT !.pc = "start", !.next = n] \in Op
    BY DEF FreeGate, Op
  <2>5. PICK n \in {"done", "onDemand"} :
           n = (IF row[i].mode = OD THEN "onDemand" ELSE "done")
    OBVIOUS
  <2>6. op' = op \/ op' = [op EXCEPT ![i] = [FreeGate EXCEPT !.pc = "start", !.next = n]]
    BY <1>5, <2>5 DEF SetModeCold
  <2>7. op' \in [Inst -> Op]
    BY <2>4, <2>6 DEF TypeOK
  <2>8. cached' \in [Inst -> MaybePort]
    BY <1>5 DEF SetModeCold, InvalidateInstance, TypeOK, MaybePort
  <2>9. call' \in [Call -> CallState]
    BY <1>5, ClosedOne DEF SetModeCold, TypeOK
  <2> QED BY <1>5, <2>3, <2>7, <2>8, <2>9 DEF SetModeCold, TypeOK
<1>6. CASE ProcExit(i)
  <2>1. proc' \in [Inst -> MaybePort]
    BY <1>6 DEF ProcExit, TypeOK, MaybePort
  <2>2. call' \in [Call -> CallState]
    BY <1>6, UnreferencedOne DEF ProcExit
  <2> QED BY <1>6, <2>1, <2>2 DEF ProcExit, TypeOK
<1>7. CASE Wait(i)
  <2>1. ColdRow(i, row[i].enabled) \in Row
    BY <1>0, ColdRowType DEF Row
  <2>2. cached' \in [Inst -> MaybePort]
    BY <1>7 DEF Wait, InvalidateInstance, TypeOK, MaybePort
  <2>3. call' \in [Call -> CallState]
    BY <1>7, ClosedOne DEF Wait, TypeOK
  <2> QED BY <1>7, <2>1, <2>2, <2>3 DEF Wait, TypeOK
<1> QED BY <1>2, <1>3, <1>4, <1>5, <1>6, <1>7 DEF Operator

\* A slot is given back.
GivesBack(c) == SetUpFail(c) \/ FinishOnDemand(c)

\* The steps of a call.  That there is a slot to give back is SlotsAccounted's to
\* say.
LEMMA CallStepTypes ==
    ASSUME TypeOK, NEW c \in Call, CallStep(c), GivesBack(c) => slots > 0,
           call[c].pc # "idle" => call[c].inst \in Inst
    PROVE  TypeOK'
<1>0. call[c] \in CallState /\ NoCall \in CallState
  BY CallType, NoCallType
<1>1. ASSUME End(c), UNCHANGED <<instVars, cached>>, slots' \in 0..Slots PROVE TypeOK'
  BY <1>1, EndTypes DEF TypeOK, instVars
<1>2. ASSUME NEW v \in CallState, call' = [call EXCEPT ![c] = v],
             UNCHANGED <<row, proc, cached>>, op' \in [Inst -> Op], slots' \in 0..Slots
      PROVE  TypeOK'
  BY <1>2, Changed DEF TypeOK
<1>3. op \in [Inst -> Op] /\ slots \in 0..Slots
  BY DEF TypeOK
<1>4. ASSUME NEW i \in Inst, Resolve(c, i) PROVE TypeOK'
  <2>1. row[i] \in Row
    BY DEF TypeOK
  <2>2. [NoCall EXCEPT !.pc = "resolved", !.inst = i, !.mode = row[i].mode,
                       !.addr = IF row[i].running THEN row[i].addr ELSE None] \in CallState
    BY <2>1 DEF NoCall, CallState, Row, MaybePort
  <2> QED BY <1>2, <1>3, <1>4, <2>2 DEF Resolve, instVars
<1>5. CASE AcquireOnDemandSlot(c)
  <2>1. CASE slots < Slots
    <3>1. [call[c] EXCEPT !.pc = "slot"] \in CallState
      BY <1>0 DEF CallState
    <3>2. slots' \in 0..Slots
      BY <1>3, <1>5, <2>1, SlotsAssumption DEF AcquireOnDemandSlot
    <3> QED BY <1>2, <1>3, <1>5, <2>1, <3>1, <3>2 DEF AcquireOnDemandSlot, instVars
  <2>2. CASE ~(slots < Slots)
    BY <1>1, <1>3, <1>5, <2>2 DEF AcquireOnDemandSlot
  <2> QED BY <2>1, <2>2
<1>6. CASE GivesBack(c)
  <2>1. slots' \in 0..Slots
    BY <1>3, <1>6, SlotsAssumption DEF GivesBack, SetUpFail, FinishOnDemand, releaseOnDemandSlot
  <2> QED BY <1>1, <1>6, <2>1 DEF GivesBack, SetUpFail, FinishOnDemand
<1>r. CASE RunOnDemand(c)
  <2>1. [call[c] EXCEPT !.pc = "run"] \in CallState
    BY <1>0 DEF CallState
  <2> QED BY <1>2, <1>3, <1>r, <2>1 DEF RunOnDemand, instVars
<1>7. CASE WarmHit(c)
  <2>1. [call[c] EXCEPT !.pc = "warmed", !.ref = TRUE] \in CallState
    BY <1>0 DEF CallState
  <2>2. call' = [call EXCEPT ![c] = [call[c] EXCEPT !.pc = "warmed", !.ref = TRUE]]
    BY <1>7 DEF WarmHit, TypeOK
  <2> QED BY <1>2, <1>3, <1>7, <2>1, <2>2 DEF WarmHit, instVars
<1>8. CASE ColdStart(c)
  <2>1. [call[c] EXCEPT !.pc = "warming"] \in CallState
    BY <1>0 DEF CallState
  <2>2. [FreeGate EXCEPT !.pc = "start", !.call = c] \in Op
    BY DEF FreeGate, Op
  <2>3. op' \in [Inst -> Op]
    BY <1>3, <1>8, <2>2 DEF ColdStart
  <2> QED BY <1>2, <1>3, <1>8, <2>1, <2>3 DEF ColdStart
<1>9. CASE Reread(c)
  <2> DEFINE i == call[c].inst
  <2>1. CASE row[i].running /\ row[i].addr # None
    <3>1. row[i] \in Row
      BY <1>9 DEF Reread, TypeOK
    <3>2. [call[c] EXCEPT !.pc = "dial", !.addr = row[i].addr] \in CallState
      BY <1>0, <3>1 DEF CallState, Row
    <3>3. call' = [call EXCEPT ![c] = [call[c] EXCEPT !.pc = "dial", !.addr = row[i].addr]]
      BY <1>9, <2>1 DEF Reread, TypeOK
    <3> QED BY <1>2, <1>3, <1>9, <3>2, <3>3 DEF Reread, instVars
  <2>2. CASE ~(row[i].running /\ row[i].addr # None)
    BY <1>1, <1>3, <1>9, <2>2 DEF Reread
  <2> QED BY <2>1, <2>2
<1>10. CASE Backend(c)
  <2>1. row[call[c].inst] \in Row
    BY <1>10 DEF Backend, TypeOK
  <2>2. PICK p \in MaybePort :
           p = (IF call[c].addr # None THEN call[c].addr
                ELSE IF row[call[c].inst].running THEN row[call[c].inst].addr ELSE None)
    BY <1>0, <2>1 DEF Row, CallState, MaybePort
  <2>3. [call[c] EXCEPT !.pc = "dial", !.addr = p] \in CallState
    BY <1>0, <2>2 DEF CallState
  <2>4. \/ call' = [call EXCEPT ![c] = [call[c] EXCEPT !.pc = "dial", !.addr = p]]
        \/ End(c)
    BY <1>10, <2>2 DEF Backend, TypeOK
  <2> QED BY <1>1, <1>2, <1>3, <1>10, <2>3, <2>4 DEF Backend, instVars
<1>11. CASE Dial(c)
  <2> DEFINE i == call[c].inst
  <2>1. call[c].addr \in MaybePort
    BY <1>0 DEF CallState
  <2>2. cached' \in [Inst -> MaybePort]
    BY <1>11, <2>1 DEF Dial, TypeOK
  <2>3. PICK calls \in [Call -> CallState] :
           calls = (IF cached[i] = call[c].addr THEN call ELSE Closed(call, i))
    BY ClosedOne DEF TypeOK
  <2>4. \A state \in CallState : [state EXCEPT !.pc = "flight", !.open = TRUE] \in CallState
    BY DEF CallState
  <2>5. call' = [calls EXCEPT ![c] = [calls[c] EXCEPT !.pc = "flight", !.open = TRUE]]
    BY <1>11, <2>3 DEF Dial
  <2>6. call' \in [Call -> CallState]
    BY <2>3, <2>4, <2>5
  <2> QED BY <1>11, <2>2, <2>6 DEF Dial, TypeOK, instVars
<1>12. CASE Finish(c)
  BY <1>1, <1>3, <1>12 DEF Finish
<1> QED BY <1>4, <1>5, <1>6, <1>r, <1>7, <1>8, <1>9, <1>10, <1>11, <1>12 DEF CallStep, GivesBack

-----------------------------------------------------------------------------
(* The supervisor's steps keep the invariant                                *)

LEMMA InitInv == Init => Inv
BY DEF Init, Inv, OpOK, OpCallOK, CallOK, Live, FreeGate, NoCall

\* An operation of i disturbs neither other instances nor calls of others.
LEMMA Elsewhere ==
    ASSUME Inv, NEW i \in Inst,
           \A j \in Inst \ {i} : /\ row'[j] = row[j] /\ proc'[j] = proc[j]
                                 /\ op'[j] = op[j] /\ cached'[j] = cached[j],
           \A c \in Call : call[c].inst # i => call'[c] = call[c],
           TypeOK, OpOK(i)', OpCallOK(i)',
           \A c \in Call : call[c].inst = i => CallOK(c)'
    PROVE  Inv'
<1>1. ASSUME NEW j \in Inst \ {i} PROVE OpOK(j)'
  BY <1>1 DEF Inv, OpOK, Live
<1>2. ASSUME NEW j \in Inst \ {i} PROVE OpCallOK(j)'
  <2>1. op[j].call \in Call \union {None}
    BY <1>2 DEF TypeOK, Op
  <2> QED BY <1>2, <2>1 DEF Inv, OpCallOK
<1>3. ASSUME NEW c \in Call, call[c].inst # i PROVE CallOK(c)'
  <2>1. CallOK(c) /\ call'[c] = call[c]
    BY <1>3 DEF Inv
  <2>2. CASE call[c].pc = "idle"
    BY <2>1, <2>2 DEF CallOK
  <2>3. CASE call[c].pc # "idle"
    BY <1>3, <2>1, <2>3 DEF CallOK, GateFree, Live
  <2> QED BY <2>2, <2>3
<1> QED BY <1>1, <1>2, <1>3 DEF Inv

\* Facts of an instance and its calls.
LEMMA AtInst ==
    ASSUME TypeOK, Inv, NEW i \in Inst
    PROVE  /\ row[i] \in Row /\ op[i] \in Op /\ OpOK(i) /\ OpCallOK(i)
           /\ \A c \in Call : call[c] \in CallState /\ CallOK(c)
BY DEF TypeOK, Inv

LEMMA StopProcessInv ==
    ASSUME TypeOK, Inv, NEW i \in Inst, NEW next \in {"disabled", "restart", "onDemand", "park"},
           stopProcess(i, next), UNCHANGED <<row, cached>>
    PROVE  Inv'
<1>1. op'[i].pc = "stop" /\ op'[i].call = None /\ proc'[i] = None
  BY DEF stopProcess, TypeOK, FreeGate
<1>2. OpOK(i)' /\ OpCallOK(i)'
  BY <1>1 DEF OpOK, OpCallOK, Live
<1>3. ASSUME NEW c \in Call, call[c].inst = i PROVE CallOK(c)'
  BY <1>3, AtInst, UnreferencedOne DEF stopProcess, CallOK
<1>4. \A c \in Call : call[c].inst # i => call'[c] = call[c]
  BY UnreferencedOne DEF stopProcess
<1> QED BY <1>2, <1>3, <1>4, Elsewhere DEF stopProcess, TypeOK

LEMMA ProcExitInv == ASSUME TypeOK, Inv, NEW i \in Inst, ProcExit(i) PROVE Inv'
<1>1. op'[i] = op[i] /\ op[i].pc = "free" /\ proc'[i] = None
  BY DEF ProcExit, GateFree, TypeOK
<1>2. OpOK(i)' /\ OpCallOK(i)'
  BY <1>1, AtInst DEF OpOK, OpCallOK, Live
<1>3. ASSUME NEW c \in Call, call[c].inst = i PROVE CallOK(c)'
  BY <1>3, AtInst, UnreferencedOne DEF ProcExit, CallOK
<1>4. \A c \in Call : call[c].inst # i => call'[c] = call[c]
  BY UnreferencedOne DEF ProcExit
<1> QED BY <1>2, <1>3, <1>4, Elsewhere DEF ProcExit, TypeOK

\* The connections are closed by an operation that leaves the process alone,
\* or while there is none.
LEMMA ClosedInv ==
    ASSUME TypeOK, Inv, NEW i \in Inst, OpOK(i)', OpCallOK(i)',
           \A j \in Inst \ {i} : row'[j] = row[j] /\ op'[j] = op[j],
           proc' = proc, InvalidateInstance(i), call' = Closed(call, i),
           GateFree(i) => GateFree(i)' \/ ~Live(i)
    PROVE  Inv'
<1>1. ASSUME NEW c \in Call, call[c].inst = i PROVE CallOK(c)'
  <2>1. call \in [Call -> CallState]
    BY DEF TypeOK
  <2>2. /\ call'[c].pc = call[c].pc /\ call'[c].inst = i
        /\ call'[c].addr = call[c].addr /\ call'[c].ref = call[c].ref
        /\ call'[c].open => call[c].open
        /\ call[c].pc = "flight" => ~call'[c].open
    BY <1>1, <2>1, ClosedOne
  <2>3. CallOK(c)
    BY AtInst
  <2>4. call[c].ref => GateFree(i)'
    BY <1>1, <2>3 DEF CallOK
  <2> QED BY <1>1, <2>2, <2>3, <2>4 DEF CallOK, Live
<1>2. \A c \in Call : call[c].inst # i => call'[c] = call[c]
  BY ClosedOne DEF TypeOK
<1>3. \A j \in Inst \ {i} : cached'[j] = cached[j]
  BY DEF InvalidateInstance, TypeOK
<1> QED BY <1>1, <1>2, <1>3, Elsewhere

\* The row, the gate or the process changes and the calls do not.
LEMMA SilentInv ==
    ASSUME TypeOK, Inv, NEW i \in Inst, OpOK(i)', op'[i].call = None,
           \A j \in Inst \ {i} : row'[j] = row[j] /\ op'[j] = op[j] /\ proc'[j] = proc[j],
           UNCHANGED <<cached, call>>,
           \A c \in Call : call[c].inst = i /\ call[c].ref => GateFree(i)' /\ proc'[i] = proc[i]
    PROVE  Inv'
<1>1. OpCallOK(i)'
  BY DEF OpCallOK
<1>2. ASSUME NEW c \in Call, call[c].inst = i PROVE CallOK(c)'
  BY <1>2, AtInst DEF CallOK, Live
<1> QED BY <1>1, <1>2, Elsewhere

LEMMA OperationInv == ASSUME TypeOK, Inv, NEW i \in Inst, Operation(i) PROVE Inv'
<1>0. /\ row[i] \in Row /\ op[i] \in Op /\ OpOK(i) /\ OpCallOK(i)
      /\ \A c \in Call : call[c] \in CallState /\ CallOK(c)
  BY AtInst
<1>1. CASE StopDone(i)
  <2>1. op'[i].pc \in {"free", "start"} /\ op'[i].call = None
    BY <1>1 DEF StopDone, TypeOK, FreeGate
  <2>2. op[i].pc = "stop" /\ proc'[i] = None
    BY <1>0, <1>1 DEF StopDone, OpOK
  <2>3. OpOK(i)' /\ OpCallOK(i)'
    BY <2>1, <2>2 DEF OpOK, OpCallOK, Live
  <2>4. \A j \in Inst \ {i} : row'[j] = row[j] /\ op'[j] = op[j]
    BY <1>1 DEF StopDone, TypeOK
  <2> QED BY <1>1, <2>2, <2>3, <2>4, ClosedInv DEF StopDone, Live, GateFree
<1>2. ASSUME NEW p \in Port, StartProc(i, p) PROVE Inv'
  <2>1. proc[i] = None /\ proc'[i] = p
    BY <1>0, <1>2 DEF StartProc, OpOK, TypeOK
  <2>2. row'[i].running /\ row'[i].addr = p
    BY <1>0, <1>2 DEF StartProc, TypeOK, Row
  <2>3. op'[i].pc = "announce" /\ op'[i].call = op[i].call
    BY <1>0, <1>2 DEF StartProc, TypeOK, Op
  <2>4. OpOK(i)'
    BY <2>1, <2>2, <2>3, NoneAssumption DEF OpOK, Live
  <2>5. OpCallOK(i)'
    BY <1>0, <1>2, <2>3 DEF OpCallOK, StartProc
  <2>6. ASSUME NEW c \in Call, call[c].inst = i PROVE CallOK(c)'
    BY <1>0, <1>2, <2>1, <2>6 DEF CallOK, StartProc, Live
  <2>7. \A j \in Inst \ {i} : row'[j] = row[j] /\ op'[j] = op[j] /\ proc'[j] = proc[j]
    BY <1>2 DEF StartProc, TypeOK
  <2> QED BY <1>2, <2>4, <2>5, <2>6, <2>7, Elsewhere DEF StartProc
<1>3. CASE Announce(i)
  <2>1. /\ op'[i] = FreeGate /\ op[i].pc = "announce"
        /\ proc' = proc /\ row' = row /\ cached' = [cached EXCEPT ![i] = None]
        /\ \A j \in Inst \ {i} : op'[j] = op[j] /\ cached'[j] = cached[j]
    BY <1>3 DEF Announce, InvalidateInstance, TypeOK
  <2>2. OpOK(i)' /\ OpCallOK(i)'
    BY <1>0, <2>1 DEF OpOK, OpCallOK, Live, FreeGate
  <2>3. ASSUME NEW c \in Call, c # op[i].call PROVE call'[c] = Closed(call, i)[c]
    BY <1>3, <2>3 DEF Announce
  <2>4. ASSUME NEW c \in Call, c = op[i].call
        PROVE  call[c].inst = i /\ call[c].pc = "warming" /\ ~call[c].open
    BY <1>0, <2>4, NoneAssumption DEF OpCallOK, CallOK
  <2>5. ASSUME NEW c \in Call, c = op[i].call PROVE CallOK(c)'
    <3>1. CASE call'[c] = NoCall
      BY <3>1 DEF NoCall, CallOK
    <3>2. CASE call'[c] = [call[c] EXCEPT !.pc = "warmed", !.ref = TRUE]
      <4>1. /\ call'[c].pc = "warmed" /\ call'[c].inst = i /\ ~call'[c].open
        BY <1>0, <2>4, <2>5, <3>2 DEF CallState
      <4>2. Live(i) /\ GateFree(i)'
        BY <1>0, <2>1 DEF OpOK, GateFree, FreeGate
      <4> QED BY <2>1, <4>1, <4>2 DEF CallOK, Live
    <3> QED BY <1>3, <2>5, <3>1, <3>2 DEF Announce
  <2>6. ASSUME NEW c \in Call, c # op[i].call, call[c].inst = i PROVE CallOK(c)'
    <3>1. call \in [Call -> CallState]
      BY DEF TypeOK
    <3>2. /\ call'[c].pc = call[c].pc /\ call'[c].inst = i
          /\ call'[c].addr = call[c].addr /\ call'[c].ref = call[c].ref
          /\ call'[c].open => call[c].open
          /\ call[c].pc = "flight" => ~call'[c].open
      BY <2>3, <2>6, <3>1, ClosedOne
    <3>3. ~call[c].ref
      BY <1>0, <2>1, <2>6 DEF CallOK, GateFree
    <3> QED BY <1>0, <2>6, <3>2, <3>3 DEF CallOK
  <2>7. \A c \in Call : call[c].inst # i => call'[c] = call[c]
    BY <2>3, <2>4, ClosedOne DEF TypeOK
  <2> QED BY <2>1, <2>2, <2>5, <2>6, <2>7, Elsewhere
<1>4. CASE StartFail(i)
  <2> DEFINE failed == [c \in Call |-> IF c = op[i].call THEN NoCall ELSE call[c]]
  <2>1. op'[i] = FreeGate /\ proc'[i] = None
    BY <1>4 DEF StartFail, TypeOK
  <2>2. OpOK(i)' /\ OpCallOK(i)'
    BY <2>1 DEF OpOK, OpCallOK, Live, FreeGate
  <2>3. failed \in [Call -> CallState]
    BY NoCallType DEF TypeOK
  <2>4. ASSUME NEW c \in Call, c = op[i].call PROVE call[c].inst = i /\ failed[c] = NoCall
    BY <1>0, <2>4, NoneAssumption DEF OpCallOK
  <2>5. ASSUME NEW c \in Call, c # op[i].call PROVE failed[c] = call[c]
    BY <2>5
  <2>6. ASSUME NEW c \in Call, call[c].inst = i PROVE ~call[c].ref
    BY <1>0, <1>4, <2>6 DEF StartFail, CallOK, GateFree
  <2>7. \/ call' = failed /\ cached' = cached
        \/ call' = Closed(failed, i) /\ cached' = [cached EXCEPT ![i] = None]
    BY <1>4 DEF StartFail, InvalidateInstance
  <2> HIDE DEF failed
  <2>8. CASE call' = failed /\ cached' = cached
    <3>1. ASSUME NEW c \in Call, call[c].inst = i PROVE CallOK(c)'
      BY <1>0, <2>4, <2>5, <2>6, <2>8, <3>1 DEF CallOK, NoCall
    <3>2. \A c \in Call : call[c].inst # i => call'[c] = call[c]
      BY <2>4, <2>5, <2>8
    <3> QED BY <1>4, <2>2, <2>8, <3>1, <3>2, Elsewhere DEF StartFail, TypeOK
  <2>9. CASE call' = Closed(failed, i) /\ cached' = [cached EXCEPT ![i] = None]
    <3>1. ASSUME NEW c \in Call, call[c].inst = i PROVE CallOK(c)'
      <4>1. CASE c = op[i].call
        <5>1. failed[c] = NoCall
          BY <2>4, <4>1
        <5>2. call'[c].pc = "idle" /\ ~call'[c].open /\ ~call'[c].ref
          BY <2>3, <2>9, <5>1, ClosedOne DEF NoCall
        <5> QED BY <5>2 DEF CallOK
      <4>2. CASE c # op[i].call
        <5>1. failed[c] = call[c]
          BY <2>5, <4>2
        <5>2. /\ call'[c].pc = call[c].pc /\ call'[c].inst = i
              /\ call'[c].ref = call[c].ref
              /\ call'[c].open => call[c].open
              /\ call[c].pc = "flight" => ~call'[c].open
          BY <2>3, <2>9, <3>1, <5>1, ClosedOne
        <5> QED BY <1>0, <2>6, <3>1, <5>2 DEF CallOK
      <4> QED BY <4>1, <4>2
    <3>2. ASSUME NEW c \in Call, call[c].inst # i PROVE call'[c] = call[c]
      BY <2>3, <2>4, <2>5, <2>9, <3>2, ClosedOne
    <3>3. \A j \in Inst \ {i} : cached'[j] = cached[j]
      BY <2>9 DEF TypeOK
    <3> QED BY <1>4, <2>2, <3>1, <3>2, <3>3, Elsewhere DEF StartFail, TypeOK
  <2> QED BY <2>7, <2>8, <2>9
<1> QED BY <1>1, <1>2, <1>3, <1>4 DEF Operation

LEMMA OperatorInv ==
    ASSUME TypeOK, Inv, NEW i \in Inst, Operator(i) \/ Park(i) \/ ProcExit(i) \/ Wait(i)
    PROVE  Inv'
<1>0. /\ row[i] \in Row /\ op[i] \in Op /\ OpOK(i) /\ OpCallOK(i)
      /\ \A c \in Call : call[c] \in CallState /\ CallOK(c)
  BY AtInst
<1>1. CASE Stop(i) \/ Restart(i) \/ SetModeOnDemand(i) \/ Park(i)
  BY <1>1, StopProcessInv DEF Stop, Restart, SetModeOnDemand, Park
<1>2. CASE Start(i)
  <2>1. op'[i].pc = "start" /\ op'[i].call = None /\ proc' = proc /\ ~Live(i)
    BY <1>2 DEF Start, TypeOK, FreeGate
  <2>2. OpOK(i)'
    BY <2>1 DEF OpOK, Live
  <2>3. \A j \in Inst \ {i} : row'[j] = row[j] /\ op'[j] = op[j]
    BY <1>2 DEF Start, TypeOK
  <2>4. \A c \in Call : ~(call[c].inst = i /\ call[c].ref)
    BY <1>0, <2>1 DEF CallOK
  <2> QED BY <1>2, <2>1, <2>2, <2>3, <2>4, SilentInv DEF Start
<1>3. ASSUME NEW mode \in Modes, SetModeResident(i, mode) PROVE Inv'
  <2>1. row'[i].running = row[i].running /\ row'[i].addr = row[i].addr
    BY <1>0, <1>3 DEF SetModeResident, TypeOK, Row
  <2>2. op' = op /\ proc' = proc /\ op[i].pc = "free" /\ op[i].call = None
    BY <1>0, <1>3 DEF SetModeResident, GateFree, OpCallOK
  <2>3. OpOK(i)' /\ OpCallOK(i)'
    BY <1>0, <2>1, <2>2 DEF OpOK, OpCallOK, Live
  <2>4. \A j \in Inst \ {i} : row'[j] = row[j] /\ op'[j] = op[j]
    BY <1>3, <2>2 DEF SetModeResident, TypeOK
  <2>5. CASE InvalidateInstance(i) /\ call' = Closed(call, i)
    BY <2>2, <2>3, <2>4, <2>5, ClosedInv DEF GateFree
  <2>6. CASE UNCHANGED <<cached, call>>
    BY <2>2, <2>3, <2>4, <2>6, SilentInv DEF GateFree
  <2> QED BY <1>3, <2>5, <2>6 DEF SetModeResident
<1>4. ASSUME NEW mode \in Modes, SetModeCold(i, mode) PROVE Inv'
  <2>1. op[i].pc = "free" /\ op[i].call = None /\ proc' = proc /\ ~Live(i)
    BY <1>0, <1>4 DEF SetModeCold, GateFree, OpCallOK
  <2>2. op'[i].pc \in {"free", "start"} /\ op'[i].call = None
    BY <1>4, <2>1 DEF SetModeCold, TypeOK, FreeGate
  <2>3. OpOK(i)' /\ OpCallOK(i)'
    BY <2>1, <2>2 DEF OpOK, OpCallOK, Live
  <2>4. \A j \in Inst \ {i} : row'[j] = row[j] /\ op'[j] = op[j]
    BY <1>4 DEF SetModeCold, TypeOK
  <2> QED BY <1>4, <2>1, <2>3, <2>4, ClosedInv DEF SetModeCold
<1>5. CASE ProcExit(i)
  BY <1>5, ProcExitInv
<1>6. CASE Wait(i)
  <2>1. op' = op /\ proc' = proc /\ op[i].pc = "free" /\ ~Live(i)
    BY <1>6 DEF Wait, GateFree
  <2>2. OpOK(i)' /\ OpCallOK(i)'
    BY <1>0, <2>1 DEF OpOK, OpCallOK, Live
  <2>3. \A j \in Inst \ {i} : row'[j] = row[j] /\ op'[j] = op[j]
    BY <1>6, <2>1 DEF Wait, TypeOK
  <2> QED BY <1>6, <2>1, <2>2, <2>3, ClosedInv DEF Wait
<1> QED BY <1>1, <1>2, <1>3, <1>4, <1>5, <1>6 DEF Operator

-----------------------------------------------------------------------------
(* The steps of a call keep the invariant                                   *)

\* Only this call changes, and nobody waits for it.
LEMMA OwnCall ==
    ASSUME TypeOK, Inv, NEW c \in Call, UNCHANGED <<row, proc, op, cached>>,
           call[c].pc # "warming",
           \A d \in Call \ {c} : call'[d] = call[d], CallOK(c)'
    PROVE  Inv'
<1>1. ASSUME NEW i \in Inst PROVE OpOK(i)' /\ OpCallOK(i)'
  <2>1. op[i].call \in Call \union {None} /\ OpOK(i) /\ OpCallOK(i)
    BY DEF TypeOK, Op, Inv
  <2>2. op[i].call # None => op[i].call \in Call \ {c}
    BY <2>1 DEF OpCallOK
  <2> QED BY <2>1, <2>2 DEF OpOK, OpCallOK, Live
<1>2. ASSUME NEW d \in Call \ {c} PROVE CallOK(d)'
  BY <1>2 DEF Inv, CallOK, GateFree, Live
<1> QED BY <1>1, <1>2 DEF Inv

LEMMA EndInv ==
    ASSUME TypeOK, Inv, NEW c \in Call, UNCHANGED <<row, proc, op, cached>>,
           call[c].pc # "warming", End(c)
    PROVE  Inv'
<1>1. call'[c] = NoCall /\ \A d \in Call \ {c} : call'[d] = call[d]
  BY DEF End, TypeOK
<1>2. CallOK(c)'
  BY <1>1 DEF CallOK, NoCall
<1> QED BY <1>1, <1>2, OwnCall

LEMMA ColdStartInv == ASSUME TypeOK, Inv, NEW c \in Call, ColdStart(c) PROVE Inv'
<1>0. /\ call[c] \in CallState /\ CallOK(c) /\ call[c].pc = "resolved"
      /\ call[c].inst \in Inst
  BY DEF TypeOK, Inv, CallOK, ColdStart
<1>1. PICK i \in Inst : i = call[c].inst
  BY <1>0
<1>2. /\ op[i].pc = "free" /\ ~Live(i) /\ proc' = proc /\ row' = row /\ cached' = cached
      /\ op'[i].pc = "start" /\ op'[i].call = c
      /\ \A j \in Inst \ {i} : op'[j] = op[j]
  BY <1>0, <1>1 DEF ColdStart, TypeOK, FreeGate, GateFree
<1>3. call'[c].pc = "warming" /\ call'[c].inst = i /\ ~call'[c].open /\ ~call'[c].ref
  BY <1>0, <1>1 DEF ColdStart, TypeOK, CallState, CallOK
<1>4. \A d \in Call \ {c} : call'[d] = call[d]
  BY DEF ColdStart, TypeOK
<1>5. ASSUME NEW j \in Inst PROVE OpOK(j)'
  BY <1>2, <1>5 DEF Inv, OpOK, Live
<1>6. OpCallOK(i)'
  BY <1>2, <1>3 DEF OpCallOK
<1>7. ASSUME NEW j \in Inst \ {i} PROVE OpCallOK(j)'
  <2>1. op[j].call \in Call \union {None} /\ OpCallOK(j) /\ op'[j] = op[j]
    BY <1>2 DEF TypeOK, Op, Inv
  <2>2. op[j].call # None => op[j].call \in Call \ {c}
    BY <1>0, <1>1, <2>1 DEF OpCallOK
  <2> QED BY <1>4, <2>1, <2>2 DEF OpCallOK
<1>8. CallOK(c)'
  BY <1>0, <1>3 DEF CallOK
<1>9. ASSUME NEW d \in Call \ {c} PROVE CallOK(d)'
  <2>1. CallOK(d) /\ call'[d] = call[d]
    BY <1>4 DEF Inv
  <2>2. call[d].ref => call[d].inst # i
    BY <1>2, <2>1 DEF CallOK
  <2>3. call[d].ref => op'[call[d].inst] = op[call[d].inst]
    BY <1>2, <2>1, <2>2 DEF CallOK
  <2> QED BY <1>2, <2>1, <2>3 DEF CallOK, GateFree, Live
<1> QED BY <1>5, <1>6, <1>7, <1>8, <1>9 DEF Inv

\* A connection is dialled in place of every other one of the instance.
LEMMA DialInv == ASSUME TypeOK, Inv, NEW c \in Call, Dial(c) PROVE Inv'
<1> DEFINE i == call[c].inst
           p == call[c].addr
<1>0. call[c] \in CallState /\ CallOK(c) /\ i \in Inst /\ call[c].pc = "dial"
  BY DEF TypeOK, Inv, CallOK, Dial
<1>1. PICK calls \in [Call -> CallState] :
         calls = (IF cached[i] = p THEN call ELSE Closed(call, i))
  BY ClosedOne DEF TypeOK
<1>2. /\ row' = row /\ proc' = proc /\ op' = op
      /\ cached'[i] = p /\ \A j \in Inst \ {i} : cached'[j] = cached[j]
  BY <1>0 DEF Dial, instVars, TypeOK
<1>3. call' = [calls EXCEPT ![c] = [calls[c] EXCEPT !.pc = "flight", !.open = TRUE]]
  BY <1>1 DEF Dial
<1>4. ASSUME NEW d \in Call
      PROVE  /\ calls[d].pc = call[d].pc /\ calls[d].inst = call[d].inst
             /\ calls[d].addr = call[d].addr /\ calls[d].ref = call[d].ref
             /\ calls[d].open => call[d].open
             /\ call[d].inst = i /\ call[d].pc = "flight" /\ calls[d].open => cached[i] = p
  <2>1. call \in [Call -> CallState]
    BY DEF TypeOK
  <2>2. CASE cached[i] = p
    BY <1>1, <2>2
  <2>3. CASE cached[i] # p
    BY <1>1, <2>1, <2>3, ClosedOne
  <2> QED BY <2>2, <2>3
<1>5. /\ call'[c].pc = "flight" /\ call'[c].inst = i
      /\ call'[c].addr = p /\ call'[c].ref = call[c].ref
  BY <1>3, <1>4 DEF CallState
<1>6. CallOK(c)'
  BY <1>0, <1>2, <1>5 DEF CallOK, GateFree, Live
<1>7. \A d \in Call \ {c} : call'[d] = calls[d]
  BY <1>3
<1> HIDE DEF i, p
<1>8. ASSUME NEW d \in Call \ {c} PROVE CallOK(d)'
  <2>1. CallOK(d)
    BY DEF Inv
  <2>2. CASE call[d].inst = i
    BY <1>2, <1>4, <1>7, <2>1, <2>2 DEF CallOK, GateFree, Live
  <2>3. CASE call[d].inst # i
    BY <1>2, <1>4, <1>7, <2>1, <2>3 DEF CallOK, GateFree, Live
  <2> QED BY <2>2, <2>3
<1>9. ASSUME NEW j \in Inst PROVE OpOK(j)' /\ OpCallOK(j)'
  <2>1. op[j].call \in Call \union {None} /\ OpOK(j) /\ OpCallOK(j)
    BY DEF TypeOK, Op, Inv
  <2>2. op[j].call # None => op[j].call \in Call \ {c}
    BY <1>0, <2>1 DEF OpCallOK
  <2> QED BY <1>2, <1>4, <1>7, <2>1, <2>2 DEF OpOK, OpCallOK, Live
<1> QED BY <1>6, <1>8, <1>9 DEF Inv

LEMMA CallStepInv == ASSUME TypeOK, Inv, NEW c \in Call, CallStep(c) PROVE Inv'
<1>0. call[c] \in CallState /\ CallOK(c)
  BY DEF TypeOK, Inv
<1>1. ASSUME NEW i \in Inst, Resolve(c, i) PROVE Inv'
  <2>1. /\ call'[c].pc = "resolved" /\ call'[c].inst = i /\ ~call'[c].ref /\ ~call'[c].open
        /\ \A d \in Call \ {c} : call'[d] = call[d]
    BY <1>1 DEF Resolve, TypeOK, NoCall
  <2>2. CallOK(c)'
    BY <2>1 DEF CallOK
  <2> QED BY <1>1, <2>1, <2>2, OwnCall DEF Resolve, instVars
<1>2. CASE AcquireOnDemandSlot(c)
  <2>1. CASE slots < Slots
    <3>1. /\ call'[c].pc = "slot" /\ call'[c].inst = call[c].inst
          /\ call'[c].ref = call[c].ref /\ call'[c].open = call[c].open
          /\ \A d \in Call \ {c} : call'[d] = call[d]
      BY <1>0, <1>2, <2>1 DEF AcquireOnDemandSlot, TypeOK, CallState
    <3>2. CallOK(c)'
      BY <1>0, <1>2, <3>1 DEF CallOK, AcquireOnDemandSlot
    <3> QED BY <1>2, <3>1, <3>2, OwnCall DEF AcquireOnDemandSlot, instVars
  <2>2. CASE ~(slots < Slots)
    BY <1>2, <2>2, EndInv DEF AcquireOnDemandSlot, instVars
  <2> QED BY <2>1, <2>2
<1>3. CASE GivesBack(c)
  BY <1>3, EndInv DEF GivesBack, SetUpFail, FinishOnDemand, instVars
<1>r. CASE RunOnDemand(c)
  <2>1. /\ call'[c].pc = "run" /\ call'[c].inst = call[c].inst
        /\ call'[c].ref = call[c].ref /\ call'[c].open = call[c].open
        /\ \A d \in Call \ {c} : call'[d] = call[d]
    BY <1>0, <1>r DEF RunOnDemand, TypeOK, CallState
  <2>2. CallOK(c)'
    BY <1>0, <1>r, <2>1 DEF CallOK, RunOnDemand
  <2> QED BY <1>r, <2>1, <2>2, OwnCall DEF RunOnDemand, instVars
<1>4. CASE WarmHit(c)
  <2>1. /\ call'[c].pc = "warmed" /\ call'[c].inst = call[c].inst /\ call'[c].open = call[c].open
        /\ \A d \in Call \ {c} : call'[d] = call[d]
    BY <1>0, <1>4 DEF WarmHit, TypeOK, CallState
  <2>2. CallOK(c)'
    BY <1>0, <1>4, <2>1 DEF CallOK, WarmHit, GateFree, Live, instVars
  <2> QED BY <1>4, <2>1, <2>2, OwnCall DEF WarmHit, instVars
<1>5. CASE ColdStart(c)
  BY <1>5, ColdStartInv
<1>6. CASE Reread(c)
  <2> DEFINE i == call[c].inst
  <2>1. CASE row[i].running /\ row[i].addr # None
    <3>1. i \in Inst /\ OpOK(i)
      BY <1>0, <1>6 DEF CallOK, Reread, Inv
    <3>2. /\ call'[c].pc = "dial" /\ call'[c].inst = i /\ call'[c].addr = row[i].addr
          /\ call'[c].ref = call[c].ref /\ call'[c].open = call[c].open
          /\ \A d \in Call \ {c} : call'[d] = call[d]
      BY <1>0, <1>6, <2>1 DEF Reread, TypeOK, CallState
    <3>3. CallOK(c)'
      BY <1>0, <1>6, <3>1, <3>2 DEF CallOK, OpOK, Reread, GateFree, Live, instVars
    <3> QED BY <1>6, <3>2, <3>3, OwnCall DEF Reread, instVars
  <2>2. CASE ~(row[i].running /\ row[i].addr # None)
    BY <1>6, <2>2, EndInv DEF Reread, instVars
  <2> QED BY <2>1, <2>2
<1>7. CASE Backend(c)
  <2>1. CASE End(c)
    BY <1>7, <2>1, EndInv DEF Backend, instVars
  <2>2. CASE ~End(c)
    <3>1. /\ call'[c].pc = "dial" /\ call'[c].inst = call[c].inst
          /\ call'[c].ref = call[c].ref /\ call'[c].open = call[c].open
          /\ \A d \in Call \ {c} : call'[d] = call[d]
      BY <1>0, <1>7, <2>2 DEF Backend, TypeOK, CallState
    <3>2. CallOK(c)'
      BY <1>0, <1>7, <3>1 DEF CallOK, Backend
    <3> QED BY <1>7, <3>1, <3>2, OwnCall DEF Backend, instVars
  <2> QED BY <2>1, <2>2
<1>8. CASE Dial(c)
  BY <1>8, DialInv
<1>9. CASE Finish(c)
  BY <1>9, EndInv DEF Finish, instVars
<1> QED BY <1>1, <1>2, <1>3, <1>r, <1>4, <1>5, <1>6, <1>7, <1>8, <1>9 DEF CallStep, GivesBack

-----------------------------------------------------------------------------
(* On-demand slots                                                          *)

\* Where a call holds a slot.
OnSlot == {"slot", "run"}

\* The calls that hold slots, and the slots they hold, are left alone.
SlotsKept ==
    /\ slots' = slots
    /\ \A c \in Call : call'[c].pc \in OnSlot <=> call[c].pc \in OnSlot

LEMMA SlotsKeptAccounted == ASSUME SlotsAccounted, SlotsKept PROVE SlotsAccounted'
<1>1. {c \in Call : call'[c].pc \in OnSlot} = {c \in Call : call[c].pc \in OnSlot}
  BY DEF SlotsKept
<1> QED BY <1>1 DEF SlotsAccounted, SlotsKept, OnSlot

LEMMA OperationSlots == ASSUME TypeOK, Inv, NEW i \in Inst, Operation(i) PROVE SlotsKept
<1>0. call \in [Call -> CallState]
  BY DEF TypeOK
<1>1. CASE StopDone(i)
  BY <1>0, <1>1, ClosedOne DEF StopDone, SlotsKept
<1>2. ASSUME NEW p \in Port, StartProc(i, p) PROVE SlotsKept
  BY <1>2 DEF StartProc, SlotsKept
<1>3. \A c \in Call : c = op[i].call => call[c].pc = "warming"
  BY AtInst, NoneAssumption DEF OpCallOK
<1>4. CASE Announce(i)
  <2>1. ASSUME NEW c \in Call PROVE call'[c].pc \in OnSlot <=> call[c].pc \in OnSlot
    <3>1. CASE c # op[i].call
      <4>1. call'[c] = Closed(call, i)[c]
        BY <1>4, <3>1 DEF Announce
      <4>2. Closed(call, i)[c].pc = call[c].pc
        BY <1>0, ClosedOne
      <4> QED BY <4>1, <4>2
    <3>2. CASE c = op[i].call
      <4>1. call'[c] = NoCall \/ call'[c] = [call[c] EXCEPT !.pc = "warmed", !.ref = TRUE]
        BY <1>4, <3>2 DEF Announce
      <4>2. NoCall.pc \notin OnSlot /\ [call[c] EXCEPT !.pc = "warmed", !.ref = TRUE].pc \notin OnSlot
        BY <1>0 DEF NoCall, CallState, OnSlot
      <4>3. call'[c].pc \notin OnSlot
        BY <4>1, <4>2
      <4>4. call[c].pc \notin OnSlot
        BY <1>3, <3>2 DEF OnSlot
      <4> QED BY <4>3, <4>4
    <3> QED BY <3>1, <3>2
  <2> QED BY <1>4, <2>1 DEF Announce, SlotsKept
<1>5. CASE StartFail(i)
  <2> DEFINE failed == [c \in Call |-> IF c = op[i].call THEN NoCall ELSE call[c]]
  <2>1. \A c \in Call : failed[c].pc \in OnSlot <=> call[c].pc \in OnSlot
    BY <1>3 DEF NoCall, OnSlot
  <2>2. failed \in [Call -> CallState]
    BY NoCallType, <1>0
  <2>3. call' = failed \/ call' = Closed(failed, i)
    BY <1>5 DEF StartFail
  <2>4. \A c \in Call : Closed(failed, i)[c].pc = failed[c].pc
    BY <2>2, ClosedOne
  <2>5. slots' = slots
    BY <1>5 DEF StartFail
  <2> HIDE DEF failed
  <2> QED BY <2>1, <2>3, <2>4, <2>5 DEF SlotsKept
<1> QED BY <1>1, <1>2, <1>4, <1>5 DEF Operation

LEMMA OperatorSlots ==
    ASSUME TypeOK, NEW i \in Inst, Operator(i) \/ Park(i) \/ ProcExit(i) \/ Wait(i)
    PROVE  SlotsKept
<1>1. slots' = slots
  BY DEF Operator, Start, Stop, Restart, SetModeOnDemand, SetModeResident, SetModeCold,
         Park, ProcExit, Wait
<1>2. call' = call \/ call' = Closed(call, i) \/ call' = Unreferenced(i)
  BY DEF Operator, Start, Stop, Restart, SetModeOnDemand, SetModeResident, SetModeCold,
         Park, ProcExit, Wait, stopProcess
<1>3. \A c \in Call : Closed(call, i)[c].pc = call[c].pc
  BY ClosedOne DEF TypeOK
<1>4. \A c \in Call : Unreferenced(i)[c].pc = call[c].pc
  BY UnreferencedOne
<1> QED BY <1>1, <1>2, <1>3, <1>4 DEF SlotsKept

\* A slot is taken by the call that goes on with it.
LEMMA AcquireSlots ==
    ASSUME TypeOK, SlotsAccounted, NEW c \in Call, AcquireOnDemandSlot(c), slots < Slots
    PROVE  SlotsAccounted'
<1> DEFINE S == {d \in Call : call[d].pc \in OnSlot}
           T == {d \in Call : call'[d].pc \in OnSlot}
<1>1. IsFiniteSet(S)
  BY CallAssumption, FS_Subset
<1>2. c \notin S
  BY DEF AcquireOnDemandSlot, OnSlot
<1>3. call'[c].pc \in OnSlot /\ \A d \in Call \ {c} : call'[d] = call[d]
  BY CallType DEF AcquireOnDemandSlot, TypeOK, CallState, OnSlot
<1>4. T = S \union {c}
  BY <1>3
<1>5. Cardinality(T) = Cardinality(S) + 1
  BY <1>1, <1>2, <1>4, FS_AddElement
<1> QED BY <1>5 DEF SlotsAccounted, AcquireOnDemandSlot, OnSlot

\* It is given back by the call that held it.
LEMMA FinishSlots ==
    ASSUME TypeOK, SlotsAccounted, NEW c \in Call, GivesBack(c)
    PROVE  SlotsAccounted' /\ slots > 0
<1> DEFINE S == {d \in Call : call[d].pc \in OnSlot}
           T == {d \in Call : call'[d].pc \in OnSlot}
<1>1. IsFiniteSet(S)
  BY CallAssumption, FS_Subset
<1>2. c \in S
  BY DEF GivesBack, SetUpFail, FinishOnDemand, OnSlot
<1>3. call'[c].pc \notin OnSlot /\ \A d \in Call \ {c} : call'[d] = call[d]
  BY DEF GivesBack, SetUpFail, FinishOnDemand, End, NoCall, TypeOK, OnSlot
<1>4. T = S \ {c}
  BY <1>3
<1>5. IsFiniteSet(T) /\ c \notin T /\ S = T \union {c}
  BY <1>1, <1>2, <1>4, FS_Subset
<1>6. Cardinality(S) = Cardinality(T) + 1 /\ Cardinality(T) \in Nat
  BY <1>5, FS_AddElement, FS_CardinalityType
<1> QED BY <1>6 DEF SlotsAccounted, GivesBack, SetUpFail, FinishOnDemand,
            releaseOnDemandSlot, OnSlot

LEMMA CallStepSlots ==
    ASSUME TypeOK, SlotsAccounted, NEW c \in Call, CallStep(c) PROVE SlotsAccounted'
<1>0. call[c] \in CallState
  BY CallType
<1>1. ASSUME End(c), slots' = slots, call[c].pc \notin OnSlot PROVE SlotsKept
  <2>1. call'[c] = NoCall /\ \A d \in Call \ {c} : call'[d] = call[d]
    BY <1>1 DEF End, TypeOK
  <2> QED BY <1>1, <2>1 DEF SlotsKept, NoCall, OnSlot
<1>2. ASSUME slots' = slots, call[c].pc \notin OnSlot, call'[c].pc \notin OnSlot,
             \A d \in Call \ {c} : call'[d] = call[d]
      PROVE  SlotsKept
  BY <1>2 DEF SlotsKept
<1>3. CASE AcquireOnDemandSlot(c)
  <2>1. CASE ~(slots < Slots)
    BY <1>1, <1>3, <2>1, SlotsKeptAccounted DEF AcquireOnDemandSlot, OnSlot
  <2> QED BY <1>3, <2>1, AcquireSlots
<1>4. CASE GivesBack(c)
  BY <1>4, FinishSlots
<1>r. ASSUME RunOnDemand(c) PROVE SlotsKept
  <2>1. call'[c].pc = "run" /\ \A d \in Call \ {c} : call'[d] = call[d]
    BY <1>0, <1>r DEF RunOnDemand, TypeOK, CallState
  <2> QED BY <1>r, <2>1 DEF RunOnDemand, SlotsKept, OnSlot
<1>5. ASSUME NEW i \in Inst, Resolve(c, i) PROVE SlotsKept
  <2>1. call'[c].pc = "resolved" /\ \A d \in Call \ {c} : call'[d] = call[d]
    BY <1>5 DEF Resolve, TypeOK, NoCall
  <2> QED BY <1>2, <1>5, <2>1 DEF Resolve, OnSlot
<1>6. ASSUME WarmHit(c) PROVE SlotsKept
  <2>1. call'[c].pc = "warmed" /\ \A d \in Call \ {c} : call'[d] = call[d]
    BY <1>0, <1>6 DEF WarmHit, TypeOK, CallState
  <2> QED BY <1>2, <1>6, <2>1 DEF WarmHit, OnSlot
<1>7. ASSUME ColdStart(c) PROVE SlotsKept
  <2>1. call'[c].pc = "warming" /\ \A d \in Call \ {c} : call'[d] = call[d]
    BY <1>0, <1>7 DEF ColdStart, TypeOK, CallState
  <2> QED BY <1>2, <1>7, <2>1 DEF ColdStart, OnSlot
<1>8. ASSUME Reread(c) PROVE SlotsKept
  <2>1. CASE End(c)
    BY <1>1, <1>8, <2>1 DEF Reread, OnSlot
  <2>2. CASE ~End(c)
    <3>1. call'[c].pc = "dial" /\ \A d \in Call \ {c} : call'[d] = call[d]
      BY <1>0, <1>8, <2>2 DEF Reread, TypeOK, CallState
    <3> QED BY <1>2, <1>8, <3>1 DEF Reread, OnSlot
  <2> QED BY <2>1, <2>2
<1>9. ASSUME Backend(c) PROVE SlotsKept
  <2>1. CASE End(c)
    BY <1>1, <1>9, <2>1 DEF Backend, OnSlot
  <2>2. CASE ~End(c)
    <3>1. call'[c].pc = "dial" /\ \A d \in Call \ {c} : call'[d] = call[d]
      BY <1>0, <1>9, <2>2 DEF Backend, TypeOK, CallState
    <3> QED BY <1>2, <1>9, <3>1 DEF Backend, OnSlot
  <2> QED BY <2>1, <2>2
<1>10. ASSUME Dial(c) PROVE SlotsKept
  <2> DEFINE i == call[c].inst
  <2>1. PICK calls \in [Call -> CallState] :
           calls = (IF cached[i] = call[c].addr THEN call ELSE Closed(call, i))
    BY ClosedOne DEF TypeOK
  <2>2. call' = [calls EXCEPT ![c] = [calls[c] EXCEPT !.pc = "flight", !.open = TRUE]]
    BY <1>10, <2>1 DEF Dial
  <2>3. call'[c].pc = "flight" /\ \A d \in Call \ {c} : call'[d] = calls[d]
    BY <2>2 DEF CallState
  <2>4. \A d \in Call : calls[d].pc = call[d].pc
    BY <2>1, ClosedOne DEF TypeOK
  <2> QED BY <1>10, <2>3, <2>4 DEF Dial, SlotsKept, OnSlot
<1>11. ASSUME Finish(c) PROVE SlotsKept
  BY <1>1, <1>11 DEF Finish, OnSlot
<1> QED BY <1>3, <1>4, <1>r, <1>5, <1>6, <1>7, <1>8, <1>9, <1>10, <1>11, SlotsKeptAccounted
        DEF CallStep, GivesBack

-----------------------------------------------------------------------------
(* The theorems                                                             *)

Strong == TypeOK /\ Inv /\ SlotsAccounted

LEMMA InitStrong == Init => Strong
<1> SUFFICES ASSUME Init PROVE SlotsAccounted
  BY InitTypes, InitInv DEF Strong
<1>1. {c \in Call : call[c].pc \in OnSlot} = {}
  BY DEF Init, NoCall, OnSlot
<1> QED BY <1>1, FS_EmptySet DEF SlotsAccounted, Init, OnSlot

LEMMA NextStrong == ASSUME Strong, [Next]_vars PROVE Strong'
<1>1. ASSUME NEW i \in Inst, Operation(i) \/ Operator(i) \/ Park(i) \/ ProcExit(i) \/ Wait(i)
      PROVE  Strong'
  BY <1>1, OperationTypes, OperatorTypes, OperationInv, OperatorInv,
     OperationSlots, OperatorSlots, SlotsKeptAccounted DEF Strong
<1>2. ASSUME NEW c \in Call, CallStep(c) PROVE Strong'
  <2>1. GivesBack(c) => slots > 0
    BY FinishSlots DEF Strong
  <2>2. call[c].pc # "idle" => call[c].inst \in Inst
    BY DEF Strong, Inv, CallOK
  <2> QED BY <1>2, <2>1, <2>2, CallStepTypes, CallStepInv, CallStepSlots DEF Strong
<1>3. CASE UNCHANGED vars
  BY <1>3 DEF Strong, vars, instVars, TypeOK, Inv, OpOK, OpCallOK, CallOK, GateFree, Live,
              SlotsAccounted
<1> QED BY <1>1, <1>2, <1>3 DEF Next

\* The inductive invariant: beside the types and the slots, what an operation and a
\* call of an instance may be doing while its gate is held or free, and that a
\* referenced call past its warm-up is on the live process.
THEOREM AlwaysStrong == Spec => []Strong
BY InitStrong, NextStrong, PTL DEF Spec

\* The types, for every number of instances, calls, ports and slots; that slots
\* stays within 0..Slots is the semaphore's promise.
THEOREM GatewayTyped == Spec => []TypeOK
BY AlwaysStrong, PTL DEF Strong

\* A referenced call is always on the process its reference is counted on.
THEOREM ReferencesReach == Spec => []ReferencedCallReachesItsProcess
<1>1. Strong => ReferencedCallReachesItsProcess
  BY DEF Strong, Inv, CallOK, ReferencedCallReachesItsProcess
<1> QED BY <1>1, AlwaysStrong, PTL

\* No connection outlives its place in the cache.
THEOREM ConnectionsClosed == Spec => []NoConnectionLeft
<1>1. Strong => NoConnectionLeft
  BY DEF Strong, Inv, CallOK, NoConnectionLeft
<1> QED BY <1>1, AlwaysStrong, PTL

\* Slots are neither lost nor made up, whatever ends the calls.
THEOREM SlotsBalance == Spec => []SlotsAccounted
BY AlwaysStrong, PTL DEF Strong

-----------------------------------------------------------------------------
(* Dialling                                                                 *)

\* No operation puts a call on the wire.
LEMMA OperationDialsNone ==
    ASSUME TypeOK, NEW i \in Inst, NEW d \in Call, call[d].pc = "dial",
           Operation(i) \/ Operator(i) \/ Park(i) \/ ProcExit(i) \/ Wait(i)
    PROVE  call'[d].pc # "flight"
<1>0. call \in [Call -> CallState] /\ call[d] \in CallState
  BY DEF TypeOK
<1>1. Closed(call, i)[d].pc = "dial" /\ Unreferenced(i)[d].pc = "dial"
  BY <1>0, ClosedOne, UnreferencedOne
<1>2. CASE call' = call \/ call' = Closed(call, i) \/ call' = Unreferenced(i)
  BY <1>1, <1>2
<1>3. CASE Announce(i)
  <2>1. CASE d # op[i].call
    <3>1. call'[d] = Closed(call, i)[d]
      BY <1>3, <2>1 DEF Announce
    <3> QED BY <1>1, <3>1
  <2>2. CASE d = op[i].call
    <3>1. call'[d] = NoCall \/ call'[d] = [call[d] EXCEPT !.pc = "warmed", !.ref = TRUE]
      BY <1>3, <2>2 DEF Announce
    <3>2. NoCall.pc # "flight" /\ [call[d] EXCEPT !.pc = "warmed", !.ref = TRUE].pc # "flight"
      BY <1>0 DEF NoCall, CallState
    <3> QED BY <3>1, <3>2
  <2> QED BY <2>1, <2>2
<1>4. CASE StartFail(i)
  <2> DEFINE failed == [c \in Call |-> IF c = op[i].call THEN NoCall ELSE call[c]]
  <2>1. failed \in [Call -> CallState] /\ failed[d].pc # "flight"
    BY <1>0, NoCallType DEF NoCall
  <2>2. call' = failed \/ call' = Closed(failed, i)
    BY <1>4 DEF StartFail
  <2> HIDE DEF failed
  <2>3. Closed(failed, i)[d].pc = failed[d].pc
    BY <2>1, ClosedOne
  <2> QED BY <2>1, <2>2, <2>3
<1>5. CASE StopDone(i) \/ \E p \in Port : StartProc(i, p)
  BY <1>2, <1>5 DEF StopDone, StartProc
<1>6. CASE Operator(i) \/ Park(i) \/ ProcExit(i) \/ Wait(i)
  BY <1>2, <1>6 DEF Operator, Start, Stop, Restart, SetModeOnDemand, SetModeResident,
                    SetModeCold, Park, ProcExit, Wait, stopProcess
<1> QED BY <1>3, <1>4, <1>5, <1>6 DEF Operation

\* What Dial(d) does to the calls.
LEMMA DialCalls ==
    ASSUME TypeOK, NEW d \in Call, Dial(d)
    PROVE  \A c \in Call :
              /\ c # d => call'[c].pc = call[c].pc
              /\ cached[call[d].inst] = call[d].addr /\ call[c].open => call'[c].open
<1> DEFINE i == call[d].inst
<1>1. PICK calls \in [Call -> CallState] :
         calls = (IF cached[i] = call[d].addr THEN call ELSE Closed(call, i))
  BY ClosedOne DEF TypeOK
<1>2. call' = [calls EXCEPT ![d] = [calls[d] EXCEPT !.pc = "flight", !.open = TRUE]]
  BY <1>1 DEF Dial
<1>3. \A c \in Call : calls[c].pc = call[c].pc
  BY <1>1, ClosedOne DEF TypeOK
<1>4. call'[d].open /\ \A c \in Call \ {d} : call'[c] = calls[c]
  BY <1>2 DEF CallState
<1>5. cached[i] = call[d].addr => calls = call
  BY <1>1
<1> QED BY <1>3, <1>4, <1>5

LEMMA StepDials ==
    ASSUME TypeOK, NEW c \in Call, NEW d \in Call, CallStep(c),
           call[d].pc = "dial", call'[d].pc = "flight"
    PROVE  Dial(d)
<1>1. CASE Dial(c)
  <2>1. c = d
    BY <1>1, DialCalls
  <2> QED BY <1>1, <2>1
<1>2. CASE ~Dial(c)
  <2>1. \A e \in Call \ {c} : call'[e] = call[e]
    BY <1>2 DEF CallStep, Resolve, AcquireOnDemandSlot, SetUpFail, RunOnDemand,
                FinishOnDemand, WarmHit, ColdStart,
                Reread, Backend, Finish, End, TypeOK
  <2>2. c = d
    BY <2>1
  <2>3. Finish(c)
    BY <1>2, <2>2 DEF CallStep, Resolve, AcquireOnDemandSlot, SetUpFail, RunOnDemand,
                FinishOnDemand, WarmHit,
                      ColdStart, Reread, Backend
  <2>4. call'[d] = NoCall
    BY <2>2, <2>3 DEF Finish, End, TypeOK
  <2> QED BY <2>4 DEF NoCall
<1> QED BY <1>1, <1>2

\* Two warm calls of an instance share its connection: neither closes it under
\* the other, as both are on the one process.
THEOREM WarmCallsShare == Spec => WarmDialSparesOthers
<1>1. ASSUME Strong, [Next]_vars, NEW c \in Call, NEW d \in Call,
             call[d].pc = "dial", call'[d].pc = "flight", call[d].ref,
             call[c].inst = call[d].inst, call[c].ref, call[c].open
      PROVE  call'[c].open
  <2>1. Dial(d)
    BY <1>1, OperationDialsNone, StepDials DEF Strong, Next, vars
  <2>2. CallOK(c) /\ CallOK(d)
    BY <1>1 DEF Strong, Inv
  <2>3. cached[call[d].inst] = call[d].addr
    BY <1>1, <2>2 DEF CallOK
  <2> QED BY <1>1, <2>1, <2>3, DialCalls DEF Strong
<1>2. Strong /\ [Next]_vars =>
         [\A c, d \in Call :
             /\ call[d].pc = "dial" /\ call'[d].pc = "flight" /\ call[d].ref
             /\ call[c].inst = call[d].inst /\ call[c].ref /\ call[c].open
             => call'[c].open]_vars
  BY <1>1
<1> QED BY <1>2, AlwaysStrong, PTL DEF Spec, WarmDialSparesOthers

=============================================================================
