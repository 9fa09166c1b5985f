--------------------------- MODULE CapKernelProofs ---------------------------
(***************************************************************************)
(* What is proved of CapKernel for any number of cores, objects and nested *)
(* calls: type correctness, the safety of its lock, and with both the      *)
(* inductive invariant and the safety theorems that follow from it; then   *)
(* that CapKernel implements CapRegistry: every step of the kernel is one  *)
(* step of the registry or leaves it as it is.                             *)
(***************************************************************************)
EXTENDS CapInvariants, CapRefinement, TLAPS

(* What a step of the running frame of core c does to the frames.           *)
LEMMA StepLemma ==
  ASSUME TypeOK, NEW c \in Cores, NEW g \in Frame, Step(c, g)
  PROVE  /\ fr' \in [Cores -> [Levels -> Frame]]
         /\ fr'[c][top[c]] = g
         /\ \A d \in Cores, l \in Levels :
              d # c \/ l # top[c] => fr'[d][l] = fr[d][l]
BY DEF TypeOK, Step

(* What entering the kernel on core c does to the frames.                   *)
LEMMA PushLemma ==
  ASSUME TypeOK, NEW c \in Cores, NEW g \in Frame, Push(c, g), top[c] < MaxDepth
  PROVE  /\ fr' \in [Cores -> [Levels -> Frame]]
         /\ top' \in [Cores -> Levels]
         /\ top'[c] = top[c] + 1
         /\ \A d \in Cores : d # c => top'[d] = top[d]
         /\ fr'[c][top[c] + 1] = g
         /\ \A d \in Cores, l \in Levels :
              d # c \/ l # top[c] + 1 => fr'[d][l] = fr[d][l]
BY DepthAssumption DEF TypeOK, Push, Levels

(* The frame on top of a core's stack is a frame.                           *)
LEMMA TopLemma ==
  ASSUME TypeOK, NEW c \in Cores
  PROVE  Top(c) \in Frame /\ top[c] \in Levels /\ top[c] \in Nat
BY DepthAssumption DEF TypeOK, Top, Levels

(* LiveRecord and DeadRecord are records.                                   *)
LEMMA RecordTypes ==
  /\ \A o \in AllObjects : LiveRecord(o) \in [Fields -> FieldValue]
  /\ DeadRecord \in [Fields -> FieldValue]
  /\ StaleRecord \in [Fields -> FieldValue]
BY DEF LiveRecord, DeadRecord, StaleRecord, Fields, FieldValue

(* The request of a frame that serves none is a request.                    *)
LEMMA NoRequestType == NoRequest \in Request
BY DEF NoRequest, Request, Handles, AllObjects

(* The frames of a core that has not entered the kernel are frames.         *)
LEMMA IdleFrameTypes ==
  /\ \A s \in {"on", "off"} : ThreadFrame(s) \in Frame
  /\ NoFrame \in Frame
<1>1. ASSUME NEW s \in {"on", "off"} PROVE ThreadFrame(s) \in Frame
  BY RecordTypes, NoRequestType DEF ThreadFrame, Frame, PCs, NumFields
<1>2. NoFrame \in Frame
  <2>1. ThreadFrame("off") \in Frame
    BY <1>1
  <2> QED BY <2>1 DEF NoFrame, Frame, PCs
<1> QED BY <1>1, <1>2

(* The frame kernel_invoke starts with is a frame.                          *)
LEMMA NewFrameType ==
  ASSUME NEW k \in {"call", "irq"}, NEW s \in {"on", "off"}, NEW r \in Request
  PROVE  NewFrame(k, s, r) \in Frame
<1>1. ThreadFrame(s) \in Frame
  BY IdleFrameTypes
<1> QED BY <1>1, Zenon DEF NewFrame, Frame, PCs

-----------------------------------------------------------------------------

(* The initial state has the right types.                                   *)
LEMMA TypeInit == Init => TypeOK
<1> SUFFICES ASSUME Init PROVE TypeOK
  OBVIOUS
<1>1. rec \in [Handles -> [Fields -> FieldValue]]
  BY RecordTypes DEF Init, Handles, AllObjects
<1>2. fr \in [Cores -> [Levels -> Frame]]
  BY IdleFrameTypes DEF Init
<1>3. top \in [Cores -> Levels]
  BY DepthAssumption DEF Init, Levels
<1> QED BY <1>1, <1>2, <1>3 DEF Init, TypeOK

(* Each change that a step makes to a frame yields a frame.                 *)
LEMMA FrameUpdates ==
  ASSUME NEW f \in Frame
  PROVE  /\ \A p \in PCs : [f EXCEPT !.pc = p] \in Frame
         /\ \A s \in {"on", "off"} : [f EXCEPT !.pc = "spin", !.prior = s] \in Frame
         /\ \A r \in [Fields -> FieldValue] :
              [f EXCEPT !.pc = "cap_unlock", !.snap = r] \in Frame
         /\ \A s \in {"create", "destroy"} :
              [f EXCEPT !.pc = "cap_lock", !.site = s] \in Frame
         /\ \A r \in {"none", "good", "bad"} :
              /\ [f EXCEPT !.pc = "verify", !.resp = r] \in Frame
              /\ [f EXCEPT !.pc = "return", !.resp = r] \in Frame
         /\ [f EXCEPT !.pc = "return", !.ok = 1] \in Frame
         /\ [f EXCEPT !.pc = "writing", !.i = 1] \in Frame
         /\ f.i \in 1..NumFields =>
              \A p \in PCs : [f EXCEPT !.i = @ + 1, !.pc = p] \in Frame
         /\ AfterUnlock(f) \in Frame
<1> USE DEF Frame
<1>1. \A p \in PCs : [f EXCEPT !.pc = p] \in Frame
  OBVIOUS
<1>2. \A s \in {"on", "off"} : [f EXCEPT !.pc = "spin", !.prior = s] \in Frame
  BY Zenon DEF PCs
<1>3. \A r \in [Fields -> FieldValue] :
        [f EXCEPT !.pc = "cap_unlock", !.snap = r] \in Frame
  BY Zenon DEF PCs
<1>4. \A s \in {"create", "destroy"} :
        [f EXCEPT !.pc = "cap_lock", !.site = s] \in Frame
  BY Zenon DEF PCs
<1>5. \A r \in {"none", "good", "bad"} :
        /\ [f EXCEPT !.pc = "verify", !.resp = r] \in Frame
        /\ [f EXCEPT !.pc = "return", !.resp = r] \in Frame
  BY ZenonT(40) DEF PCs
<1>6. [f EXCEPT !.pc = "return", !.ok = 1] \in Frame
  BY Zenon DEF PCs
<1>7. [f EXCEPT !.pc = "writing", !.i = 1] \in Frame
  <2>1. 1 \in 0..NumFields + 1
    BY DEF NumFields
  <2> QED BY <2>1, Zenon DEF PCs
<1>8. f.i \in 1..NumFields =>
        \A p \in PCs : [f EXCEPT !.i = @ + 1, !.pc = p] \in Frame
  <2>1. f.i \in 1..NumFields => f.i + 1 \in 0..NumFields + 1
    BY DEF NumFields
  <2>2. \A k \in 0..NumFields + 1, p \in PCs : [f EXCEPT !.i = k, !.pc = p] \in Frame
    BY Zenon
  <2> QED BY <2>1, <2>2, Zenon
<1>9. AfterUnlock(f) \in Frame
  <2>1. CASE f.site = "lookup"
    <3>1. \E p \in PCs : AfterUnlock(f) = [f EXCEPT !.pc = p]
      BY <2>1, Zenon DEF PCs, AfterUnlock
    <3> QED BY <3>1, <1>1
  <2>2. CASE f.site = "create"
    <3>1. AfterUnlock(f) =
            [f EXCEPT !.pc = "verify",
                      !.resp = IF f.req.response_cap >= 24 THEN "good" ELSE "none"]
      BY <2>2 DEF AfterUnlock
    <3> QED BY <3>1, <1>5, ZenonT(40)
  <2>3. CASE f.site = "destroy"
    <3>1. AfterUnlock(f) = [f EXCEPT !.pc = "verify"]
      BY <2>3 DEF AfterUnlock
    <3>2. "verify" \in PCs
      BY DEF PCs
    <3> QED BY <3>1, <3>2, <1>1, Zenon
  <2> QED BY <2>1, <2>2, <2>3
<1> QED BY <1>1, <1>2, <1>3, <1>4, <1>5, <1>6, <1>7, <1>8, <1>9, Zenon

-----------------------------------------------------------------------------
(* The six ways in which a step of frame f, which makes it g, moves the     *)
(* lock and the interrupt mask: mask, take, keep, release, unmask, neither. *)
LockMove(c, f, g) ==
  \/ /\ ~Masked(f) /\ Masked(g) /\ ~Holds(g) /\ g.prior = irq[c]
     /\ irq' = [irq EXCEPT ![c] = "off"] /\ lock' = lock
  \/ /\ Masked(f) /\ ~Holds(f) /\ Holds(g) /\ g.prior = f.prior
     /\ irq' = irq /\ lock = 0 /\ lock' = 1
  \/ /\ Holds(f) /\ Holds(g) /\ g.prior = f.prior
     /\ irq' = irq /\ lock' = lock
  \/ /\ Holds(f) /\ ~Holds(g) /\ Masked(g) /\ g.prior = f.prior
     /\ irq' = irq /\ lock' = 0
  \/ /\ Masked(f) /\ ~Holds(f) /\ ~Masked(g)
     /\ irq' = [irq EXCEPT ![c] = IF f.prior = "on" THEN "on" ELSE @]
     /\ lock' = lock
  \/ /\ ~Masked(f) /\ ~Masked(g) /\ irq' = irq /\ lock' = lock

FrameMove(c, f, g) ==
  /\ g \in Frame
  /\ Step(c, g) /\ top' = top
  /\ g.pc # "none" /\ g.kind = f.kind /\ g.irq0 = f.irq0
  /\ LockMove(c, f, g)

(* Every step of a running frame, but the return, replaces that frame by a  *)
(* frame with the same entry state, and moves the lock and the interrupt    *)
(* mask in one of six ways.                                                 *)
LEMMA MoveLemma ==
  ASSUME TypeOK, FramesInv, StackInv, NEW c \in Cores, Run(c), ~Return(c)
  PROVE  top[c] > 0 /\ \E g : FrameMove(c, Top(c), g)
<1> PICK f \in Frame : f = Top(c)
  BY TopLemma
<1>0. top[c] > 0
  <2>1. Top(c).pc # "external" \/ top[c] > 0
    BY DEF Run, CapLock, TestAndSet, Release, RestoreIrq, Check, Copy,
       WriteField, FindMethod, FactoryHandler, HandlerReturn, Verify, Return
  <2> QED BY <2>1, TopLemma DEF StackInv, Top
<1>00. FrameOK(f)
  BY <1>0, TopLemma DEF FramesInv, Top
<1> USE DEF FrameMove, LockMove, Masked, Holds
<1>1. CASE CapLock(c)
  <2> DEFINE g == [f EXCEPT !.pc = "spin", !.prior = irq[c]]
  <2>1. g \in Frame
    BY FrameUpdates, TopLemma, Zenon DEF TypeOK
  <2>2. g.pc = "spin" /\ g.prior = irq[c] /\ g.kind = f.kind /\ g.irq0 = f.irq0
    BY DEF Frame
  <2>3. FrameMove(c, f, g)
    BY <1>1, <2>1, <2>2 DEF CapLock
  <2> QED BY <2>3, <1>0, Zenon
<1>2. CASE TestAndSet(c)
  <2> DEFINE g == IF f.site = "create"
                      THEN [f EXCEPT !.pc = "writing", !.i = 1]
                      ELSE [f EXCEPT !.pc = "checking"]
  <2>1. g \in Frame
    BY FrameUpdates, Zenon DEF PCs
  <2>2. g.pc \in {"writing", "checking"} /\ g.prior = f.prior /\ g.kind = f.kind /\ g.irq0 = f.irq0
    BY DEF Frame
  <2>3. FrameMove(c, f, g)
    BY <1>2, <2>1, <2>2 DEF TestAndSet
  <2> QED BY <2>3, <1>0, Zenon
<1>3. CASE Release(c)
  <2> DEFINE g == [f EXCEPT !.pc = "restore"]
  <2>1. g \in Frame
    BY FrameUpdates, Zenon DEF PCs
  <2>2. g.pc = "restore" /\ g.prior = f.prior /\ g.kind = f.kind /\ g.irq0 = f.irq0
    BY DEF Frame
  <2>3. FrameMove(c, f, g)
    BY <1>3, <2>1, <2>2 DEF Release
  <2> QED BY <2>3, <1>0, Zenon
<1>4. CASE RestoreIrq(c)
  <2> DEFINE g == AfterUnlock(f)
  <2>1. g \in Frame
    BY FrameUpdates, Zenon
  <2>2. g.pc \in {"find_method", "return", "verify"} /\ g.prior = f.prior /\ g.kind = f.kind /\ g.irq0 = f.irq0
    BY DEF Frame, AfterUnlock
  <2>3. FrameMove(c, f, g)
    BY <1>4, <2>1, <2>2 DEF RestoreIrq
  <2> QED BY <2>3, <1>0
<1>5. CASE Check(c)
  <2> DEFINE g == IF ~IsLive(rec[RecordOf(f)])
                      THEN [f EXCEPT !.pc = "cap_unlock"]
                      ELSE IF f.site = "lookup"
                        THEN [f EXCEPT !.pc = "copying"]
                        ELSE [f EXCEPT !.pc = "writing", !.i = 1]
  <2>1. g \in Frame
    BY FrameUpdates, Zenon DEF PCs
  <2>2. g.pc \in {"cap_unlock", "copying", "writing"} /\ g.prior = f.prior /\ g.kind = f.kind /\ g.irq0 = f.irq0
    BY DEF Frame
  <2>3. FrameMove(c, f, g)
    BY <1>5, <2>1, <2>2 DEF Check
  <2> HIDE DEF g, FrameMove
  <2> QED BY <2>3, <1>0
<1>6. CASE Copy(c)
  <2> DEFINE g == [f EXCEPT !.pc = "cap_unlock", !.snap = rec[f.req.target]]
  <2>0. rec[f.req.target] \in [Fields -> FieldValue]
    BY DEF TypeOK, Frame, Request
  <2>1. g \in Frame
    BY <2>0, FrameUpdates, Zenon
  <2>2. g.pc = "cap_unlock" /\ g.prior = f.prior /\ g.kind = f.kind /\ g.irq0 = f.irq0
    BY DEF Frame
  <2>3. FrameMove(c, f, g)
    BY <1>6, <2>1, <2>2 DEF Copy
  <2> QED BY <2>3, <1>0, Zenon
<1>7. CASE WriteField(c)
  <2> DEFINE g == [f EXCEPT !.i = @ + 1,
                           !.pc = IF f.i = NumFields THEN "cap_unlock" ELSE "writing"]
  <2>1. g \in Frame
    BY <1>7, <1>00, FrameUpdates, Zenon DEF WriteField, FrameOK, FactorySection, PCs
  <2>2. g.pc \in {"cap_unlock", "writing"} /\ g.prior = f.prior /\ g.kind = f.kind /\ g.irq0 = f.irq0
    BY DEF Frame
  <2>3. FrameMove(c, f, g)
    BY <1>7, <2>1, <2>2 DEF WriteField
  <2> QED BY <2>3, <1>0, ZenonT(40)
<1>8. CASE FindMethod(c)
  <2> DEFINE g == [f EXCEPT !.pc = IF ~Accepts(f.snap, f.req) THEN "return"
                                    ELSE IF f.snap["handler"] = FactoryObj
                                      THEN "factory" ELSE "external"]
  <2>1. g \in Frame
    BY FrameUpdates, Zenon DEF PCs
  <2>2. g.pc \in {"return", "factory", "external"} /\ g.prior = f.prior /\ g.kind = f.kind /\ g.irq0 = f.irq0
    BY DEF Frame
  <2>3. FrameMove(c, f, g)
    BY <1>8, <2>1, <2>2 DEF FindMethod
  <2> QED BY <2>3, <1>0, Zenon
<1>9. CASE FactoryHandler(c)
  <2> DEFINE g == IF f.req.method = "create"
                      THEN IF f.req.arg = "NULL"
                             THEN [f EXCEPT !.pc = "verify"]
                             ELSE [f EXCEPT !.pc = "cap_lock", !.site = "create"]
                      ELSE IF f.req.arg = Factory
                             THEN [f EXCEPT !.pc = "verify"]
                             ELSE [f EXCEPT !.pc = "cap_lock", !.site = "destroy"]
  <2>1. g \in Frame
    BY FrameUpdates, Zenon DEF PCs
  <2>2. g.pc \in {"verify", "cap_lock"} /\ g.prior = f.prior /\ g.kind = f.kind /\ g.irq0 = f.irq0
    BY DEF Frame
  <2>3. FrameMove(c, f, g)
    BY <1>9, <2>1, <2>2 DEF FactoryHandler
  <2> QED BY <2>3, <1>0, Zenon
<1>10. CASE HandlerReturn(c)
  <2> PICK resp \in {"none", "good", "bad"} :
         Step(c, [f EXCEPT !.pc = "verify", !.resp = resp])
    BY <1>10, Zenon DEF HandlerReturn
  <2> DEFINE g == [f EXCEPT !.pc = "verify", !.resp = resp]
  <2>1. g \in Frame
    BY FrameUpdates, Zenon
  <2>2. g.pc = "verify" /\ g.prior = f.prior /\ g.kind = f.kind /\ g.irq0 = f.irq0
    BY DEF Frame
  <2>3. FrameMove(c, f, g)
    BY <1>10, <2>1, <2>2 DEF HandlerReturn
  <2> QED BY <2>3, <1>0, Zenon
<1>11. CASE Verify(c)
  <2> DEFINE g == IF HasResult(f.req) /\ f.resp # "good"
                      THEN [f EXCEPT !.pc = "return", !.resp = "none"]
                      ELSE [f EXCEPT !.pc = "return", !.ok = 1]
  <2>1. g \in Frame
    BY FrameUpdates, Zenon
  <2>2. g.pc = "return" /\ g.prior = f.prior /\ g.kind = f.kind /\ g.irq0 = f.irq0
    BY DEF Frame
  <2>3. FrameMove(c, f, g)
    BY <1>11, <2>1, <2>2 DEF Verify
  <2> QED BY <2>3, <1>0, Zenon
<1> QED
  BY <1>1, <1>2, <1>3, <1>4, <1>5, <1>6, <1>7, <1>8, <1>9, <1>10, <1>11, Zenon DEF Run

(* The initial state satisfies the stack and lock invariants.               *)
LEMMA LockInit == Init => LockInv
<1> SUFFICES ASSUME Init PROVE LockInv
  OBVIOUS
<1>1. StackInv
  BY DEF Init, ThreadFrame, NoFrame, StackInv, Levels
<1>2. IrqInv
  <2>1. ASSUME NEW c \in Cores PROVE Top(c) = ThreadFrame(irq[c]) /\ top[c] = 0
    BY DepthAssumption DEF Init, Top, Levels
  <2>2. ASSUME NEW c \in Cores PROVE ~Masked(Top(c)) /\ irq[c] = Top(c).irq0
    BY <2>1 DEF ThreadFrame, Masked, Holds
  <2> QED BY <2>1, <2>2, DepthAssumption DEF IrqInv, Levels
<1>3. MutualExclusion
  BY DEF Init, ThreadFrame, NoFrame, MutualExclusion, Levels, Holds
<1> QED BY <1>1, <1>2, <1>3 DEF LockInv

(* Entering the kernel pushes a frame that holds no lock.                   *)
LEMMA EnterLemma ==
  ASSUME TypeOK, NEW c \in Cores, Enter(c)
  PROVE  \E r \in Requests, k \in {"call", "irq"} :
           \E g \in Frame :
             /\ top[c] < MaxDepth /\ Push(c, g)
             /\ g = NewFrame(k, IF k = "irq" THEN "off" ELSE irq[c], r)
             /\ k = "irq"  => irq[c] = "on" /\ irq' = [irq EXCEPT ![c] = "off"]
             /\ k = "call" => irq' = irq /\ Top(c).pc = "external"
             /\ lock' = lock /\ rec' = rec
<1>1. CASE Invoke(c)
  <2> PICK r \in Requests : Push(c, NewFrame("call", irq[c], r))
    BY <1>1 DEF Invoke
  <2>1. NewFrame("call", irq[c], r) \in Frame
    BY NewFrameType, RequestsAssumption DEF TypeOK, WellFormedRequest
  <2> QED BY <1>1, <2>1 DEF Invoke
<1>2. CASE Interrupt(c)
  <2> PICK r \in Requests : Push(c, NewFrame("irq", "off", r))
    BY <1>2 DEF Interrupt
  <2>1. NewFrame("irq", "off", r) \in Frame
    BY NewFrameType, RequestsAssumption DEF TypeOK, WellFormedRequest
  <2> QED BY <1>2, <2>1 DEF Interrupt
<1> QED BY <1>1, <1>2 DEF Enter

(* No step leaves the types.                                                *)
LEMMA TypeStep == TypeOK /\ FramesInv /\ StackInv /\ [Next]_vars => TypeOK'
<1> SUFFICES ASSUME TypeOK, FramesInv, StackInv, [Next]_vars PROVE TypeOK'
  OBVIOUS
<1>1. CASE UNCHANGED vars
  BY <1>1 DEF vars, TypeOK
<1>2. ASSUME NEW c \in Cores, Enter(c) PROVE TypeOK'
  BY <1>2, EnterLemma, PushLemma DEF TypeOK
<1>3. ASSUME NEW c \in Cores, Return(c) PROVE TypeOK'
  <2>1. top[c] # 0
    BY <1>3, TopLemma DEF Return, StackInv, Top
  <2>2. top' \in [Cores -> Levels]
    BY <1>3, <2>1, TopLemma, DepthAssumption DEF Return, TypeOK, Levels
  <2>3. fr' \in [Cores -> [Levels -> Frame]]
    BY <1>3, IdleFrameTypes, StepLemma DEF Return
  <2>4. irq' \in [Cores -> {"on", "off"}] /\ lock' = lock /\ rec' = rec
    BY <1>3 DEF Return, TypeOK
  <2> QED BY <2>2, <2>3, <2>4 DEF TypeOK
<1>4. ASSUME NEW c \in Cores, Run(c), ~Return(c) PROVE TypeOK'
  <2> PICK g : FrameMove(c, Top(c), g)
    BY <1>4, MoveLemma
  <2>1. /\ fr' \in [Cores -> [Levels -> Frame]] /\ top' = top
        /\ lock' \in {0, 1} /\ irq' \in [Cores -> {"on", "off"}]
    BY StepLemma DEF FrameMove, LockMove, TypeOK
  <2>2. rec' \in [Handles -> [Fields -> FieldValue]]
    <3>1. CASE WriteField(c)
      <4> DEFINE f == Top(c)
      <4>1. FrameOK(f) /\ f.i \in 1..NumFields
        BY <3>1, TopLemma, <1>4, MoveLemma, Zenon
        DEF WriteField, FramesInv, FrameOK, FactorySection, Top
      <4>2. FieldAt(f) \in Fields /\ ImageOf(f)[FieldAt(f)] \in FieldValue
        BY <4>1, TopLemma, RecordTypes
        DEF FieldAt, ImageOf, CreateOrder, DestroyOrder, NumFields, Fields, Frame, Request
      <4> QED BY <3>1, <4>2, Zenon DEF WriteField, TypeOK
    <3>2. CASE rec' = rec
      BY <3>2 DEF TypeOK
    <3> QED BY <3>1, <3>2, <1>4 DEF Run, CapLock, TestAndSet, Release, RestoreIrq,
          Check, Copy, FindMethod, FactoryHandler, HandlerReturn, Verify
  <2> QED BY <2>1, <2>2 DEF TypeOK
<1> QED BY <1>1, <1>2, <1>3, <1>4 DEF Next, Run

-----------------------------------------------------------------------------

(* Entering the kernel, by a call or an interrupt, keeps the lock           *)
(* invariant: the frame below runs outside cap_lock's section.              *)
LEMMA LockEnter ==
  ASSUME TypeOK, LockInv, NEW c \in Cores, Enter(c)
  PROVE  LockInv'
<1> PICK r \in Requests, k \in {"call", "irq"}, g \in Frame :
        /\ top[c] < MaxDepth /\ Push(c, g)
        /\ g = NewFrame(k, IF k = "irq" THEN "off" ELSE irq[c], r)
        /\ k = "irq"  => irq[c] = "on" /\ irq' = [irq EXCEPT ![c] = "off"]
        /\ k = "call" => irq' = irq /\ Top(c).pc = "external"
        /\ lock' = lock /\ rec' = rec
  BY EnterLemma
<1>1. g.pc = "cap_lock" /\ g.kind = k /\ g.irq0 = IF k = "irq" THEN "off" ELSE irq[c]
  BY DEF NewFrame, ThreadFrame
<1>2. ~Holds(g) /\ ~Masked(g)
  BY <1>1 DEF Holds, Masked
<1>3. top[c] \in Levels /\ top[c] + 1 \in Levels /\ top[c] \in Nat
  BY TopLemma, DepthAssumption DEF Levels
<1>4. /\ fr'[c][top[c] + 1] = g
      /\ top'[c] = top[c] + 1
      /\ \A d \in Cores : d # c => top'[d] = top[d]
      /\ \A d \in Cores, l \in Levels : d # c \/ l # top[c] + 1 => fr'[d][l] = fr[d][l]
  BY PushLemma
<1>5. fr[c][top[c] + 1].pc = "none"
  BY <1>3 DEF LockInv, StackInv
<1>6. ~Masked(Top(c))
  <2>1. CASE k = "call"
    BY <2>1 DEF Masked, Holds
  <2>2. CASE k = "irq"
    BY <2>2, Zenon DEF LockInv, IrqInv
  <2> QED BY <2>1, <2>2
<1>7. irq[c] = Top(c).irq0
  BY <1>6, SMTT(30) DEF LockInv, IrqInv
<1>8. StackInv'
  <2> SUFFICES ASSUME NEW d \in Cores, NEW l \in Levels
               PROVE  /\ fr'[d][l].pc = "none" <=> l > top'[d]
                      /\ l > top'[d] => fr'[d][l] = NoFrame
                      /\ l = 0 <=> l <= top'[d] /\ fr'[d][l].kind = "thread"
                      /\ l = 0 => fr'[d][l].pc = "external"
    BY DEF StackInv
  <2>1. /\ fr[d][l].pc = "none" <=> l > top[d]
        /\ l > top[d] => fr[d][l] = NoFrame
        /\ l = 0 <=> l <= top[d] /\ fr[d][l].kind = "thread"
        /\ l = 0 => fr[d][l].pc = "external"
    BY DEF LockInv, StackInv
  <2>2. CASE d # c
    BY <2>1, <2>2, <1>4
  <2>3. CASE d = c /\ l = top[c] + 1
    BY <2>3, <1>1, <1>3, <1>4
  <2>4. CASE d = c /\ l # top[c] + 1
    BY <2>1, <2>4, <1>3, <1>4 DEF Levels
  <2> QED BY <2>2, <2>3, <2>4
<1>9. IrqInv'
  <2>1. \A d \in Cores : d # c => Top(d)' = Top(d) /\ irq'[d] = irq[d]
    BY <1>4, TopLemma DEF Top, TypeOK
  <2>2. Top(c)' = g
    BY <1>3, <1>4 DEF Top
  <2>3. irq'[c] = g.irq0
    BY <1>1 DEF TypeOK
  <2>4. ASSUME NEW d \in Cores
        PROVE  IF Masked(Top(d)') THEN irq'[d] = "off" /\ Top(d)'.prior = Top(d)'.irq0
                                  ELSE irq'[d] = Top(d)'.irq0
    <3>1. CASE d = c
      BY <3>1, <2>2, <2>3, <1>2
    <3>2. CASE d # c
      BY <3>2, <2>1, ZenonT(40) DEF LockInv, IrqInv
    <3> QED BY <3>1, <3>2
  <2>5. ASSUME NEW d \in Cores, NEW l \in Levels, l < top'[d]
        PROVE  /\ ~Masked(fr'[d][l])
               /\ fr'[d][l + 1].irq0 = IF fr'[d][l + 1].kind = "irq" THEN "off"
                                                                    ELSE fr'[d][l].irq0
               /\ fr'[d][l + 1].kind = "irq" => fr'[d][l].irq0 = "on"
    <3>1. CASE d = c /\ l = top[c]
      BY <3>1, <1>1, <1>3, <1>4, <1>6, <1>7, SMTT(30) DEF Top
    <3>2. CASE d # c \/ l # top[c]
      <4>1. l < top[d] /\ l + 1 \in Levels
        BY <3>2, <2>5, <1>3, <1>4, TopLemma, DepthAssumption DEF Levels
      <4>2. fr'[d][l] = fr[d][l] /\ fr'[d][l + 1] = fr[d][l + 1]
        BY <3>2, <4>1, <1>3, <1>4 DEF Levels
      <4> QED BY <4>1, <4>2 DEF LockInv, IrqInv
    <3> QED BY <3>1, <3>2, ZenonT(30)
  <2> QED BY <2>4, <2>5 DEF IrqInv, Masked, Holds, Top
<1>10. MutualExclusion'
  <2>1. \A d \in Cores, l \in Levels : Holds(fr'[d][l]) <=> Holds(fr[d][l])
    BY <1>1, <1>3, <1>4, <1>5 DEF Holds
  <2>2. /\ lock' = 1 <=> \E d \in Cores, l \in Levels : Holds(fr'[d][l])
        /\ \A d, e \in Cores : \A l, m \in Levels :
             Holds(fr'[d][l]) /\ Holds(fr'[e][m]) => d = e /\ l = m
    BY <2>1 DEF LockInv, MutualExclusion
  <2> QED BY <2>2 DEF MutualExclusion, Holds
<1> QED BY <1>8, <1>9, <1>10 DEF LockInv

(* Returning to the frame below keeps the lock invariant: interrupts are    *)
(* again as that frame had them.                                            *)
LEMMA LockReturn ==
  ASSUME TypeOK, LockInv, NEW c \in Cores, Return(c)
  PROVE  LockInv'
<1>1. top[c] \in Levels /\ top[c] - 1 \in Levels /\ top[c] > 0
  BY TopLemma, DepthAssumption DEF Return, LockInv, StackInv, Top, Levels
<1>2. /\ fr'[c][top[c]] = NoFrame
      /\ top'[c] = top[c] - 1
      /\ \A d \in Cores : d # c => top'[d] = top[d]
      /\ \A d \in Cores, l \in Levels : d # c \/ l # top[c] => fr'[d][l] = fr[d][l]
  BY StepLemma, IdleFrameTypes DEF Return, TypeOK
<1>3. NoFrame.pc = "none" /\ ~Holds(NoFrame)
  BY DEF NoFrame, ThreadFrame, Holds
<1>4. ~Masked(Top(c)) /\ ~Holds(Top(c))
  BY DEF Return, Masked, Holds
<1>5. StackInv'
  <2> SUFFICES ASSUME NEW d \in Cores, NEW l \in Levels
               PROVE  /\ fr'[d][l].pc = "none" <=> l > top'[d]
                      /\ l > top'[d] => fr'[d][l] = NoFrame
                      /\ l = 0 <=> l <= top'[d] /\ fr'[d][l].kind = "thread"
                      /\ l = 0 => fr'[d][l].pc = "external"
    BY DEF StackInv
  <2>1. /\ fr[d][l].pc = "none" <=> l > top[d]
        /\ l > top[d] => fr[d][l] = NoFrame
        /\ l = 0 <=> l <= top[d] /\ fr[d][l].kind = "thread"
        /\ l = 0 => fr[d][l].pc = "external"
    BY DEF LockInv, StackInv
  <2>2. CASE d # c
    BY <2>1, <2>2, <1>2
  <2>3. CASE d = c /\ l = top[c]
    BY <2>3, <1>1, <1>2, <1>3, SMTT(30) DEF Levels
  <2>4. CASE d = c /\ l # top[c]
    BY <2>1, <2>4, <1>1, <1>2, SMTT(30) DEF Levels
  <2> QED BY <2>2, <2>3, <2>4
<1>6. IrqInv'
  <2> DEFINE b == fr[c][top[c] - 1]
  <2>1. \A d \in Cores : d # c => Top(d)' = Top(d) /\ irq'[d] = irq[d]
    BY <1>2, TopLemma DEF Top, TypeOK, Return
  <2>2. Top(c)' = b
    BY <1>1, <1>2, SMTT(30) DEF Top, Levels
  <2>3. /\ ~Masked(b)
        /\ Top(c).irq0 = IF Top(c).kind = "irq" THEN "off" ELSE b.irq0
        /\ Top(c).kind = "irq" => b.irq0 = "on"
    BY <1>1 DEF LockInv, IrqInv, Top, Levels
  <2>4. irq'[c] = b.irq0
    <3>1. irq'[c] = IF Top(c).kind = "irq" THEN "on" ELSE irq[c]
      BY DEF Return, TypeOK
    <3>2. irq[c] = Top(c).irq0
      BY <1>4 DEF LockInv, IrqInv
    <3> QED BY <2>3, <3>1, <3>2
  <2>5. ASSUME NEW d \in Cores
        PROVE  IF Masked(Top(d)') THEN irq'[d] = "off" /\ Top(d)'.prior = Top(d)'.irq0
                                  ELSE irq'[d] = Top(d)'.irq0
    <3>1. CASE d = c
      BY <3>1, <2>2, <2>3, <2>4
    <3>2. CASE d # c
      BY <3>2, <2>1, Zenon DEF LockInv, IrqInv
    <3> QED BY <3>1, <3>2
  <2>6. ASSUME NEW d \in Cores, NEW l \in Levels, l < top'[d]
        PROVE  /\ ~Masked(fr'[d][l])
               /\ fr'[d][l + 1].irq0 = IF fr'[d][l + 1].kind = "irq" THEN "off"
                                                                    ELSE fr'[d][l].irq0
               /\ fr'[d][l + 1].kind = "irq" => fr'[d][l].irq0 = "on"
    <3>1. l < top[d] /\ l + 1 \in Levels
      BY <2>6, <1>1, <1>2, TopLemma, DepthAssumption, SMTT(30) DEF Levels
    <3>2. fr'[d][l] = fr[d][l] /\ fr'[d][l + 1] = fr[d][l + 1]
      BY <2>6, <3>1, <1>1, <1>2 DEF Levels
    <3> QED BY <3>1, <3>2 DEF LockInv, IrqInv
  <2> QED BY <2>5, <2>6 DEF IrqInv, Masked, Holds, Top
<1>7. MutualExclusion'
  <2>1. \A d \in Cores, l \in Levels : Holds(fr'[d][l]) <=> Holds(fr[d][l])
    BY <1>1, <1>2, <1>3, <1>4 DEF Top
  <2>2. /\ lock' = 1 <=> \E d \in Cores, l \in Levels : Holds(fr'[d][l])
        /\ \A d, e \in Cores : \A l, m \in Levels :
             Holds(fr'[d][l]) /\ Holds(fr'[e][m]) => d = e /\ l = m
    BY <2>1 DEF LockInv, MutualExclusion, Return
  <2> QED BY <2>2 DEF MutualExclusion, Holds
<1> QED BY <1>5, <1>6, <1>7 DEF LockInv

(* Every other step of the running frame keeps the lock invariant.          *)
LEMMA LockRun ==
  ASSUME TypeOK, LockInv, NEW c \in Cores, top[c] > 0,
         NEW g, FrameMove(c, Top(c), g)
  PROVE  LockInv'
<1> DEFINE f == Top(c)
<1>1. top[c] \in Levels /\ f = fr[c][top[c]] /\ f.pc # "none" /\ top' = top
  BY TopLemma DEF FrameMove, LockInv, StackInv, Top, Levels
<1>2. /\ fr'[c][top[c]] = g
      /\ \A d \in Cores, l \in Levels : d # c \/ l # top[c] => fr'[d][l] = fr[d][l]
  BY StepLemma DEF FrameMove
<1>3. g.pc # "none" /\ g.kind = f.kind /\ g.irq0 = f.irq0
  BY DEF FrameMove
<1>4. LockMove(c, f, g)
  BY DEF FrameMove
<1>5. StackInv'
  <2> SUFFICES ASSUME NEW d \in Cores, NEW l \in Levels
               PROVE  /\ fr'[d][l].pc = "none" <=> l > top[d]
                      /\ l > top[d] => fr'[d][l] = NoFrame
                      /\ l = 0 <=> l <= top[d] /\ fr'[d][l].kind = "thread"
                      /\ l = 0 => fr'[d][l].pc = "external"
    BY <1>1 DEF StackInv
  <2>1. /\ fr[d][l].pc = "none" <=> l > top[d]
        /\ l > top[d] => fr[d][l] = NoFrame
        /\ l = 0 <=> l <= top[d] /\ fr[d][l].kind = "thread"
        /\ l = 0 => fr[d][l].pc = "external"
    BY DEF LockInv, StackInv
  <2>2. CASE d # c \/ l # top[c]
    BY <2>1, <2>2, <1>2, SMTT(30)
  <2>3. CASE d = c /\ l = top[c]
    BY <2>1, <2>3, <1>1, <1>2, <1>3, SMTT(30) DEF Levels
  <2> QED BY <2>2, <2>3
<1>6. IrqInv'
  <2>1. \A d \in Cores : d # c => Top(d)' = Top(d) /\ irq'[d] = irq[d]
    BY <1>1, <1>2, <1>4, TopLemma DEF Top, TypeOK, LockMove
  <2>2. Top(c)' = g
    BY <1>1, <1>2 DEF Top
  <2>3. IF Masked(f) THEN irq[c] = "off" /\ f.prior = f.irq0 ELSE irq[c] = f.irq0
    BY Zenon DEF LockInv, IrqInv
  <2>4. IF Masked(g) THEN irq'[c] = "off" /\ g.prior = g.irq0 ELSE irq'[c] = g.irq0
    <3>1. f.irq0 \in {"on", "off"} /\ irq[c] \in {"on", "off"}
      BY TopLemma DEF Frame, TypeOK
    <3>2. \A x : [irq EXCEPT ![c] = x][c] = x
      BY DEF TypeOK
    <3>3. Holds(f) => Masked(f)
      BY DEF Masked
    <3>4. Holds(g) => Masked(g)
      BY DEF Masked
    <3> HIDE DEF f
    <3> QED BY <1>3, <1>4, <2>3, <3>1, <3>2, <3>3, <3>4 DEF LockMove
  <2>5. ASSUME NEW d \in Cores
        PROVE  IF Masked(Top(d)') THEN irq'[d] = "off" /\ Top(d)'.prior = Top(d)'.irq0
                                  ELSE irq'[d] = Top(d)'.irq0
    <3>1. CASE d = c
      BY <3>1, <2>2, <2>4
    <3>2. CASE d # c
      BY <3>2, <2>1, Zenon DEF LockInv, IrqInv
    <3> QED BY <3>1, <3>2
  <2>6. ASSUME NEW d \in Cores, NEW l \in Levels, l < top[d]
        PROVE  /\ ~Masked(fr'[d][l])
               /\ fr'[d][l + 1].irq0 = IF fr'[d][l + 1].kind = "irq" THEN "off"
                                                                    ELSE fr'[d][l].irq0
               /\ fr'[d][l + 1].kind = "irq" => fr'[d][l].irq0 = "on"
    <3>1. l + 1 \in Levels /\ fr'[d][l] = fr[d][l]
      BY <2>6, <1>1, <1>2, TopLemma, DepthAssumption, SMTT(30) DEF Levels
    <3>2. fr'[d][l + 1].irq0 = fr[d][l + 1].irq0 /\ fr'[d][l + 1].kind = fr[d][l + 1].kind
      BY <3>1, <1>1, <1>2, <1>3
    <3>3. /\ ~Masked(fr[d][l])
          /\ fr[d][l + 1].irq0 = IF fr[d][l + 1].kind = "irq" THEN "off"
                                                               ELSE fr[d][l].irq0
          /\ fr[d][l + 1].kind = "irq" => fr[d][l].irq0 = "on"
      BY <2>6 DEF LockInv, IrqInv
    <3> QED BY <3>1, <3>2, <3>3
  <2> QED BY <2>5, <2>6, <1>1, SMTT(30) DEF IrqInv, Masked, Holds, Top
<1>7. MutualExclusion'
  <2>1. \A d \in Cores, l \in Levels :
          d # c \/ l # top[c] => (Holds(fr'[d][l]) <=> Holds(fr[d][l]))
    BY <1>2
  <2>2. Holds(fr[c][top[c]]) <=> Holds(f)
    BY <1>1
  <2>3. Holds(fr'[c][top[c]]) <=> Holds(g)
    BY <1>2
  <2>4. Holds(f) => Masked(f)
    BY DEF Masked
  <2>5. Holds(g) => Masked(g)
    BY DEF Masked
  <2>6. \/ (Holds(f) <=> Holds(g)) /\ lock' = lock
        \/ ~Holds(f) /\ Holds(g) /\ lock = 0 /\ lock' = 1
        \/ Holds(f) /\ ~Holds(g) /\ lock' = 0
    BY <1>4, <2>4, <2>5, Zenon DEF LockMove
  <2>7. /\ lock' = 1 <=> \E d \in Cores, l \in Levels : Holds(fr'[d][l])
        /\ \A d, e \in Cores : \A l, m \in Levels :
             Holds(fr'[d][l]) /\ Holds(fr'[e][m]) => d = e /\ l = m
    <3> HIDE DEF f
    <3> QED BY <2>1, <2>2, <2>3, <2>6, <1>1 DEF LockInv, MutualExclusion
  <2> QED BY <2>7 DEF MutualExclusion, Holds
<1> QED BY <1>5, <1>6, <1>7 DEF LockInv

(* No step of the system breaks the lock invariant.                         *)
LEMMA LockStep == TypeOK /\ FramesInv /\ LockInv /\ [Next]_vars => LockInv'
<1> SUFFICES ASSUME TypeOK, FramesInv, LockInv, [Next]_vars PROVE LockInv'
  OBVIOUS
<1>0. StackInv
  BY SMTT(30) DEF LockInv
<1>1. CASE UNCHANGED vars
  BY <1>1 DEF vars, LockInv, StackInv, IrqInv, MutualExclusion, Top, Masked, Holds
<1>2. ASSUME NEW c \in Cores, Enter(c) PROVE LockInv'
  BY <1>2, LockEnter
<1>3. ASSUME NEW c \in Cores, Return(c) PROVE LockInv'
  BY <1>3, LockReturn
<1>4. ASSUME NEW c \in Cores, Run(c), ~Return(c) PROVE LockInv'
  BY <1>0, <1>4, MoveLemma, LockRun
<1> QED BY <1>1, <1>2, <1>3, <1>4 DEF Next

-----------------------------------------------------------------------------
(* What is in the records and in the frames.                                *)


(* The records of distinct objects differ, and none is a dead record.       *)
LEMMA LiveRecordFacts ==
  ASSUME NEW o \in AllObjects
  PROVE  /\ LiveRecord(o)["handler"] = o
         /\ LiveRecord(o)["schema_table"] = o
         /\ LiveRecord(o)["schema_index"] = o
         /\ IsLive(LiveRecord(o))
         /\ LiveRecord(o) # DeadRecord
         /\ ~IsLive(DeadRecord)
BY DEF LiveRecord, DeadRecord, IsLive, Fields

(* At most one frame holds the lock, so a core that holds it is alone.      *)
LEMMA HolderAlone ==
  ASSUME TypeOK, LockInv, NEW c \in Cores, NEW d \in Cores,
         Holds(Top(c)), Holds(Top(d))
  PROVE  c = d
BY TopLemma DEF LockInv, MutualExclusion, Top

(* A frame that does not exist, and one that kernel_invoke starts with,     *)
(* satisfy the frame invariant.                                             *)
LEMMA FreshFrames ==
  /\ FrameOK(NoFrame)
  /\ \A r \in Requests, k \in {"call", "irq"}, s \in {"on", "off"} :
       FrameOK(NewFrame(k, s, r))
<1>1. FrameOK(NoFrame)
  <2>1. /\ NoFrame.pc = "none" /\ NoFrame.site = "lookup" /\ NoFrame.i = 0
        /\ NoFrame.snap = DeadRecord /\ NoFrame.req = NoRequest
        /\ NoFrame.ok = 0 /\ NoFrame.resp = "none"
    BY DEF NoFrame, ThreadFrame
  <2>2. WellFormedRequest(NoRequest)
    BY NoRequestType DEF WellFormedRequest, NoRequest
  <2> QED BY <2>1, <2>2 DEF FrameOK, WholeOrDead, Accepted
<1>2. ASSUME NEW r \in Requests, NEW k \in {"call", "irq"}, NEW s \in {"on", "off"}
      PROVE  FrameOK(NewFrame(k, s, r))
  <2> DEFINE g == NewFrame(k, s, r)
  <2>1. /\ g.pc = "cap_lock" /\ g.site = "lookup" /\ g.i = 0
        /\ g.snap = DeadRecord /\ g.req = r
        /\ g.ok = 0 /\ g.resp = "none"
    BY DEF NewFrame, ThreadFrame
  <2>2. WellFormedRequest(r)
    BY RequestsAssumption
  <2> HIDE DEF g
  <2>3. FrameOK(g)
    BY <2>1, <2>2 DEF FrameOK, WholeOrDead, Accepted
  <2> QED BY <2>3 DEF g
<1> QED BY <1>1, <1>2

(* No step of a running frame breaks what the frame says of itself.         *)
LEMMA FrameRun ==
  ASSUME TypeOK, LockInv, FramesInv, RecordsInv,
         NEW c \in Cores, Run(c), ~Return(c)
  PROVE  FrameOK(Top(c)')
<1> PICK f \in Frame : f = Top(c)
  BY TopLemma
<1>0. StackInv
  BY DEF LockInv
<1>1. top[c] > 0 /\ top[c] \in Levels /\ top' = top
  BY <1>0, MoveLemma, TopLemma DEF FrameMove
<1>2. FrameOK(f)
  BY <1>1 DEF FramesInv, Top
<1>3. ASSUME NEW g \in Frame, Step(c, g), FrameOK(g)
      PROVE  FrameOK(Top(c)')
  <2>1. Top(c)' = g
    BY <1>1, <1>3, StepLemma, ZenonT(60) DEF Top
  <2> QED BY <1>3, <2>1
<1> USE DEF FrameOK, FactorySection, Accepted, LookingUp, BeforeCopy, FactoryResponse
<1>4. CASE CapLock(c)
  <2> DEFINE g == [f EXCEPT !.pc = "spin", !.prior = irq[c]]
  <2>1. g \in Frame /\ Step(c, g) /\ f.pc = "cap_lock"
    BY <1>4, FrameUpdates, Zenon DEF TypeOK, CapLock
  <2>2. /\ g.pc = "spin" /\ g.site = f.site /\ g.i = f.i /\ g.req = f.req
        /\ g.snap = f.snap /\ g.resp = f.resp /\ g.ok = f.ok
    BY DEF Frame
  <2> HIDE DEF g
  <2>3. FrameOK(g)
    BY <1>2, <2>1, <2>2, ZenonT(60)
  <2> QED BY <1>3, <2>1, <2>3, Zenon
<1>5. CASE TestAndSet(c)
  <2> DEFINE g == IF f.site = "create"
                    THEN [f EXCEPT !.pc = "writing", !.i = 1]
                    ELSE [f EXCEPT !.pc = "checking"]
  <2>1. g \in Frame /\ Step(c, g) /\ f.pc = "spin"
    BY <1>5, FrameUpdates, Zenon DEF TestAndSet, PCs
  <2>2. /\ g.site = f.site /\ g.req = f.req
        /\ g.snap = f.snap /\ g.resp = f.resp /\ g.ok = f.ok
        /\ IF f.site = "create" THEN g.pc = "writing" /\ g.i = 1
                                ELSE g.pc = "checking" /\ g.i = f.i
    BY SMTT(30) DEF Frame
  <2> HIDE DEF g
  <2>3. FrameOK(g)
    <3>0. 1 \in 1 .. NumFields
      BY DEF NumFields
    <3>1. CASE f.site = "create"
      <4>1. g.pc = "writing" /\ g.i = 1
        BY <2>2, <3>1, Zenon
      <4> QED BY <1>2, <2>1, <2>2, <3>0, <3>1, <4>1, ZenonT(60)
    <3>2. CASE f.site # "create"
      <4>1. g.pc = "checking" /\ g.i = f.i
        BY <2>2, <3>2, Zenon
      <4> QED BY <1>2, <2>1, <2>2, <3>2, <4>1, ZenonT(60)
    <3> QED BY <3>1, <3>2, Zenon
  <2> QED BY <1>3, <2>1, <2>3, Zenon
<1>6. CASE Release(c)
  <2> DEFINE g == [f EXCEPT !.pc = "restore"]
  <2>1. g \in Frame /\ Step(c, g) /\ f.pc = "cap_unlock"
    BY <1>6, FrameUpdates, Zenon DEF Release, PCs
  <2>2. /\ g.pc = "restore" /\ g.site = f.site /\ g.i = f.i /\ g.req = f.req
        /\ g.snap = f.snap /\ g.resp = f.resp /\ g.ok = f.ok
    BY DEF Frame
  <2> HIDE DEF g
  <2>3. FrameOK(g)
    BY <1>2, <2>1, <2>2, ZenonT(60)
  <2> QED BY <1>3, <2>1, <2>3, Zenon
<1>7. CASE RestoreIrq(c)
  <2> DEFINE g == AfterUnlock(f)
  <2>1. g \in Frame /\ Step(c, g) /\ f.pc = "restore"
    BY <1>7, FrameUpdates, Zenon DEF RestoreIrq
  <2>2. /\ g.site = f.site /\ g.i = f.i /\ g.req = f.req
        /\ g.snap = f.snap /\ g.ok = f.ok
        /\ f.site = "lookup"  => g.pc = (IF IsLive(f.snap) THEN "find_method" ELSE "return")
                                 /\ g.resp = f.resp
        /\ f.site = "create"  => g.pc = "verify"
             /\ g.resp = IF f.req.response_cap >= 24 THEN "good" ELSE "none"
        /\ f.site = "destroy" => g.pc = "verify" /\ g.resp = f.resp
    BY DEF Frame, AfterUnlock
  <2>3. f.site \in {"lookup", "create", "destroy"}
    BY DEF Frame
  <2>4. LiveRecord(FactoryObj)["handler"] = FactoryObj /\ LiveRecord(FactoryObj) # DeadRecord
    BY LiveRecordFacts, ZenonT(30) DEF AllObjects
  <2>5. ~IsLive(DeadRecord) /\ (f.snap # DeadRecord => IsLive(f.snap))
    BY <1>2, LiveRecordFacts, <2>4 DEF WholeOrDead, AllObjects
  <2>6. DeadRecord["handler"] # FactoryObj
    BY NamesAssumption, SMTT(30) DEF DeadRecord, Fields, AllObjects
  <2> HIDE DEF g
  <2>7. FrameOK(g)
    <3>1. CASE f.site = "lookup"
      <4>1. CASE f.snap = DeadRecord
        <5>1. g.pc = "return" /\ g.resp = f.resp
          BY <2>2, <2>5, <3>1, <4>1, Zenon
        <5>2. 0 # 1
          OBVIOUS
        <5> QED BY <1>2, <2>1, <2>2, <2>6, <3>1, <4>1, <5>1, <5>2, ZenonT(60)
      <4>2. CASE f.snap # DeadRecord
        <5>1. g.pc = "find_method" /\ g.resp = f.resp
          BY <2>2, <2>5, <3>1, <4>2, Zenon
        <5> QED BY <1>2, <2>1, <2>2, <3>1, <4>2, <5>1, ZenonT(60)
      <4> QED BY <4>1, <4>2, Zenon
    <3>2. CASE f.site = "create"
      BY <1>2, <2>1, <2>2, <2>4, <3>2, ZenonT(60)
    <3>3. CASE f.site = "destroy"
      BY <1>2, <2>1, <2>2, <2>4, <3>3, ZenonT(60)
    <3> QED BY <2>3, <3>1, <3>2, <3>3, ZenonT(60)
  <2> QED BY <1>3, <2>1, <2>7, Zenon
<1>8. CASE Check(c)
  <2> DEFINE g == IF ~IsLive(rec[RecordOf(f)])
                    THEN [f EXCEPT !.pc = "cap_unlock"]
                    ELSE IF f.site = "lookup"
                      THEN [f EXCEPT !.pc = "copying"]
                      ELSE [f EXCEPT !.pc = "writing", !.i = 1]
  <2>1. g \in Frame /\ Step(c, g) /\ f.pc = "checking"
    BY <1>8, FrameUpdates, Zenon DEF Check, PCs
  <2>2. /\ g.site = f.site /\ g.req = f.req
        /\ g.snap = f.snap /\ g.resp = f.resp /\ g.ok = f.ok
        /\ \/ g.pc = "cap_unlock" /\ g.i = f.i
           \/ g.pc = "copying" /\ g.i = f.i /\ f.site = "lookup"
           \/ g.pc = "writing" /\ g.i = 1 /\ f.site # "lookup"
    BY SMTT(30) DEF Frame
  <2> HIDE DEF g
  <2>3. FrameOK(g)
    <3>0. 1 \in 1 .. NumFields
      BY DEF NumFields
    <3>1. CASE g.pc = "cap_unlock" /\ g.i = f.i
      BY <1>2, <2>1, <2>2, <3>1, ZenonT(60)
    <3>2. CASE g.pc = "copying" /\ g.i = f.i /\ f.site = "lookup"
      BY <1>2, <2>1, <2>2, <3>2, ZenonT(60)
    <3>3. CASE g.pc = "writing" /\ g.i = 1 /\ f.site # "lookup"
      BY <1>2, <2>1, <2>2, <3>0, <3>3, ZenonT(60)
    <3> QED BY <2>2, <3>1, <3>2, <3>3, Zenon
  <2> QED BY <1>3, <2>1, <2>3, Zenon
<1>9. CASE Copy(c)
  <2> DEFINE r == rec[f.req.target]
  <2> DEFINE g == [f EXCEPT !.pc = "cap_unlock", !.snap = r]
  <2>1. r \in [Fields -> FieldValue] /\ f.req.target \in Handles
    BY DEF TypeOK, Frame, Request
  <2>2. g \in Frame /\ Step(c, g) /\ f.pc = "copying"
    BY <1>9, <2>1, FrameUpdates, Zenon DEF Copy
  <2>3. /\ g.pc = "cap_unlock" /\ g.site = f.site /\ g.i = f.i /\ g.req = f.req
        /\ g.snap = r /\ g.resp = f.resp /\ g.ok = f.ok
    BY ZenonT(30) DEF Frame
  <2>4. WholeOrDead(r)
    <3>1. ~BeingWritten(f.req.target)
      BY <2>2, HolderAlone DEF BeingWritten, Holds
    <3>2. IsLive(r)
      BY <2>2, ZenonT(60) DEF RecordsInv
    <3> QED BY <2>1, <3>1, <3>2, ZenonT(30) DEF RecordsInv, WholeOrDead
  <2> HIDE DEF g, r
  <2>5. FrameOK(g)
    BY <1>2, <2>2, <2>3, <2>4, ZenonT(60)
  <2> QED BY <1>3, <2>2, <2>5, Zenon
<1>10. CASE WriteField(c)
  <2> DEFINE g == [f EXCEPT !.i = @ + 1,
                            !.pc = IF f.i = NumFields THEN "cap_unlock" ELSE "writing"]
  <2>1. f.pc = "writing" /\ f.i \in 1..NumFields /\ f.site # "lookup"
    BY <1>2, <1>10 DEF WriteField
  <2>2. g \in Frame /\ Step(c, g)
    BY <1>10, <2>1, FrameUpdates, Zenon DEF WriteField, PCs
  <2>3. /\ g.site = f.site /\ g.i = f.i + 1 /\ g.req = f.req
        /\ g.snap = f.snap /\ g.resp = f.resp /\ g.ok = f.ok
        /\ g.pc = IF f.i = NumFields THEN "cap_unlock" ELSE "writing"
    BY DEF Frame
  <2>4. IF f.i = NumFields THEN g.i = NumFields + 1 ELSE g.i \in 1..NumFields
    BY <2>1, <2>3, SMTT(30) DEF NumFields
  <2> HIDE DEF g
  <2>5. FrameOK(g)
    BY <1>2, <2>1, <2>3, <2>4, ZenonT(60)
  <2> QED BY <1>3, <2>2, <2>5, Zenon
<1>11. CASE FindMethod(c)
  <2> DEFINE g == [f EXCEPT !.pc = IF ~Accepts(f.snap, f.req) THEN "return"
                                   ELSE IF f.snap["handler"] = FactoryObj
                                     THEN "factory" ELSE "external"]
  <2>1. g \in Frame /\ Step(c, g) /\ f.pc = "find_method"
    BY <1>11, FrameUpdates, Zenon DEF FindMethod, PCs
  <2>2. /\ g.site = f.site /\ g.i = f.i /\ g.req = f.req
        /\ g.snap = f.snap /\ g.resp = f.resp /\ g.ok = f.ok
        /\ g.pc = IF ~Accepts(f.snap, f.req) THEN "return"
                  ELSE IF f.snap["handler"] = FactoryObj THEN "factory" ELSE "external"
    BY SMTT(30) DEF Frame
  <2> HIDE DEF g
  <2>3. FrameOK(g)
    <3>1. CASE ~Accepts(f.snap, f.req)
      <4>1. g.pc = "return"
        BY <2>2, <3>1, Zenon
      <4>2. 0 # 1
        OBVIOUS
      <4> QED BY <1>2, <2>1, <2>2, <3>1, <4>1, <4>2, ZenonT(60)
    <3>2. CASE Accepts(f.snap, f.req) /\ f.snap["handler"] = FactoryObj
      <4>1. g.pc = "factory"
        BY <2>2, <3>2, Zenon
      <4> QED BY <1>2, <2>1, <2>2, <3>2, <4>1, ZenonT(60)
    <3>3. CASE Accepts(f.snap, f.req) /\ f.snap["handler"] # FactoryObj
      <4>1. g.pc = "external"
        BY <2>2, <3>3, Zenon
      <4> QED BY <1>2, <2>1, <2>2, <3>3, <4>1, ZenonT(60)
    <3> QED BY <3>1, <3>2, <3>3, Zenon
  <2> QED BY <1>3, <2>1, <2>3, Zenon
<1>12. CASE FactoryHandler(c)
  <2> DEFINE g == IF f.req.method = "create"
                    THEN IF f.req.arg = "NULL"
                           THEN [f EXCEPT !.pc = "verify"]
                           ELSE [f EXCEPT !.pc = "cap_lock", !.site = "create"]
                    ELSE IF f.req.arg = Factory
                           THEN [f EXCEPT !.pc = "verify"]
                           ELSE [f EXCEPT !.pc = "cap_lock", !.site = "destroy"]
  <2>1. g \in Frame /\ Step(c, g) /\ f.pc = "factory"
    BY <1>12, FrameUpdates, Zenon DEF FactoryHandler, PCs
  <2>2. /\ g.i = f.i /\ g.req = f.req
        /\ g.snap = f.snap /\ g.resp = f.resp /\ g.ok = f.ok
        /\ \/ g.pc = "verify" /\ g.site = f.site
           \/ g.pc = "cap_lock" /\ g.site = "create"
              /\ f.req.method = "create" /\ f.req.arg # "NULL"
           \/ g.pc = "cap_lock" /\ g.site = "destroy"
              /\ f.req.method # "create" /\ f.req.arg # Factory
    BY DEF Frame
  <2>3. \E o \in AllObjects : f.snap = LiveRecord(o)
    BY <1>2, <2>1 DEF WholeOrDead
  <2>4. f.snap = LiveRecord(FactoryObj)
    BY <1>2, <2>1, <2>3, LiveRecordFacts
  <2>5. f.req.method \in {"create", "destroy"}
    BY <1>2, <2>1, <2>4, LiveRecordFacts, SMTT(30) DEF Accepts, Methods, AllObjects
  <2>6. f.site = "lookup"
    BY <1>2, <2>1, Zenon
  <2>7. /\ f.req.method = "create" /\ f.req.arg # "NULL" => f.req.arg \in Slots
        /\ f.req.method = "destroy" /\ f.req.arg # Factory => f.req.arg \in Slots
    <3>1. WellFormedRequest(f.req)
      BY <1>2, Zenon
    <3> QED BY <3>1, Zenon DEF WellFormedRequest, Handles
  <2> HIDE DEF g
  <2>8. FrameOK(g)
    BY <1>2, <2>1, <2>2, <2>4, <2>5, <2>6, <2>7, ZenonT(60)
  <2> QED BY <1>3, <2>1, <2>8, Zenon
<1>13. CASE HandlerReturn(c)
  <2> PICK resp \in {"none", "good", "bad"} :
         Step(c, [f EXCEPT !.pc = "verify", !.resp = resp])
    BY <1>13, Zenon DEF HandlerReturn
  <2> DEFINE g == [f EXCEPT !.pc = "verify", !.resp = resp]
  <2>1. g \in Frame /\ Step(c, g) /\ f.pc = "external"
    BY <1>13, FrameUpdates, Zenon DEF HandlerReturn
  <2>2. /\ g.pc = "verify" /\ g.site = f.site /\ g.i = f.i /\ g.req = f.req
        /\ g.snap = f.snap /\ g.ok = f.ok
    BY DEF Frame
  <2> HIDE DEF g
  <2>3. FrameOK(g)
    BY <1>2, <2>1, <2>2, ZenonT(60)
  <2> QED BY <1>3, <2>1, <2>3
<1>14. CASE Verify(c)
  <2> DEFINE g == IF HasResult(f.req) /\ f.resp # "good"
                    THEN [f EXCEPT !.pc = "return", !.resp = "none"]
                    ELSE [f EXCEPT !.pc = "return", !.ok = 1]
  <2>1. g \in Frame /\ Step(c, g) /\ f.pc = "verify"
    BY <1>14, FrameUpdates, Zenon DEF Verify
  <2>2. /\ g.pc = "return" /\ g.site = f.site /\ g.i = f.i /\ g.req = f.req
        /\ g.snap = f.snap
        /\ g.ok = IF HasResult(f.req) /\ f.resp # "good" THEN f.ok ELSE 1
    BY DEF Frame
  <2>3. f.snap["handler"] = FactoryObj => f.req.method \in {"create", "destroy"}
    <3>1. \E o \in AllObjects : f.snap = LiveRecord(o)
      BY <1>2, <2>1, ZenonT(30) DEF WholeOrDead
    <3> QED BY <1>2, <2>1, <3>1, LiveRecordFacts, SMTT(30) DEF Accepts, Methods, AllObjects
  <2> HIDE DEF g
  <2>4. FrameOK(g)
    BY <1>2, <2>1, <2>2, <2>3, ZenonT(30) DEF HasResult
  <2> QED BY <1>3, <2>1, <2>4, Zenon
<1> QED
  BY <1>4, <1>5, <1>6, <1>7, <1>8, <1>9, <1>10, <1>11, <1>12, <1>13, <1>14, Zenon DEF Run

-----------------------------------------------------------------------------

(* The initial state satisfies the inductive invariant.                     *)
LEMMA InvInit == Init => IInv
<1> SUFFICES ASSUME Init PROVE IInv
  OBVIOUS
<1>1. TypeOK /\ LockInv
  BY TypeInit, LockInit
<1>2. FramesInv
  BY FreshFrames DEF Init, FramesInv
<1>3. RecordsInv
  <2>1. ASSUME NEW c \in Cores PROVE Top(c).pc = "external"
    BY DepthAssumption DEF Init, Top, Levels, ThreadFrame
  <2>2. rec[Factory] = LiveRecord(FactoryObj)
    BY DEF Init, Handles
  <2>3. ASSUME NEW h \in Handles, h # Factory PROVE ~IsLive(rec[h])
    BY <2>3 DEF Init, IsLive, StaleRecord, DeadRecord, Fields
  <2> QED BY <2>1, <2>2, <2>3 DEF RecordsInv, FactoryAlwaysLive, AllObjects
<1> QED BY <1>1, <1>2, <1>3 DEF IInv

(* No step breaks the frame invariant.                                      *)
LEMMA FramesStep == IInv /\ [Next]_vars => FramesInv'
<1> SUFFICES ASSUME IInv, [Next]_vars PROVE FramesInv'
  OBVIOUS
<1>0. TypeOK /\ LockInv /\ FramesInv /\ RecordsInv /\ StackInv
  BY DEF IInv, LockInv
<1>1. CASE UNCHANGED vars
  BY <1>0, <1>1 DEF vars, FramesInv
<1>2. ASSUME NEW c \in Cores, Enter(c) PROVE FramesInv'
  <2> PICK r \in Requests, k \in {"call", "irq"}, g \in Frame :
        /\ top[c] < MaxDepth /\ Push(c, g)
        /\ g = NewFrame(k, IF k = "irq" THEN "off" ELSE irq[c], r)
    BY <1>0, <1>2, EnterLemma
  <2>1. FrameOK(g)
    BY <1>0, FreshFrames DEF TypeOK
  <2>2. ASSUME NEW d \in Cores, NEW l \in Levels
        PROVE  fr'[d][l] = g \/ fr'[d][l] = fr[d][l]
    BY <1>0, PushLemma
  <2> QED BY <1>0, <2>1, <2>2 DEF FramesInv
<1>3. ASSUME NEW c \in Cores, Return(c) PROVE FramesInv'
  <2>1. ASSUME NEW d \in Cores, NEW l \in Levels
        PROVE  fr'[d][l] = NoFrame \/ fr'[d][l] = fr[d][l]
    BY <1>0, <1>3, StepLemma, IdleFrameTypes DEF Return
  <2> QED BY <1>0, <2>1, FreshFrames DEF FramesInv
<1>4. ASSUME NEW c \in Cores, Run(c), ~Return(c) PROVE FramesInv'
  <2> PICK g : FrameMove(c, Top(c), g)
    BY <1>0, <1>4, MoveLemma
  <2>1. top' = top /\ fr'[c][top[c]] = g
    BY <1>0, StepLemma DEF FrameMove
  <2>2. FrameOK(g)
    BY <1>0, <1>4, <2>1, FrameRun DEF Top
  <2>3. ASSUME NEW d \in Cores, NEW l \in Levels
        PROVE  fr'[d][l] = g \/ fr'[d][l] = fr[d][l]
    BY <1>0, <2>1, StepLemma DEF FrameMove
  <2> QED BY <1>0, <2>2, <2>3 DEF FramesInv
<1> QED BY <1>1, <1>2, <1>3, <1>4 DEF Next

(* A step that writes no record, and that starts no writer or copier        *)
(* without the test that belongs before it, keeps the record invariant.     *)
LEMMA RecordsKept ==
  ASSUME IInv, rec' = rec, NEW c \in Cores,
         Top(c).pc # "writing",
         \A d \in Cores : d # c => Top(d)' = Top(d),
         Top(c)'.pc = "writing" => Top(c)'.i = 1,
         Top(c)'.pc = "copying" => IsLive(rec[Top(c)'.req.target])
  PROVE  RecordsInv'
<1>1. ASSUME NEW h \in Handles, IsLive(rec[h]), ~BeingWritten(h)'
      PROVE  \E o \in AllObjects : rec[h] = LiveRecord(o)
  <2>1. ~BeingWritten(h)
    BY <1>1 DEF BeingWritten
  <2> QED BY <1>1, <2>1 DEF IInv, RecordsInv
<1>2. ASSUME NEW d \in Cores, Top(d)'.pc = "writing"
      PROVE  Written(Top(d)', rec[Top(d)'.req.arg])
  <2>1. CASE d = c
    BY <1>2, <2>1 DEF Written
  <2>2. CASE d # c
    BY <1>2, <2>2 DEF IInv, RecordsInv
  <2> QED BY <2>1, <2>2
<1>3. ASSUME NEW d \in Cores, Top(d)'.pc = "copying"
      PROVE  IsLive(rec[Top(d)'.req.target])
  BY <1>3 DEF IInv, RecordsInv
<1>4. FactoryAlwaysLive'
  BY DEF IInv, RecordsInv, FactoryAlwaysLive
<1> QED BY <1>1, <1>2, <1>3, <1>4, Zenon DEF RecordsInv, Written, IsLive, Top

(* The field written next is one of the record's, and what is written is    *)
(* what the finished record will hold there.                                *)
LEMMA FieldOrders ==
  /\ \A k \in 1..NumFields : CreateOrder[k] \in Fields /\ DestroyOrder[k] \in Fields
  /\ \A x \in Fields : \E k \in 1..NumFields : CreateOrder[k] = x
  /\ \A x \in Fields : \E k \in 1..NumFields : DestroyOrder[k] = x
<1>1. \A k \in 1..NumFields : CreateOrder[k] \in Fields /\ DestroyOrder[k] \in Fields
  BY DEF NumFields, CreateOrder, DestroyOrder, Fields
<1>2. ASSUME NEW x \in Fields PROVE \E k \in 1..NumFields : CreateOrder[k] = x
  <2>1. /\ CreateOrder[1] = "magic"   /\ CreateOrder[2] = "valid"
        /\ CreateOrder[3] = "handler" /\ CreateOrder[4] = "data"
        /\ CreateOrder[5] = "schema_table" /\ CreateOrder[6] = "schema_index"
    BY DEF CreateOrder
  <2>2. \A k \in {1, 2, 3, 4, 5, 6} : k \in 1..NumFields
    BY DEF NumFields
  <2> QED BY <2>1, <2>2 DEF Fields
<1>3. ASSUME NEW x \in Fields PROVE \E k \in 1..NumFields : DestroyOrder[k] = x
  <2>1. /\ DestroyOrder[1] = "valid"   /\ DestroyOrder[2] = "magic"
        /\ DestroyOrder[3] = "handler" /\ DestroyOrder[4] = "data"
        /\ DestroyOrder[5] = "schema_table" /\ DestroyOrder[6] = "schema_index"
    BY DEF DestroyOrder
  <2>2. \A k \in {1, 2, 3, 4, 5, 6} : k \in 1..NumFields
    BY DEF NumFields
  <2> QED BY <2>1, <2>2 DEF Fields
<1> QED BY <1>1, <1>2, <1>3

(* A record all of whose fields have been written is the writer's image.    *)
LEMMA WrittenWhole ==
  ASSUME NEW f \in Frame, NEW r \in [Fields -> FieldValue],
         Written(f, r), f.i = NumFields + 1, f.req.obj \in AllObjects
  PROVE  r = ImageOf(f)
<1>0. \A k \in 1..NumFields : k < f.i
  BY DEF NumFields
<1>1. CASE f.site = "create"
  <2>1. \A x \in Fields : r[x] = LiveRecord(f.req.obj)[x]
    BY <1>0, <1>1, FieldOrders DEF Written
  <2> QED BY <1>1, <2>1, RecordTypes DEF ImageOf
<1>2. CASE f.site # "create"
  <2>1. \A x \in Fields : r[x] = DeadRecord[x]
    BY <1>0, <1>2, FieldOrders DEF Written
  <2> QED BY <1>2, <2>1, RecordTypes DEF ImageOf
<1> QED BY <1>1, <1>2

(* The step of frame f that writes the next field of a record, and makes it *)
(* g: the record's other fields, the other records and the other cores'     *)
(* frames stay, and a record whose last field is written is whole.          *)
WriteEffect(c, f, g) ==
  /\ f = Top(c) /\ FrameOK(f) /\ f.pc = "writing" /\ f.i \in 1..NumFields
  /\ f.site \in {"create", "destroy"} /\ f.req.method = f.site
  /\ f.req.arg \in Handles \ {Factory} /\ f.req.obj \in AllObjects
  /\ Step(c, g) /\ top[c] > 0 /\ top' = top /\ Top(c)' = g
  /\ \A d \in Cores : d # c => Top(d)' = Top(d) /\ ~Holds(Top(d))
  /\ g.site = f.site /\ g.i = f.i + 1 /\ g.req = f.req /\ g.snap = f.snap /\ g.ok = f.ok
  /\ g.pc = IF f.i = NumFields THEN "cap_unlock" ELSE "writing"
  /\ \A h \in Handles : h # f.req.arg => rec'[h] = rec[h]
  /\ Written(g, rec'[f.req.arg])
  /\ g.pc # "writing" => rec'[f.req.arg] = ImageOf(f)

(* CREATE and DESTROY write in that way.                                    *)
LEMMA WriteFacts ==
  ASSUME IInv, NEW c \in Cores, WriteField(c)
  PROVE  \E f, g \in Frame : WriteEffect(c, f, g)
<1> PICK f \in Frame : f = Top(c)
  BY TopLemma DEF IInv
<1> DEFINE g == [f EXCEPT !.i = @ + 1,
                          !.pc = IF f.i = NumFields THEN "cap_unlock" ELSE "writing"]
           a == f.req.arg
           r == [rec[a] EXCEPT ![FieldAt(f)] = ImageOf(f)[FieldAt(f)]]
<1>0. TypeOK /\ LockInv /\ FramesInv /\ RecordsInv /\ StackInv
  BY DEF IInv, LockInv
<1>1. top[c] \in Levels /\ top[c] > 0 /\ top' = top /\ f.pc = "writing"
  BY <1>0, MoveLemma, TopLemma, ZenonT(40) DEF FrameMove, Run, WriteField, Return
<1>2. FrameOK(f) /\ f.i \in 1..NumFields /\ f.site \in {"create", "destroy"}
      /\ a \in Slots /\ f.req.method = f.site
  BY <1>0, <1>1, ZenonT(40) DEF FramesInv, Top, FrameOK, FactorySection, Frame
<1>3. g \in Frame /\ Step(c, g)
  BY <1>2, FrameUpdates, Zenon DEF WriteField, PCs
<1>4. /\ g.site = f.site /\ g.i = f.i + 1 /\ g.req = f.req /\ g.snap = f.snap /\ g.ok = f.ok
      /\ g.pc = IF f.i = NumFields THEN "cap_unlock" ELSE "writing"
  BY DEF Frame
<1>5. Top(c)' = g /\ \A d \in Cores : d # c => Top(d)' = Top(d)
  BY <1>0, <1>1, <1>3, StepLemma, TopLemma DEF Top
<1>6. rec[a] \in [Fields -> FieldValue] /\ a \in Handles /\ a # Factory
  BY <1>0, <1>2, NamesAssumption DEF TypeOK, Handles
<1>7. FieldAt(f) \in Fields /\ ImageOf(f) \in [Fields -> FieldValue]
      /\ f.req.obj \in AllObjects
  BY <1>2, FieldOrders, RecordTypes DEF FieldAt, ImageOf, Frame, Request
<1>8. /\ rec' = [rec EXCEPT ![a] = r]
      /\ r \in [Fields -> FieldValue]
      /\ rec'[a] = r
      /\ \A h \in Handles : h # a => rec'[h] = rec[h]
  BY <1>0, <1>6, <1>7, ZenonT(30) DEF WriteField, TypeOK
<1>9. Written(g, r)
  <2>1. Written(f, rec[a])
    BY <1>0, <1>1, ZenonT(30) DEF RecordsInv
  <2> SUFFICES ASSUME NEW k \in 1..NumFields, k < f.i + 1
               PROVE  IF f.site = "create"
                        THEN r[CreateOrder[k]] = LiveRecord(f.req.obj)[CreateOrder[k]]
                        ELSE r[DestroyOrder[k]] = DeadRecord[DestroyOrder[k]]
    <3> HIDE DEF g, r
    <3> QED BY <1>4 DEF Written
  <2>2. k < f.i \/ k = f.i
    BY <1>2, SMTT(30) DEF NumFields
  <2>3. CASE k = f.i
    BY <2>3, <1>6, <1>7, ZenonT(30) DEF FieldAt, ImageOf
  <2>4. CASE k < f.i /\ f.site = "create"
    <3>1. rec[a][CreateOrder[k]] = LiveRecord(f.req.obj)[CreateOrder[k]]
      BY <2>1, <2>4, ZenonT(30) DEF Written
    <3> QED BY <2>4, <3>1, <1>6, <1>7, FieldOrders DEF ImageOf
  <2>5. CASE k < f.i /\ f.site # "create"
    <3>1. rec[a][DestroyOrder[k]] = DeadRecord[DestroyOrder[k]]
      BY <2>1, <2>5 DEF Written
    <3> QED BY <2>5, <3>1, <1>6, <1>7, FieldOrders DEF ImageOf
  <2> QED BY <2>2, <2>3, <2>4, <2>5, ZenonT(30)
<1>10. ASSUME NEW d \in Cores, d # c PROVE ~Holds(Top(d))
  BY <1>0, <1>1, <1>10, HolderAlone DEF Holds
<1>11. g.pc # "writing" => r = ImageOf(f)
  <2>1. g.pc # "writing" => g.i = NumFields + 1
    BY <1>4
  <2>2. ImageOf(g) = ImageOf(f)
    BY <1>4 DEF ImageOf
  <2> HIDE DEF g, r
  <2> QED BY <1>3, <1>4, <1>7, <1>8, <1>9, <2>1, <2>2, WrittenWhole
<1> HIDE DEF g, r
<1>12. WriteEffect(c, f, g)
  BY <1>1, <1>2, <1>3, <1>4, <1>5, <1>6, <1>7, <1>8, <1>9, <1>10, <1>11, Zenon DEF WriteEffect
<1> QED BY <1>3, <1>12, Zenon

(* Writing the next field of a record keeps the record invariant.           *)
LEMMA RecordsWrite ==
  ASSUME IInv, NEW c \in Cores, WriteField(c)
  PROVE  RecordsInv'
<1> PICK f \in Frame, g \in Frame : WriteEffect(c, f, g)
  BY WriteFacts
<1> DEFINE a == f.req.arg
<1>0. RecordsInv
  BY DEF IInv
<1>1. /\ Top(c)' = g /\ f.pc = "writing" /\ g.req = f.req /\ a \in Handles \ {Factory}
      /\ f.site \in {"create", "destroy"} /\ f.req.obj \in AllObjects /\ f = Top(c)
      /\ g.pc \in {"cap_unlock", "writing"}
  BY Zenon DEF WriteEffect
<1>2. /\ \A d \in Cores : d # c => Top(d)' = Top(d) /\ ~Holds(Top(d))
      /\ \A h \in Handles : h # a => rec'[h] = rec[h]
      /\ Written(g, rec'[a])
      /\ g.pc # "writing" => rec'[a] = ImageOf(f)
  BY Zenon DEF WriteEffect
<1>3. ASSUME NEW h \in Handles, IsLive(rec'[h]), ~BeingWritten(h)'
      PROVE  \E o \in AllObjects : rec'[h] = LiveRecord(o)
  <2>1. CASE h = a
    <3>1. g.pc # "writing"
      BY <1>1, <1>3, <2>1 DEF BeingWritten
    <3>2. rec'[h] = ImageOf(f)
      BY <1>2, <2>1, <3>1, Zenon
    <3>3. f.site = "create"
      BY <1>1, <1>3, <3>2, LiveRecordFacts, ZenonT(30) DEF ImageOf, AllObjects
    <3> QED BY <1>1, <3>2, <3>3 DEF ImageOf
  <2>2. CASE h # a
    <3>1. ~BeingWritten(h)
      BY <1>1, <1>2, <1>3, <2>2, ZenonT(30) DEF BeingWritten
    <3> QED BY <1>0, <1>2, <1>3, <2>2, <3>1, ZenonT(30) DEF RecordsInv
  <2> QED BY <2>1, <2>2
<1>4. ASSUME NEW d \in Cores, Top(d)'.pc = "writing"
      PROVE  Written(Top(d)', rec'[Top(d)'.req.arg])
  BY <1>1, <1>2, <1>4 DEF Holds
<1>5. ASSUME NEW d \in Cores PROVE Top(d)'.pc # "copying"
  BY <1>1, <1>2, ZenonT(30) DEF Holds
<1>6. FactoryAlwaysLive'
  BY <1>0, <1>1, <1>2 DEF RecordsInv, FactoryAlwaysLive, Handles
<1> QED BY <1>3, <1>4, <1>5, <1>6, Zenon DEF RecordsInv, Written, IsLive, Top

(* No step breaks the record invariant.                                     *)
LEMMA RecordsStep == IInv /\ [Next]_vars => RecordsInv'
<1> SUFFICES ASSUME IInv, [Next]_vars PROVE RecordsInv'
  OBVIOUS
<1>0. TypeOK /\ LockInv /\ FramesInv /\ RecordsInv /\ StackInv
  BY DEF IInv, LockInv
<1>1. CASE UNCHANGED vars
  BY <1>0, <1>1, Zenon
  DEF vars, RecordsInv, BeingWritten, Written, IsLive, Top, FactoryAlwaysLive
<1>2. ASSUME NEW c \in Cores, Enter(c) PROVE RecordsInv'
  <2> PICK r \in Requests, k \in {"call", "irq"}, g \in Frame :
        /\ top[c] < MaxDepth /\ Push(c, g)
        /\ g = NewFrame(k, IF k = "irq" THEN "off" ELSE irq[c], r)
        /\ k = "irq"  => irq[c] = "on"
        /\ k = "call" => Top(c).pc = "external"
        /\ rec' = rec
    BY <1>0, <1>2, EnterLemma
  <2>1. Top(c).pc # "writing"
    <3>1. Masked(Top(c)) => irq[c] = "off"
      BY <1>0, Zenon DEF LockInv, IrqInv
    <3> QED BY <3>1 DEF Masked, Holds
  <2>2. Top(c)' = g /\ \A d \in Cores : d # c => Top(d)' = Top(d)
    BY <1>0, PushLemma, TopLemma, DepthAssumption, SMTT(30) DEF Top, Levels
  <2>3. g.pc = "cap_lock"
    BY ZenonT(30) DEF NewFrame, ThreadFrame
  <2> QED BY <2>1, <2>2, <2>3, RecordsKept
<1>3. ASSUME NEW c \in Cores, Return(c) PROVE RecordsInv'
  <2>1. top[c] \in Levels /\ top[c] > 0 /\ top[c] - 1 \in Levels
    BY <1>0, <1>3, TopLemma, DepthAssumption DEF Return, StackInv, Top, Levels
  <2>2. \A d \in Cores : d # c => Top(d)' = Top(d)
    BY <1>0, <1>3, StepLemma, IdleFrameTypes, TopLemma DEF Return, Top, TypeOK
  <2>3. Top(c)' = fr[c][top[c] - 1]
    <3>1. top'[c] = top[c] - 1 /\ top[c] - 1 # top[c]
      BY <1>0, <1>3, <2>1 DEF Return, TypeOK, Levels
    <3>2. fr'[c][top[c] - 1] = fr[c][top[c] - 1]
      BY <1>0, <1>3, <2>1, <3>1, StepLemma, IdleFrameTypes DEF Return
    <3> QED BY <3>1, <3>2 DEF Top
  <2>4. ~Masked(fr[c][top[c] - 1])
    BY <1>0, <2>1 DEF LockInv, IrqInv, Levels
  <2> QED BY <1>3, <2>2, <2>3, <2>4, RecordsKept, ZenonT(30) DEF Return, Masked, Holds
<1>4. ASSUME NEW c \in Cores, WriteField(c) PROVE RecordsInv'
  BY <1>4, RecordsWrite
<1>5. ASSUME NEW c \in Cores, Run(c), ~Return(c), ~WriteField(c) PROVE RecordsInv'
  <2> PICK f \in Frame : f = Top(c)
    BY <1>0, TopLemma
  <2> PICK g : FrameMove(c, f, g)
    BY <1>0, <1>5, MoveLemma, ZenonT(30)
  <2>1. Top(c)' = g /\ \A d \in Cores : d # c => Top(d)' = Top(d)
    BY <1>0, StepLemma, TopLemma DEF FrameMove, Top
  <2>2. rec' = rec /\ f.pc # "writing"
    BY <1>5 DEF Run, CapLock, TestAndSet, Release, RestoreIrq,
         Check, Copy, FindMethod, FactoryHandler, HandlerReturn, Verify, WriteField
  <2>3. ASSUME NEW h \in Frame, Step(c, h) PROVE Top(c)' = h
    BY <1>0, <2>3, StepLemma, TopLemma, SMTT(30) DEF FrameMove, Top
  <2>4. CASE TestAndSet(c)
    <3> DEFINE h == IF f.site = "create"
                      THEN [f EXCEPT !.pc = "writing", !.i = 1]
                      ELSE [f EXCEPT !.pc = "checking"]
    <3>1. h \in Frame /\ Step(c, h)
      BY <2>4, FrameUpdates, Zenon DEF TestAndSet, PCs
    <3>2. IF f.site = "create" THEN h.pc = "writing" /\ h.i = 1
                               ELSE h.pc = "checking"
      BY DEF Frame
    <3> HIDE DEF h
    <3> QED BY <2>1, <2>2, <2>3, <3>1, <3>2, RecordsKept
  <2>5. CASE Check(c)
    <3> DEFINE h == IF ~IsLive(rec[RecordOf(f)])
                      THEN [f EXCEPT !.pc = "cap_unlock"]
                      ELSE IF f.site = "lookup"
                        THEN [f EXCEPT !.pc = "copying"]
                        ELSE [f EXCEPT !.pc = "writing", !.i = 1]
    <3>1. h \in Frame /\ Step(c, h)
      BY <2>5, FrameUpdates, Zenon DEF Check, PCs
    <3>2. \/ h.pc = "cap_unlock"
          \/ h.pc = "copying" /\ h.req = f.req /\ IsLive(rec[f.req.target])
          \/ h.pc = "writing" /\ h.i = 1
      BY SMTT(30) DEF Frame, RecordOf
    <3> HIDE DEF h
    <3> QED BY <2>1, <2>2, <2>3, <3>1, <3>2, RecordsKept
  <2>6. CASE ~TestAndSet(c) /\ ~Check(c)
    <3>1. g.pc \notin {"writing", "copying"}
      <4>0. \A h \in Frame : Step(c, h) => g = h
        BY <2>1, <2>3
      <4>1. CASE Release(c)
        <5> DEFINE h == [f EXCEPT !.pc = "restore"]
        <5>1. h \in Frame
          BY FrameUpdates, Zenon DEF PCs
        <5>2. h.pc = "restore"
          BY DEF Frame
        <5> QED BY <4>0, <4>1, <5>1, <5>2, Zenon DEF Release
      <4>3. CASE RestoreIrq(c)
        <5>1. g = AfterUnlock(f)
          BY <4>0, <4>3, FrameUpdates, Zenon DEF RestoreIrq
        <5> QED BY <5>1 DEF AfterUnlock, Frame
      <4>4. CASE Copy(c)
        <5> DEFINE r == rec[f.req.target]
                   h == [f EXCEPT !.pc = "cap_unlock", !.snap = r]
        <5>1. r \in [Fields -> FieldValue]
          BY <1>0 DEF TypeOK, Frame, Request
        <5>2. h \in Frame
          BY <5>1, FrameUpdates, Zenon
        <5>3. h.pc = "cap_unlock"
          BY DEF Frame
        <5> QED BY <4>0, <4>4, <5>2, <5>3, Zenon DEF Copy
      <4>2. CASE CapLock(c) \/ FindMethod(c) \/ FactoryHandler(c)
                 \/ HandlerReturn(c) \/ Verify(c)
        <5>1. ~Holds(f) /\ ~Masked(f)
          BY <4>2 DEF CapLock, FindMethod, FactoryHandler, HandlerReturn, Verify,
                      Holds, Masked
        <5>2. Holds(g) => Masked(g)
          BY DEF Masked
        <5>3. ~Holds(g)
          BY <5>1, <5>2, Zenon DEF FrameMove, LockMove
        <5> QED BY <5>3 DEF Holds
      <4> QED BY <4>1, <4>2, <4>3, <4>4, <1>5, <2>6 DEF Run
    <3> QED BY <2>1, <2>2, <3>1, RecordsKept
  <2> QED BY <2>4, <2>5, <2>6
<1> QED BY <1>1, <1>2, <1>3, <1>4, <1>5 DEF Next

-----------------------------------------------------------------------------
(* The theorems *)

(* The inductive invariant holds in every reachable state, for any number   *)
(* of cores, records, objects, requests and nested invocations.             *)
THEOREM InvariantHolds == Spec => []IInv
<1>1. Init => IInv
  BY InvInit
<1>2. IInv /\ [Next]_vars => IInv'
  <2> SUFFICES ASSUME IInv, [Next]_vars PROVE IInv'
    OBVIOUS
  <2>1. TypeOK /\ FramesInv /\ LockInv /\ StackInv
    BY DEF IInv, LockInv
  <2>2. TypeOK' /\ LockInv'
    BY <2>1, TypeStep, LockStep
  <2>3. FramesInv' /\ RecordsInv'
    BY FramesStep, RecordsStep
  <2> QED BY <2>2, <2>3 DEF IInv
<1> QED BY <1>1, <1>2, PTL DEF Spec

(* Every variable keeps its type.                                           *)
THEOREM TypeCorrect == Spec => []TypeOK
<1>1. IInv => TypeOK
  BY DEF IInv
<1> QED BY <1>1, InvariantHolds, PTL

(* g_cap_lock is taken exactly while one invocation is inside a critical    *)
(* section of cap.c.                                                        *)
THEOREM MutualExclusionHolds == Spec => []MutualExclusion
<1>1. IInv => MutualExclusion
  BY DEF IInv, LockInv
<1> QED BY <1>1, InvariantHolds, PTL

(* No invocation waits for the lock while a frame below it on the same core *)
(* holds it.                                                                *)
THEOREM NoSelfDeadlockHolds == Spec => []NoSelfDeadlock
<1>1. IInv => NoSelfDeadlock
  <2> SUFFICES ASSUME IInv, NEW c \in Cores, NEW l \in Levels, NEW m \in Levels,
                      fr[c][m].pc = "spin", Holds(fr[c][l])
               PROVE  l >= m
    BY DEF NoSelfDeadlock
  <2>1. top[c] \in Nat /\ MaxDepth \in Nat
    BY TopLemma, DepthAssumption DEF IInv
  <2>2. ~(m > top[c])
    BY DEF IInv, LockInv, StackInv
  <2>3. ~(l < top[c])
    BY DEF IInv, LockInv, IrqInv, Masked
  <2> QED BY <2>1, <2>2, <2>3 DEF Levels
<1> QED BY <1>1, InvariantHolds, PTL

(* An invocation returns with the interrupt state its caller had.           *)
THEOREM IrqStateRestoredHolds == Spec => []IrqStateRestored
<1>1. IInv => IrqStateRestored
  BY ZenonT(30) DEF IInv, LockInv, IrqInv, IrqStateRestored, Masked, Holds
<1> QED BY <1>1, InvariantHolds, PTL

(* The record kernel_invoke dispatches on is one object's whole record.     *)
THEOREM SnapshotWholeHolds == Spec => []SnapshotWhole
<1>1. IInv => SnapshotWhole
  BY ZenonT(30) DEF IInv, FramesInv, FrameOK, WholeOrDead, SnapshotWhole
<1> QED BY <1>1, InvariantHolds, PTL

(* A handler runs only on a request that fits its own object's schema.      *)
THEOREM HandlerSeesItsOwnShapeHolds == Spec => []HandlerSeesItsOwnShape
<1>1. IInv => HandlerSeesItsOwnShape
  <2> SUFFICES ASSUME IInv, NEW c \in Cores, NEW l \in Levels, l > 0,
                      NEW f, f = fr[c][l],
                      f.pc \in {"external", "factory"} \/ f.site # "lookup"
               PROVE  f.req.shape = f.snap["handler"] /\ f.req.method \in Methods(f.snap["handler"])
    BY DEF HandlerSeesItsOwnShape
  <2>1. FrameOK(f)
    BY ZenonT(30) DEF IInv, FramesInv
  <2>2. Accepts(f.snap, f.req) /\ \E o \in AllObjects : f.snap = LiveRecord(o)
    BY <2>1, LiveRecordFacts, ZenonT(30) DEF FrameOK, Accepted, WholeOrDead, FactorySection, AllObjects
  <2> QED BY <2>2, LiveRecordFacts DEF Accepts
<1> QED BY <1>1, InvariantHolds, PTL

(* The factory object is never destroyed.                                   *)
THEOREM FactoryAlwaysLiveHolds == Spec => []FactoryAlwaysLive
<1>1. IInv => FactoryAlwaysLive
  BY ZenonT(30) DEF IInv, RecordsInv
<1> QED BY <1>1, InvariantHolds, PTL

(* What CREATE and DESTROY report is what they did.                         *)
THEOREM ResultMatchesEffectHolds == Spec => []ResultMatchesEffect
<1>1. IInv => ResultMatchesEffect
  <2> SUFFICES ASSUME IInv, NEW c \in Cores, NEW l \in Levels,
                      NEW f, f = fr[c][l], f.pc = "return"
               PROVE  /\ f.req.method = "create" =>
                           (f.ok = 1 <=> f.i > NumFields /\ f.req.response_cap >= 24)
                      /\ f.i > 0 /\ f.ok = 0 =>
                           f.req.method = "create" /\ f.req.response_cap < 24
    BY DEF ResultMatchesEffect
  <2>1. l > 0
    BY DEF IInv, LockInv, StackInv, Levels
  <2>2. FrameOK(f) /\ f \in Frame
    BY <2>1 DEF IInv, FramesInv, TypeOK
  <2>3. CASE f.site = "lookup"
    <3>1. f.i = 0
      BY <2>2, <2>3, ZenonT(30) DEF FrameOK
    <3>2. ASSUME f.req.method = "create", f.ok = 1 PROVE FALSE
      <4>1. Accepts(f.snap, f.req)
        BY <2>2, <3>2 DEF FrameOK
      <4>2. DeadRecord["schema_table"] \notin AllObjects
        BY NamesAssumption, ZenonT(30) DEF DeadRecord, Fields
      <4>3. \E o \in AllObjects : f.snap = LiveRecord(o)
        BY <4>1, <4>2, <2>2 DEF FrameOK, WholeOrDead, Accepts, Methods, AllObjects
      <4>4. f.snap["handler"] = FactoryObj
        BY <3>2, <4>1, <4>3, LiveRecordFacts DEF Accepts, Methods
      <4> QED BY <2>2, <2>3, <3>2, <4>1, <4>4, SMTT(30) DEF FrameOK, FactoryResponse
    <3> QED BY <3>1, <3>2, SMTT(30) DEF NumFields
  <2>4. CASE f.site # "lookup"
    <3>1. /\ f.snap = LiveRecord(FactoryObj) /\ f.req.method = f.site
          /\ f.i \in {0, NumFields + 1} /\ Accepts(f.snap, f.req)
          /\ f.site = "create" => f.i = NumFields + 1
      BY <2>2, <2>4 DEF FrameOK, FactorySection, Accepted
    <3>2. f.snap["handler"] = FactoryObj
      BY <3>1, LiveRecordFacts, ZenonT(30) DEF AllObjects
    <3>3. f.ok = IF f.req.method = "create" /\ FactoryResponse(f) # "good" THEN 0 ELSE 1
      BY <2>2, <3>1, <3>2 DEF FrameOK
    <3>4. f.req.response_cap \in Nat
      BY <2>2 DEF Frame, Request
    <3> QED BY <3>1, <3>3, <3>4, SMTT(30) DEF FactoryResponse, NumFields
  <2> QED BY <2>3, <2>4
<1> QED BY <1>1, InvariantHolds, PTL

(* Only the holder of the lock changes a record, and never the factory's.   *)
THEOREM WritesUnderLockHolds == Spec => WritesUnderLock
<1> DEFINE A == \A h \in Handles : rec'[h] # rec[h] =>
                  /\ h # Factory
                  /\ lock = 1 /\ lock' = 1
                  /\ \E c \in Cores : Top(c).pc = "writing" /\ Top(c).req.arg = h
<1>1. IInv /\ [Next]_vars => [A]_vars
  <2> SUFFICES ASSUME IInv, [Next]_vars, NEW h \in Handles, rec'[h] # rec[h]
               PROVE  /\ h # Factory
                      /\ lock = 1 /\ lock' = 1
                      /\ \E c \in Cores : Top(c).pc = "writing" /\ Top(c).req.arg = h
    OBVIOUS
  <2>1. PICK c \in Cores : WriteField(c)
    BY Zenon DEF Next, vars, Enter, Invoke, Interrupt, Run, CapLock, TestAndSet, Release,
       RestoreIrq, Check, Copy, FindMethod, FactoryHandler, HandlerReturn, Verify, Return
  <2>2. Top(c).pc = "writing" /\ Top(c).req.arg = h /\ lock' = lock
    BY <2>1 DEF WriteField, IInv, TypeOK
  <2>3. lock = 1
    BY <2>2, TopLemma, ZenonT(30) DEF IInv, LockInv, MutualExclusion, Holds, Top
  <2>4. h # Factory
    BY RecordsStep DEF IInv, RecordsInv, FactoryAlwaysLive
  <2> QED BY <2>2, <2>3, <2>4
<1>2. []IInv /\ [][Next]_vars => [][A]_vars
  BY <1>1, PTL
<1> QED BY <1>2, InvariantHolds, PTL DEF Spec, WritesUnderLock

-----------------------------------------------------------------------------
(* The mapping *)

(* The phase of an invocation, case by case.                                *)
LEMMA PhaseFacts ==
  ASSUME NEW f
  PROVE  /\ f.pc = "none" => PhaseOf(f) = "idle"
         /\ f.pc = "return" => PhaseOf(f) = "ended"
         /\ LookingUp(f) => PhaseOf(f) = "pending"
         /\ f.pc \in {"cap_unlock", "restore"} /\ ~IsLive(f.snap) => PhaseOf(f) = "ended"
         /\ f.pc \in {"cap_unlock", "restore"} /\ IsLive(f.snap) => PhaseOf(f) = "bound"
         /\ f.pc \in BeforeCopy /\ f.site # "lookup" => PhaseOf(f) = "bound"
         /\ f.pc \in {"writing", "find_method", "factory", "external", "verify"} =>
              PhaseOf(f) = "bound"
BY DEF PhaseOf, LookingUp, BeforeCopy

(* A call of the registry by its fields.                                      *)
ACall(ph, q, o, e, k) == [phase |-> ph, req |-> q, obj |-> o, effect |-> e, ok |-> k]

(* Its fields, and what replacing one of them gives.                          *)
LEMMA CallFields ==
  \A ph, q, o, e, k :
     /\ ACall(ph, q, o, e, k).phase = ph /\ ACall(ph, q, o, e, k).req = q
     /\ ACall(ph, q, o, e, k).obj = o /\ ACall(ph, q, o, e, k).effect = e
BY DEF ACall

LEMMA SetPhase ==
  \A ph, q, o, e, k, x : [ACall(ph, q, o, e, k) EXCEPT !.phase = x] = ACall(x, q, o, e, k)
BY DEF ACall

LEMMA SetReq ==
  \A ph, q, o, e, k, x : [ACall(ph, q, o, e, k) EXCEPT !.req = x] = ACall(ph, x, o, e, k)
BY DEF ACall

LEMMA SetObj ==
  \A ph, q, o, e, k, x : [ACall(ph, q, o, e, k) EXCEPT !.obj = x] = ACall(ph, q, x, e, k)
BY DEF ACall

LEMMA SetEffect ==
  \A ph, q, o, e, k, x : [ACall(ph, q, o, e, k) EXCEPT !.effect = x] = ACall(ph, q, o, x, k)
BY DEF ACall

LEMMA SetOk ==
  \A ph, q, o, e, k, x : [ACall(ph, q, o, e, k) EXCEPT !.ok = x] = ACall(ph, q, o, e, x)
BY DEF ACall

(* A frame has no effect yet while its field counter is 0.                   *)
LEMMA Counters == ~(0 > 0) /\ 1 > 0
OBVIOUS

(* A change to one frame of core c changes one invocation.                  *)
LEMMA CallAt ==
  ASSUME TypeOK, NEW c \in Cores, NEW l \in Levels \ {0}, NEW g, fr'[c][l] = g,
         \A d \in Cores, m \in Levels : d # c \/ m # l => fr'[d][m] = fr[d][m]
  PROVE  /\ <<c, l>> \in CallFrames /\ CallMap[<<c, l>>] = CallOf(fr[c][l])
         /\ CallMap' = [CallMap EXCEPT ![<<c, l>>] = CallOf(g)]
<1>1. <<c, l>> \in CallFrames
  BY DEF CallFrames
<1>2. ASSUME NEW p \in CallFrames
      PROVE  CallOf(fr'[p[1]][p[2]]) =
               IF p = <<c, l>> THEN CallOf(g) ELSE CallOf(fr[p[1]][p[2]])
  <2>1. p[1] \in Cores /\ p[2] \in Levels /\ p = <<p[1], p[2]>>
    BY DEF CallFrames
  <2>2. CASE p = <<c, l>>
    BY <2>2
  <2>3. CASE p # <<c, l>>
    <3>1. fr'[p[1]][p[2]] = fr[p[1]][p[2]]
      BY <2>1, <2>3
    <3> QED BY <2>3, <3>1
  <2> QED BY <2>2, <2>3
<1>3. CallMap[<<c, l>>] = CallOf(fr[c][l])
  BY <1>1 DEF CallMap
<1>4. CallMap' = [p \in CallFrames |-> IF p = <<c, l>> THEN CallOf(g) ELSE CallMap[p]]
  BY <1>2, Zenon DEF CallMap
<1> QED BY <1>1, <1>3, <1>4, Zenon DEF CallMap

(* A step of the running frame of core c changes that invocation only.      *)
LEMMA CallStep ==
  ASSUME TypeOK, NEW c \in Cores, top[c] > 0, NEW g, Step(c, g)
  PROVE  /\ <<c, top[c]>> \in CallFrames
         /\ CallMap[<<c, top[c]>>] = CallOf(Top(c))
         /\ CallMap' = [CallMap EXCEPT ![<<c, top[c]>>] = CallOf(g)]
<1> PICK l : l = top[c]
  BY Zenon
<1>1. l \in Levels \ {0}
  BY TopLemma
<1>2. /\ fr'[c][l] = g
      /\ \A d \in Cores, m \in Levels : d # c \/ m # l => fr'[d][m] = fr[d][m]
  BY <1>1 DEF TypeOK, Step
<1>3. /\ <<c, l>> \in CallFrames /\ CallMap[<<c, l>>] = CallOf(fr[c][l])
      /\ CallMap' = [CallMap EXCEPT ![<<c, l>>] = CallOf(g)]
  BY <1>1, <1>2, CallAt
<1> QED BY <1>3, Zenon DEF Top

(* While core c writes record h, the registry has what c will have written. *)
LEMMA WriterDecides ==
  ASSUME IInv, NEW c \in Cores, NEW h, Writing(c, h)
  PROVE  RegOf(h) = IF Top(c).site = "create" THEN Top(c).req.obj ELSE "NULL"
<1>1. \A d \in Cores : Writing(d, h) => d = c
  BY HolderAlone DEF Writing, Holds, IInv
<1>2. (CHOOSE d \in Cores : Writing(d, h)) = c
  BY <1>1
<1> QED BY <1>2, Zenon DEF RegOf

(* Nobody writes what another core could be reading under the lock.         *)
LEMMA HolderReads ==
  ASSUME IInv, NEW c \in Cores, Holds(Top(c)), Top(c).pc # "writing", NEW h
  PROVE  RegOf(h) = ObjectOf(rec[h])
<1>1. \A d \in Cores : ~Writing(d, h)
  BY HolderAlone DEF Writing, Holds, IInv
<1> QED BY <1>1, Zenon DEF RegOf

(* A live record that nobody writes stands for an object.                   *)
LEMMA LiveIsObject ==
  ASSUME IInv, NEW h \in Handles, ~BeingWritten(h), IsLive(rec[h])
  PROVE  ObjectOf(rec[h]) = rec[h]["handler"] /\ ObjectOf(rec[h]) \in AllObjects
         /\ ObjectOf(rec[h]) # "NULL"
<1>1. PICK o \in AllObjects : rec[h] = LiveRecord(o)
  BY DEF IInv, RecordsInv
<1> QED BY <1>1, LiveRecordFacts, NamesAssumption DEF ObjectOf

(* The registry changes only where somebody begins to write.                *)
LEMMA RegQuiet ==
  ASSUME IInv, NEW c \in Cores, rec' = rec, Top(c).pc # "writing", Top(c)'.pc # "writing",
         \A d \in Cores : d # c => Top(d)' = Top(d)
  PROVE  RegMap' = RegMap
<1>1. ASSUME NEW h \in Handles PROVE RegOf(h)' = RegOf(h)
  <2>1. \A d \in Cores : Writing(d, h)' <=> Writing(d, h)
    BY DEF Writing
  <2>2. CASE \E d \in Cores : Writing(d, h)
    <3>1. PICK d \in Cores : Writing(d, h)
      BY <2>2
    <3>2. \A e \in Cores : Writing(e, h) => e = d
      BY <3>1, HolderAlone DEF Writing, Holds, IInv
    <3>3. (CHOOSE e \in Cores : Writing(e, h)') = d
      BY <2>1, <3>1, <3>2
    <3>4. Top(d)' = Top(d)
      BY <3>1 DEF Writing
    <3>5. RegOf(h)' = IF Top(d)'.site = "create" THEN Top(d)'.req.obj ELSE "NULL"
      BY <2>1, <3>1, <3>3, Zenon DEF RegOf
    <3> QED BY <3>1, <3>4, <3>5, WriterDecides
  <2>3. CASE ~\E d \in Cores : Writing(d, h)
    BY <2>1, <2>3, Zenon DEF RegOf
  <2> QED BY <2>2, <2>3
<1> QED BY <1>1, Zenon DEF RegMap

(* When core c begins to write a record, the registry has the new object,   *)
(* or none, there from then on.                                             *)
LEMMA RegBegins ==
  ASSUME NEW c \in Cores, rec' = rec, \A d \in Cores : Top(d).pc # "writing",
         Top(c)'.pc = "writing", Top(c)'.req.arg \in Handles,
         \A d \in Cores : d # c => Top(d)' = Top(d)
  PROVE  RegMap' = [RegMap EXCEPT ![Top(c)'.req.arg] =
                      IF Top(c)'.site = "create" THEN Top(c)'.req.obj ELSE "NULL"]
<1> DEFINE a == Top(c)'.req.arg
           new == IF Top(c)'.site = "create" THEN Top(c)'.req.obj ELSE "NULL"
<1>1. ASSUME NEW h \in Handles PROVE RegOf(h)' = IF h = a THEN new ELSE RegOf(h)
  <2>1. \A d \in Cores : Writing(d, h)' <=> d = c /\ h = a
    BY DEF Writing
  <2>2. \A d \in Cores : ~Writing(d, h)
    BY DEF Writing
  <2>3. CASE h = a
    <3>1. (CHOOSE d \in Cores : Writing(d, h)') = c
      BY <2>1, <2>3
    <3> QED BY <2>1, <2>3, <3>1, Zenon DEF RegOf
  <2>4. CASE h # a
    BY <2>1, <2>2, <2>4, Zenon DEF RegOf, ObjectOf
  <2> QED BY <2>3, <2>4
<1>2. RegMap' = [h \in Handles |-> IF h = a THEN new ELSE RegMap[h]]
  BY <1>1, Zenon DEF RegMap
<1> QED BY <1>2, Zenon DEF RegMap

(* A frame that has the same request, copy, result and effect, in the same  *)
(* phase, is the same invocation.                                           *)
LEMMA CallSame ==
  ASSUME NEW f, NEW g, PhaseOf(g) = PhaseOf(f), g.req = f.req, g.snap = f.snap, g.ok = f.ok,
         \/ g.i = 0 /\ f.i = 0
         \/ g.i = f.i /\ g.site = f.site
         \/ g.i > 0 /\ f.i > 0 /\ g.site = f.site
  PROVE  CallOf(g) = CallOf(f)
<1>1. (IF g.i > 0 THEN g.site ELSE "none") = (IF f.i > 0 THEN f.site ELSE "none")
  OBVIOUS
<1> QED BY <1>1, Zenon DEF CallOf

(* The other cores' running frames stay, and the running frame of c is g.   *)
LEMMA Running ==
  ASSUME TypeOK, NEW c \in Cores, top' = top, NEW g, Step(c, g)
  PROVE  Top(c)' = g /\ \A d \in Cores : d # c => Top(d)' = Top(d)
<1>1. \A d \in Cores : top[d] \in Levels
  BY DEF TypeOK
<1> QED BY <1>1 DEF TypeOK, Step, Top

(* A step that leaves the invocation as it is and begins or ends no write   *)
(* is no step of the registry.                                              *)
LEMMA Silent ==
  ASSUME IInv, NEW c \in Cores, top[c] > 0, top' = top, rec' = rec, NEW g, Step(c, g),
         Top(c).pc # "writing", g.pc # "writing", CallOf(g) = CallOf(Top(c))
  PROVE  RegMap' = RegMap /\ CallMap' = CallMap
<1>1. TypeOK
  BY DEF IInv
<1>2. RegMap' = RegMap
  BY <1>1, Running, RegQuiet
<1>3. CallMap' = [CallMap EXCEPT ![<<c, top[c]>>] = CallMap[<<c, top[c]>>]]
  BY <1>1, CallStep
<1> QED BY <1>2, <1>3, Zenon DEF CallMap

(* Writing a field changes nothing: the registry has had the outcome since  *)
(* the writing began.                                                       *)
LEMMA WriteSilent ==
  ASSUME IInv, NEW c \in Cores, WriteField(c)
  PROVE  RegMap' = RegMap /\ CallMap' = CallMap
<1> PICK f \in Frame, g \in Frame : WriteEffect(c, f, g)
  BY WriteFacts, Zenon
<1> DEFINE a == f.req.arg
           new == IF f.site = "create" THEN f.req.obj ELSE "NULL"
<1>1. /\ Top(c)' = g /\ f = Top(c) /\ f.pc = "writing" /\ a \in Handles /\ g.req = f.req
      /\ f.site \in {"create", "destroy"} /\ f.req.obj \in AllObjects
      /\ g.site = f.site /\ g.snap = f.snap /\ g.ok = f.ok
      /\ g.pc \in {"cap_unlock", "writing"} /\ FrameOK(f) /\ Step(c, g) /\ top[c] > 0
  BY Zenon DEF WriteEffect
<1>2. /\ \A d \in Cores : d # c => Top(d)' = Top(d) /\ ~Holds(Top(d))
      /\ \A h \in Handles : h # a => rec'[h] = rec[h]
      /\ g.pc # "writing" => rec'[a] = ImageOf(f)
  BY Zenon DEF WriteEffect
<1>3. g.i > 0 /\ f.i > 0
  BY DEF WriteEffect, NumFields
<1>4. \A d \in Cores, h \in Handles : Writing(d, h) <=> d = c /\ h = a
  BY <1>1, <1>2, Zenon DEF Writing, Holds
<1>5. \A d \in Cores, h \in Handles : Writing(d, h)' <=> d = c /\ h = a /\ g.pc = "writing"
  BY <1>1, <1>2, Zenon DEF Writing, Holds
<1>6. RegOf(a) = new
  BY <1>1, <1>4, WriterDecides, Zenon
<1>7. ASSUME NEW h \in Handles, h # a PROVE RegOf(h)' = RegOf(h)
  BY <1>2, <1>4, <1>5, <1>7, Zenon DEF RegOf, ObjectOf
<1>8. ASSUME g.pc = "writing" PROVE RegOf(a)' = new
  <2>1. (CHOOSE d \in Cores : Writing(d, a)') = c
    BY <1>1, <1>5, <1>8, Zenon
  <2>2. RegOf(a)' = IF Top(c)'.site = "create" THEN Top(c)'.req.obj ELSE "NULL"
    BY <1>1, <1>5, <1>8, <2>1, Zenon DEF RegOf
  <2> QED BY <1>1, <2>2, Zenon
<1>9. ASSUME g.pc # "writing" PROVE RegOf(a)' = new
  <2>1. RegOf(a)' = ObjectOf(rec'[a])
    BY <1>1, <1>5, <1>9, Zenon DEF RegOf, ObjectOf, IsLive
  <2>2. rec'[a] = ImageOf(f)
    BY <1>2, <1>9, Zenon
  <2>3. ObjectOf(ImageOf(f)) = new
    BY <1>1, LiveRecordFacts, Zenon DEF ObjectOf, ImageOf, AllObjects
  <2> QED BY <2>1, <2>2, <2>3, Zenon
<1>10. RegMap' = RegMap
  BY <1>6, <1>7, <1>8, <1>9, Zenon DEF RegMap
<1>11. IsLive(f.snap)
  BY <1>1, LiveRecordFacts, ZenonT(40) DEF FrameOK, FactorySection, AllObjects
<1>12. PhaseOf(f) = "bound" /\ PhaseOf(g) = "bound"
  BY <1>1, <1>11, PhaseFacts, Zenon
<1>13. CallOf(g) = CallOf(f)
  BY <1>1, <1>3, <1>12, CallSame, Zenon
<1>14. CallMap' = [CallMap EXCEPT ![<<c, top[c]>>] = CallMap[<<c, top[c]>>]]
  <2>1. TypeOK
    BY Zenon DEF IInv
  <2>2. /\ CallMap[<<c, top[c]>>] = CallOf(Top(c))
        /\ CallMap' = [CallMap EXCEPT ![<<c, top[c]>>] = CallOf(g)]
    BY <1>1, <2>1, CallStep, Zenon
  <2> QED BY <1>1, <1>13, <2>2, Zenon
<1> QED BY <1>10, <1>14, Zenon DEF CallMap

-----------------------------------------------------------------------------
(* The steps *)

(* What is known of the running frame when it takes a step of the kernel.   *)
LEMMA RunningFrame ==
  ASSUME IInv, NEW c \in Cores, Run(c), ~Return(c)
  PROVE  /\ Top(c) \in Frame /\ FrameOK(Top(c)) /\ top[c] > 0 /\ top' = top
         /\ \A o \in AllObjects : Top(c).snap = LiveRecord(o) =>
              IsLive(Top(c).snap) /\ Top(c).snap["handler"] = o
<1>1. TypeOK /\ FramesInv /\ StackInv
  BY Zenon DEF IInv, LockInv
<1>2. top[c] > 0 /\ top' = top
  BY <1>1, MoveLemma, Zenon DEF FrameMove
<1>3. Top(c) \in Frame /\ FrameOK(Top(c))
  BY <1>1, <1>2, TopLemma, Zenon DEF FramesInv, Top
<1> QED BY <1>2, <1>3, LiveRecordFacts, Zenon

(* A step that moves the running frame along, within one phase.             *)
LEMMA MoveSilent ==
  ASSUME IInv, NEW c \in Cores, Run(c), ~Return(c), rec' = rec, NEW g, Step(c, g),
         Top(c).pc # "writing", g.pc # "writing", PhaseOf(g) = PhaseOf(Top(c)),
         g.req = Top(c).req, g.snap = Top(c).snap, g.ok = Top(c).ok, g.i = Top(c).i,
         g.site = Top(c).site \/ Top(c).i = 0
  PROVE  RegMap' = RegMap /\ CallMap' = CallMap
<1>1. top[c] > 0 /\ top' = top
  BY RunningFrame, Zenon
<1>2. CallOf(g) = CallOf(Top(c))
  BY CallSame, Zenon
<1> QED BY <1>1, <1>2, Silent, Zenon

(* Locking, unlocking and the way into a handler and out of it.             *)
LEMMA SilentSteps ==
  ASSUME IInv, NEW c \in Cores,
         \/ CapLock(c) \/ Release(c) \/ RestoreIrq(c) \/ FactoryHandler(c) \/ HandlerReturn(c)
  PROVE  RegMap' = RegMap /\ CallMap' = CallMap
<1> PICK f : f = Top(c)
  BY Zenon
<1>0. Run(c) /\ ~Return(c) /\ rec' = rec /\ f.pc # "writing"
  BY Zenon DEF Run, Return, CapLock, Release, RestoreIrq, FactoryHandler, HandlerReturn
<1>1. f \in Frame /\ FrameOK(f)
  BY <1>0, RunningFrame, Zenon
<1>2. CASE CapLock(c)
  <2> DEFINE g == [f EXCEPT !.pc = "spin", !.prior = irq[c]]
  <2>1. Step(c, g) /\ f.pc = "cap_lock"
    BY <1>2, Zenon DEF CapLock
  <2>2. /\ g.pc = "spin" /\ g.req = f.req /\ g.snap = f.snap /\ g.ok = f.ok
        /\ g.i = f.i /\ g.site = f.site
    BY <1>1, Zenon DEF Frame
  <2> HIDE DEF g
  <2>3. PhaseOf(g) = PhaseOf(f)
    BY <2>1, <2>2, PhaseFacts, Zenon DEF LookingUp, BeforeCopy
  <2> QED BY <1>0, <2>1, <2>2, <2>3, MoveSilent, Zenon
<1>3. CASE Release(c)
  <2> DEFINE g == [f EXCEPT !.pc = "restore"]
  <2>1. Step(c, g) /\ f.pc = "cap_unlock"
    BY <1>3, Zenon DEF Release
  <2>2. /\ g.pc = "restore" /\ g.req = f.req /\ g.snap = f.snap /\ g.ok = f.ok
        /\ g.i = f.i /\ g.site = f.site
    BY <1>1, Zenon DEF Frame
  <2> HIDE DEF g
  <2>3. PhaseOf(g) = PhaseOf(f)
    BY <2>1, <2>2, PhaseFacts, Zenon
  <2> QED BY <1>0, <2>1, <2>2, <2>3, MoveSilent, Zenon
<1>4. CASE RestoreIrq(c)
  <2> DEFINE g == AfterUnlock(f)
  <2>1. Step(c, g) /\ f.pc = "restore"
    BY <1>4, Zenon DEF RestoreIrq
  <2>2. /\ g.pc = IF f.site = "lookup" THEN IF IsLive(f.snap) THEN "find_method" ELSE "return"
                  ELSE "verify"
        /\ g.req = f.req /\ g.snap = f.snap /\ g.ok = f.ok /\ g.i = f.i /\ g.site = f.site
    BY <1>1, Zenon DEF Frame, AfterUnlock
  <2> HIDE DEF g
  <2>3. f.site # "lookup" => IsLive(f.snap)
    BY <1>1, LiveRecordFacts, Zenon DEF FrameOK, FactorySection, AllObjects
  <2>4. PhaseOf(g) = PhaseOf(f)
    BY <2>1, <2>2, <2>3, PhaseFacts, Zenon
  <2> QED BY <1>0, <2>1, <2>2, <2>4, MoveSilent, Zenon
<1>5. CASE FactoryHandler(c)
  <2>1. PICK g : /\ Step(c, g) /\ f.pc = "factory"
                 /\ \/ g = [f EXCEPT !.pc = "verify"]
                    \/ g = [f EXCEPT !.pc = "cap_lock", !.site = "create"]
                    \/ g = [f EXCEPT !.pc = "cap_lock", !.site = "destroy"]
    BY <1>5, Zenon DEF FactoryHandler
  <2>2. /\ g.req = f.req /\ g.snap = f.snap /\ g.ok = f.ok /\ g.i = f.i
        /\ \/ g.pc = "verify"
           \/ g.pc = "cap_lock" /\ g.site # "lookup"
    BY <1>1, <2>1, ZenonT(40) DEF Frame
  <2>3. f.i = 0
    BY <1>1, <2>1, Zenon DEF FrameOK, FactorySection
  <2>4. PhaseOf(g) = PhaseOf(f)
    BY <2>1, <2>2, PhaseFacts, ZenonT(40) DEF BeforeCopy
  <2> QED BY <1>0, <2>1, <2>2, <2>3, <2>4, MoveSilent, Zenon
<1>6. CASE HandlerReturn(c)
  <2>1. PICK resp \in {"none", "good", "bad"} : Step(c, [f EXCEPT !.pc = "verify", !.resp = resp])
    BY <1>6, Zenon DEF HandlerReturn
  <2> DEFINE g == [f EXCEPT !.pc = "verify", !.resp = resp]
  <2>2. /\ g.pc = "verify" /\ g.req = f.req /\ g.snap = f.snap /\ g.ok = f.ok
        /\ g.i = f.i /\ g.site = f.site /\ f.pc = "external"
    BY <1>1, <1>6, Zenon DEF Frame, HandlerReturn
  <2>3. Step(c, g)
    BY <2>1, Zenon
  <2> HIDE DEF g
  <2>4. PhaseOf(g) = PhaseOf(f)
    BY <2>2, PhaseFacts, Zenon
  <2> QED BY <1>0, <2>2, <2>3, <2>4, MoveSilent, Zenon
<1> QED BY <1>2, <1>3, <1>4, <1>5, <1>6, Zenon

(* One step of the registry, or none.                                       *)
Simulated == Registry!Next \/ (RegMap' = RegMap /\ CallMap' = CallMap)

(* The invocation of the running frame of core c, in the registry.          *)
LEMMA VisibleStep ==
  ASSUME IInv, NEW c \in Cores, Run(c), ~Return(c), NEW g, Step(c, g)
  PROVE  /\ <<c, top[c]>> \in CallFrames
         /\ CallMap[<<c, top[c]>>] = CallOf(Top(c))
         /\ CallMap' = [CallMap EXCEPT ![<<c, top[c]>>] = CallOf(g)]
         /\ Top(c)' = g /\ \A d \in Cores : d # c => Top(d)' = Top(d)
<1>1. TypeOK
  BY Zenon DEF IInv
<1>2. top[c] > 0 /\ top' = top
  BY RunningFrame, Zenon
<1> QED BY <1>1, <1>2, CallStep, Running, Zenon

(* Taking the lock: CREATE takes effect, nothing else does.                 *)
LEMMA TakeStep ==
  ASSUME IInv, NEW c \in Cores, TestAndSet(c)
  PROVE  Simulated
<1> PICK f : f = Top(c)
  BY Zenon
<1>0. Run(c) /\ ~Return(c) /\ rec' = rec /\ f.pc = "spin" /\ lock = 0
  BY Zenon DEF Run, Return, TestAndSet
<1>1. f \in Frame /\ FrameOK(f)
  BY <1>0, RunningFrame, Zenon
<1>2. CASE f.site # "create"
  <2> DEFINE g == [f EXCEPT !.pc = "checking"]
  <2>1. Step(c, g)
    BY <1>2, Zenon DEF TestAndSet
  <2>2. /\ g.pc = "checking" /\ g.req = f.req /\ g.snap = f.snap /\ g.ok = f.ok
        /\ g.i = f.i /\ g.site = f.site
    BY <1>1, Zenon DEF Frame
  <2> HIDE DEF g
  <2>3. PhaseOf(g) = PhaseOf(f)
    BY <1>0, <2>2, PhaseFacts, Zenon DEF LookingUp, BeforeCopy
  <2>4. RegMap' = RegMap /\ CallMap' = CallMap
    BY <1>0, <2>1, <2>2, <2>3, MoveSilent, Zenon
  <2> QED BY <2>4, Zenon DEF Simulated
<1>3. CASE f.site = "create"
  <2> DEFINE g == [f EXCEPT !.pc = "writing", !.i = 1]
             p == <<c, top[c]>>
  <2>1. Step(c, g)
    BY <1>3, Zenon DEF TestAndSet
  <2>2. /\ g.pc = "writing" /\ g.req = f.req /\ g.snap = f.snap /\ g.ok = f.ok
        /\ g.i = 1 /\ g.site = f.site
    BY <1>1, Zenon DEF Frame
  <2> HIDE DEF g
  <2>3. /\ f.snap = LiveRecord(FactoryObj) /\ f.req.method = "create" /\ f.req.arg \in Slots
        /\ f.i = 0 /\ Accepts(f.snap, f.req)
    BY <1>0, <1>1, <1>3, Zenon DEF FrameOK, FactorySection, Accepted
  <2>4. f.snap["handler"] = FactoryObj /\ ObjAccepts(FactoryObj, f.req)
    BY <2>3, LiveRecordFacts, Zenon DEF Accepts, ObjAccepts, AllObjects
  <2>5. f.req.arg \in Handles \ {Factory}
    BY <2>3, NamesAssumption, Zenon DEF Handles
  <2>6. PhaseOf(f) = "bound" /\ PhaseOf(g) = "bound"
    BY <1>0, <1>3, <2>2, PhaseFacts, Zenon DEF BeforeCopy
  <2>7. CallOf(f) = ACall("bound", f.req, FactoryObj, "none", f.ok)
    <3>1. ~(f.i > 0)
      BY <2>3, Counters, Zenon
    <3> QED BY <2>4, <2>6, <3>1, Zenon DEF CallOf, ACall
  <2>8. CallOf(g) = ACall("bound", f.req, FactoryObj, "create", f.ok)
    <3>1. g.i > 0
      BY <2>2, Counters, Zenon
    <3>2. g.site = "create"
      BY <1>3, <2>2, Zenon
    <3> QED BY <2>2, <2>4, <2>6, <3>1, <3>2, Zenon DEF CallOf, ACall
  <2>9. /\ p \in CallFrames /\ CallMap[p] = CallOf(f)
        /\ CallMap' = [CallMap EXCEPT ![p] = CallOf(g)]
        /\ Top(c)' = g /\ \A d \in Cores : d # c => Top(d)' = Top(d)
    BY <1>0, <2>1, VisibleStep, Zenon
  <2>10. \A d \in Cores : Top(d).pc # "writing"
    BY <1>0, TopLemma DEF IInv, LockInv, MutualExclusion, Holds, Top
  <2>11. RegMap' = [RegMap EXCEPT ![f.req.arg] = f.req.obj]
    BY <1>0, <1>3, <2>2, <2>5, <2>9, <2>10, RegBegins, ZenonT(40)
  <2>12. /\ CallOf(f).phase = "bound" /\ CallOf(f).obj = FactoryObj
         /\ CallOf(f).req = f.req /\ CallOf(f).effect = "none"
         /\ [CallOf(f) EXCEPT !.effect = "create"] = CallOf(g)
    BY <2>7, <2>8, CallFields, SetEffect
  <2>13. Registry!Create(p)
    BY <2>3, <2>4, <2>5, <2>9, <2>11, <2>12, Zenon
       DEF Registry!Create, Registry!Serving, Registry!Move
  <2> QED BY <2>9, <2>13, Zenon DEF Simulated, Registry!Next
<1> QED BY <1>2, <1>3, Zenon

(* The check under the lock: a lookup of a dead record misses here, DESTROY *)
(* of a live one takes effect.                                              *)
LEMMA CheckStep ==
  ASSUME IInv, NEW c \in Cores, Check(c)
  PROVE  Simulated
<1> PICK f : f = Top(c)
  BY Zenon
<1> DEFINE p == <<c, top[c]>>
<1>0. Run(c) /\ ~Return(c) /\ rec' = rec /\ f.pc = "checking" /\ Holds(f)
  BY Zenon DEF Run, Return, Check, Holds
<1>1. f \in Frame /\ FrameOK(f)
  BY <1>0, RunningFrame, Zenon
<1>2. \A h : RegOf(h) = ObjectOf(rec[h])
  BY <1>0, HolderReads, Zenon
<1>3. CASE ~IsLive(rec[RecordOf(f)])
  <2> DEFINE g == [f EXCEPT !.pc = "cap_unlock"]
  <2>1. Step(c, g)
    BY <1>3, Zenon DEF Check
  <2>2. /\ g.pc = "cap_unlock" /\ g.req = f.req /\ g.snap = f.snap /\ g.ok = f.ok
        /\ g.i = f.i /\ g.site = f.site
    BY <1>1, Zenon DEF Frame
  <2> HIDE DEF g
  <2>3. CASE f.site = "lookup"
    <3>1. ~IsLive(f.snap) /\ RecordOf(f) = f.req.target
      BY <1>0, <1>1, <2>3, LiveRecordFacts, Zenon
      DEF FrameOK, LookingUp, BeforeCopy, RecordOf, AllObjects
    <3>2. PhaseOf(f) = "pending" /\ PhaseOf(g) = "ended"
      BY <1>0, <2>2, <2>3, <3>1, PhaseFacts, Zenon DEF LookingUp, BeforeCopy
    <3>3. /\ CallOf(f).phase = "pending" /\ CallOf(f).req = f.req
          /\ [CallOf(f) EXCEPT !.phase = "ended"] = CallOf(g)
      <4>1. CallOf(f) = ACall("pending", f.req, f.snap["handler"],
                              IF f.i > 0 THEN f.site ELSE "none", f.ok)
        BY <3>2, Zenon DEF CallOf, ACall
      <4>2. CallOf(g) = ACall("ended", f.req, f.snap["handler"],
                              IF f.i > 0 THEN f.site ELSE "none", f.ok)
        BY <2>2, <3>2, Zenon DEF CallOf, ACall
      <4> QED BY <4>1, <4>2, CallFields, SetPhase
    <3>4. /\ p \in CallFrames /\ CallMap[p] = CallOf(f)
          /\ CallMap' = [CallMap EXCEPT ![p] = CallOf(g)]
          /\ Top(c)' = g /\ \A d \in Cores : d # c => Top(d)' = Top(d)
      BY <1>0, <2>1, VisibleStep, Zenon
    <3>5. f.req.target \in Handles
      BY <1>1, Zenon DEF Frame, Request
    <3>6. RegMap[f.req.target] = "NULL"
      BY <1>2, <1>3, <3>1, <3>5, Zenon DEF RegMap, ObjectOf
    <3>7. RegMap' = RegMap
      BY <1>0, <2>2, <3>4, RegQuiet, Zenon
    <3>8. Registry!Miss(p)
      BY <3>3, <3>4, <3>6, <3>7, Zenon DEF Registry!Miss, Registry!Move
    <3> QED BY <3>4, <3>8, Zenon DEF Simulated, Registry!Next
  <2>4. CASE f.site # "lookup"
    <3>1. IsLive(f.snap)
      BY <1>1, <2>4, LiveRecordFacts, Zenon DEF FrameOK, FactorySection, AllObjects
    <3>2. PhaseOf(g) = PhaseOf(f)
      BY <1>0, <2>2, <2>4, <3>1, PhaseFacts, Zenon DEF BeforeCopy
    <3>3. RegMap' = RegMap /\ CallMap' = CallMap
      BY <1>0, <2>1, <2>2, <3>2, MoveSilent, Zenon
    <3> QED BY <3>3, Zenon DEF Simulated
  <2> QED BY <2>3, <2>4, Zenon
<1>4. CASE IsLive(rec[RecordOf(f)]) /\ f.site = "lookup"
  <2> DEFINE g == [f EXCEPT !.pc = "copying"]
  <2>1. Step(c, g)
    BY <1>4, Zenon DEF Check
  <2>2. /\ g.pc = "copying" /\ g.req = f.req /\ g.snap = f.snap /\ g.ok = f.ok
        /\ g.i = f.i /\ g.site = f.site
    BY <1>1, Zenon DEF Frame
  <2> HIDE DEF g
  <2>3. PhaseOf(g) = PhaseOf(f)
    BY <1>0, <1>4, <2>2, PhaseFacts, Zenon DEF LookingUp, BeforeCopy
  <2>4. RegMap' = RegMap /\ CallMap' = CallMap
    BY <1>0, <2>1, <2>2, <2>3, MoveSilent, Zenon
  <2> QED BY <2>4, Zenon DEF Simulated
<1>5. CASE IsLive(rec[RecordOf(f)]) /\ f.site # "lookup"
  <2> DEFINE g == [f EXCEPT !.pc = "writing", !.i = 1]
  <2>1. Step(c, g)
    BY <1>5, Zenon DEF Check
  <2>2. /\ g.pc = "writing" /\ g.req = f.req /\ g.snap = f.snap /\ g.ok = f.ok
        /\ g.i = 1 /\ g.site = f.site
    BY <1>1, Zenon DEF Frame
  <2> HIDE DEF g
  <2>3. /\ f.snap = LiveRecord(FactoryObj) /\ f.req.method = "destroy" /\ f.req.arg \in Slots
        /\ f.i = 0 /\ f.site = "destroy" /\ Accepts(f.snap, f.req) /\ RecordOf(f) = f.req.arg
    BY <1>0, <1>1, <1>5, Zenon DEF FrameOK, FactorySection, Accepted, Frame, RecordOf
  <2>4. f.snap["handler"] = FactoryObj /\ ObjAccepts(FactoryObj, f.req)
    BY <2>3, LiveRecordFacts, Zenon DEF Accepts, ObjAccepts, AllObjects
  <2>5. f.req.arg \in Handles \ {Factory}
    BY <2>3, NamesAssumption, Zenon DEF Handles
  <2>6. PhaseOf(f) = "bound" /\ PhaseOf(g) = "bound"
    BY <1>0, <1>5, <2>2, PhaseFacts, Zenon DEF BeforeCopy
  <2>7. /\ CallOf(f).phase = "bound" /\ CallOf(f).obj = FactoryObj
        /\ CallOf(f).req = f.req /\ CallOf(f).effect = "none"
        /\ [CallOf(f) EXCEPT !.effect = "destroy"] = CallOf(g)
    <3>1. ~(f.i > 0) /\ g.i > 0 /\ g.site = "destroy"
      BY <2>2, <2>3, Counters, Zenon
    <3>2. CallOf(f) = ACall("bound", f.req, FactoryObj, "none", f.ok)
      BY <2>4, <2>6, <3>1, Zenon DEF CallOf, ACall
    <3>3. CallOf(g) = ACall("bound", f.req, FactoryObj, "destroy", f.ok)
      BY <2>2, <2>4, <2>6, <3>1, Zenon DEF CallOf, ACall
    <3> QED BY <3>2, <3>3, CallFields, SetEffect
  <2>8. /\ p \in CallFrames /\ CallMap[p] = CallOf(f)
        /\ CallMap' = [CallMap EXCEPT ![p] = CallOf(g)]
        /\ Top(c)' = g /\ \A d \in Cores : d # c => Top(d)' = Top(d)
    BY <1>0, <2>1, VisibleStep, Zenon
  <2>9. \A d \in Cores : Top(d).pc # "writing"
    BY <1>0, HolderAlone, Zenon DEF IInv, Holds
  <2>10. RegMap' = [RegMap EXCEPT ![f.req.arg] = "NULL"]
    BY <1>0, <2>2, <2>3, <2>5, <2>8, <2>9, RegBegins, ZenonT(40)
  <2>11. RegMap[f.req.arg] # "NULL"
    <3>1. ObjectOf(rec[f.req.arg]) # "NULL"
      BY <1>5, <2>3, <2>5, <2>9, LiveIsObject, Zenon DEF BeingWritten
    <3> QED BY <1>2, <2>5, <3>1, Zenon DEF RegMap
  <2>12. Registry!Destroy(p)
    BY <2>3, <2>4, <2>5, <2>7, <2>8, <2>10, <2>11, Zenon
       DEF Registry!Destroy, Registry!Serving, Registry!Move
  <2> QED BY <2>8, <2>12, Zenon DEF Simulated, Registry!Next
<1> QED BY <1>3, <1>4, <1>5, Zenon

(* The copy under the lock: the lookup finds its object here.               *)
LEMMA BindStep ==
  ASSUME IInv, NEW c \in Cores, Copy(c)
  PROVE  Simulated
<1> PICK f : f = Top(c)
  BY Zenon
<1> DEFINE p == <<c, top[c]>>
           t == f.req.target
           g == [f EXCEPT !.pc = "cap_unlock", !.snap = rec[t]]
<1>0. Run(c) /\ ~Return(c) /\ rec' = rec /\ f.pc = "copying" /\ Holds(f) /\ Step(c, g)
  BY Zenon DEF Run, Return, Copy, Holds
<1>1. f \in Frame /\ FrameOK(f)
  BY <1>0, RunningFrame, Zenon
<1>2. /\ g.pc = "cap_unlock" /\ g.req = f.req /\ g.snap = rec[t] /\ g.ok = f.ok
      /\ g.i = f.i /\ g.site = f.site /\ t \in Handles
  BY <1>1, Zenon DEF Frame, Request
<1> HIDE DEF g
<1>3. f.site = "lookup" /\ f.i = 0
  BY <1>0, <1>1, Zenon DEF FrameOK, FactorySection
<1>4. \A d \in Cores : Top(d).pc # "writing"
  BY <1>0, HolderAlone, Zenon DEF IInv, Holds
<1>5. IsLive(rec[t])
  BY <1>0, Zenon DEF IInv, RecordsInv
<1>6. ObjectOf(rec[t]) = rec[t]["handler"] /\ ObjectOf(rec[t]) # "NULL"
  BY <1>2, <1>4, <1>5, LiveIsObject, Zenon DEF BeingWritten
<1>7. RegMap[t] = rec[t]["handler"] /\ RegMap[t] # "NULL"
  <2>1. RegOf(t) = ObjectOf(rec[t])
    BY <1>0, HolderReads, Zenon
  <2> QED BY <1>2, <1>6, <2>1, Zenon DEF RegMap
<1>8. PhaseOf(f) = "pending" /\ PhaseOf(g) = "bound"
  BY <1>0, <1>2, <1>3, <1>5, PhaseFacts, Zenon DEF LookingUp, BeforeCopy
<1>9. /\ CallOf(f).phase = "pending" /\ CallOf(f).req = f.req
      /\ [CallOf(f) EXCEPT !.phase = "bound", !.obj = RegMap[t]] = CallOf(g)
  <2>1. CallOf(f) = ACall("pending", f.req, f.snap["handler"], "none", f.ok)
    <3>1. ~(f.i > 0)
      BY <1>3, Counters, Zenon
    <3> QED BY <1>8, <3>1, Zenon DEF CallOf, ACall
  <2>2. CallOf(g) = ACall("bound", f.req, RegMap[t], "none", f.ok)
    <3>1. ~(g.i > 0)
      BY <1>2, <1>3, Counters, Zenon
    <3> QED BY <1>2, <1>7, <1>8, <3>1, Zenon DEF CallOf, ACall
  <2>3. /\ CallOf(f).phase = "pending" /\ CallOf(f).req = f.req
        /\ CallOf(f).effect = "none"
    BY <2>1, CallFields
  <2>4. PICK m : m = [CallOf(f) EXCEPT !.phase = "bound"]
    BY Zenon
  <2>5. m = ACall("bound", f.req, f.snap["handler"], "none", f.ok)
    BY <2>1, <2>4, SetPhase
  <2>6. [m EXCEPT !.obj = RegMap[t]] = CallOf(g)
    BY <2>2, <2>5, SetObj
  <2>7. [CallOf(f) EXCEPT !.phase = "bound", !.obj = RegMap[t]] = [m EXCEPT !.obj = RegMap[t]]
    BY <2>4, Zenon
  <2> QED BY <2>3, <2>6, <2>7, Zenon
<1>10. /\ p \in CallFrames /\ CallMap[p] = CallOf(f)
       /\ CallMap' = [CallMap EXCEPT ![p] = CallOf(g)]
       /\ Top(c)' = g /\ \A d \in Cores : d # c => Top(d)' = Top(d)
  BY <1>0, VisibleStep, Zenon
<1>11. RegMap' = RegMap
  BY <1>0, <1>2, <1>10, RegQuiet, Zenon
<1>12. Registry!Bind(p)
  <2>1. /\ CallMap[p].phase = "pending" /\ CallMap[p].req.target = t
        /\ [CallMap[p] EXCEPT !.phase = "bound", !.obj = RegMap[t]] = CallOf(g)
    BY <1>9, <1>10, Zenon
  <2> QED BY <1>7, <1>10, <1>11, <2>1, Zenon DEF Registry!Bind, Registry!Move
<1> QED BY <1>10, <1>12, Zenon DEF Simulated, Registry!Next

(* A request fits the object whose whole record was copied, or its record,  *)
(* alike.                                                                   *)
LEMMA SameVerdict ==
  ASSUME NEW s, WholeOrDead(s), s # DeadRecord, NEW r
  PROVE  IsLive(s) /\ (Accepts(s, r) <=> ObjAccepts(s["handler"], r))
<1>1. PICK o \in AllObjects : s = LiveRecord(o)
  BY Zenon DEF WholeOrDead
<1> QED BY <1>1, LiveRecordFacts, Zenon DEF Accepts, ObjAccepts

(* find_method and the request check: a request that does not fit is refused*)
(* here.                                                                    *)
LEMMA RefuseStep ==
  ASSUME IInv, NEW c \in Cores, FindMethod(c)
  PROVE  Simulated
<1> PICK f : f = Top(c)
  BY Zenon
<1> DEFINE p == <<c, top[c]>>
           q == IF ~Accepts(f.snap, f.req) THEN "return"
                ELSE IF f.snap["handler"] = FactoryObj THEN "factory" ELSE "external"
           g == [f EXCEPT !.pc = q]
<1>0. Run(c) /\ ~Return(c) /\ rec' = rec /\ f.pc = "find_method" /\ Step(c, g)
  BY Zenon DEF Run, Return, FindMethod
<1>1. f \in Frame /\ FrameOK(f)
  BY <1>0, RunningFrame, Zenon
<1>2. /\ g.pc = q /\ g.req = f.req /\ g.snap = f.snap /\ g.ok = f.ok
      /\ g.i = f.i /\ g.site = f.site
  BY <1>1, Zenon DEF Frame
<1> HIDE DEF g
<1>3. IsLive(f.snap) /\ (Accepts(f.snap, f.req) <=> ObjAccepts(f.snap["handler"], f.req))
  BY <1>0, <1>1, SameVerdict, Zenon DEF FrameOK
<1>4. PhaseOf(f) = "bound"
  BY <1>0, PhaseFacts, Zenon
<1>5. CASE Accepts(f.snap, f.req)
  <2>1. PhaseOf(g) = "bound"
    BY <1>2, <1>5, PhaseFacts, Zenon
  <2>2. RegMap' = RegMap /\ CallMap' = CallMap
    BY <1>0, <1>2, <1>4, <2>1, MoveSilent, Zenon
  <2> QED BY <2>2, Zenon DEF Simulated
<1>6. CASE ~Accepts(f.snap, f.req)
  <2>1. PhaseOf(g) = "ended"
    BY <1>2, <1>6, PhaseFacts, Zenon
  <2>2. /\ CallOf(f).phase = "bound" /\ CallOf(f).req = f.req
        /\ CallOf(f).obj = f.snap["handler"]
        /\ [CallOf(f) EXCEPT !.phase = "ended"] = CallOf(g)
    <3>1. CallOf(f) = ACall("bound", f.req, f.snap["handler"],
                            IF f.i > 0 THEN f.site ELSE "none", f.ok)
      BY <1>4, Zenon DEF CallOf, ACall
    <3>2. CallOf(g) = ACall("ended", f.req, f.snap["handler"],
                            IF f.i > 0 THEN f.site ELSE "none", f.ok)
      BY <1>2, <2>1, Zenon DEF CallOf, ACall
    <3> QED BY <3>1, <3>2, CallFields, SetPhase
  <2>3. /\ p \in CallFrames /\ CallMap[p] = CallOf(f)
        /\ CallMap' = [CallMap EXCEPT ![p] = CallOf(g)]
        /\ Top(c)' = g /\ \A d \in Cores : d # c => Top(d)' = Top(d)
    BY <1>0, VisibleStep, Zenon
  <2>4. RegMap' = RegMap
    BY <1>0, <1>2, <2>3, RegQuiet, Zenon
  <2>5. Registry!Refuse(p)
    BY <1>3, <1>6, <2>2, <2>3, <2>4, Zenon DEF Registry!Refuse, Registry!Move
  <2> QED BY <2>3, <2>5, Zenon DEF Simulated, Registry!Next
<1> QED BY <1>5, <1>6, Zenon

(* The response check decides what the caller is told.                      *)
LEMMA FinishStep ==
  ASSUME IInv, NEW c \in Cores, Verify(c)
  PROVE  Simulated
<1> PICK f : f = Top(c)
  BY Zenon
<1> DEFINE p == <<c, top[c]>>
           bad == HasResult(f.req) /\ f.resp # "good"
           g == IF bad THEN [f EXCEPT !.pc = "return", !.resp = "none"]
                ELSE [f EXCEPT !.pc = "return", !.ok = 1]
<1>0. Run(c) /\ ~Return(c) /\ rec' = rec /\ f.pc = "verify" /\ Step(c, g)
  BY Zenon DEF Run, Return, Verify
<1>1. f \in Frame /\ FrameOK(f)
  BY <1>0, RunningFrame, Zenon
<1>2. /\ g.pc = "return" /\ g.req = f.req /\ g.snap = f.snap /\ g.i = f.i /\ g.site = f.site
      /\ g.ok = IF bad THEN 0 ELSE 1
  BY <1>0, <1>1, Zenon DEF Frame, FrameOK
<1> HIDE DEF g
<1>3. Accepts(f.snap, f.req) /\ ObjAccepts(f.snap["handler"], f.req)
  BY <1>0, <1>1, SameVerdict, Zenon DEF FrameOK, Accepted
<1>4. PhaseOf(f) = "bound" /\ PhaseOf(g) = "ended"
  BY <1>0, <1>2, PhaseFacts, Zenon
<1>5. /\ CallOf(f).phase = "bound" /\ CallOf(f).req = f.req
      /\ CallOf(f).obj = f.snap["handler"]
      /\ CallOf(f).effect = IF f.i > 0 THEN f.site ELSE "none"
      /\ [CallOf(f) EXCEPT !.phase = "ended", !.ok = g.ok] = CallOf(g)
  <2> DEFINE e == IF f.i > 0 THEN f.site ELSE "none"
  <2>1. CallOf(f) = ACall("bound", f.req, f.snap["handler"], e, f.ok)
    BY <1>4, Zenon DEF CallOf, ACall
  <2>2. CallOf(g) = ACall("ended", f.req, f.snap["handler"], e, g.ok)
    BY <1>2, <1>4, Zenon DEF CallOf, ACall
  <2> HIDE DEF e
  <2>3. /\ CallOf(f).phase = "bound" /\ CallOf(f).req = f.req
        /\ CallOf(f).obj = f.snap["handler"] /\ CallOf(f).effect = e
    BY <2>1, CallFields
  <2>4. PICK m : m = [CallOf(f) EXCEPT !.phase = "ended"]
    BY Zenon
  <2>5. m = ACall("ended", f.req, f.snap["handler"], e, f.ok)
    BY <2>1, <2>4, SetPhase
  <2>6. [m EXCEPT !.ok = g.ok] = CallOf(g)
    BY <2>2, <2>5, SetOk
  <2>7. [CallOf(f) EXCEPT !.phase = "ended", !.ok = g.ok] = [m EXCEPT !.ok = g.ok]
    BY <2>4, Zenon
  <2> QED BY <2>3, <2>6, <2>7, Zenon DEF e
<1>6. g.ok \in Registry!Result(CallOf(f))
  <2>1. CASE f.req.method = "create"
    <3>1. f.snap["handler"] = FactoryObj
      BY <1>3, <2>1, Zenon DEF ObjAccepts, Methods
    <3>2. f.resp = FactoryResponse(f)
      BY <1>0, <1>1, <3>1, Zenon DEF FrameOK
    <3>3. IF f.site = "create" THEN f.i > 0 ELSE f.i = 0
      BY <1>0, <1>1, <2>1 DEF FrameOK, FactorySection, Frame, NumFields
    <3>4. bad <=> ~(f.site = "create" /\ f.req.response_cap >= 24)
      BY <2>1, <3>2, Zenon DEF FactoryResponse, HasResult
    <3>5. Registry!Result(CallOf(f)) =
            IF f.site = "create" /\ f.req.response_cap >= 24 THEN {1} ELSE {0}
      BY <1>5, <2>1, <3>3, Zenon DEF Registry!Result
    <3> QED BY <1>2, <3>4, <3>5, Zenon
  <2>2. CASE f.req.method = "destroy"
    BY <1>2, <1>5, <2>2, Zenon DEF Registry!Result, HasResult
  <2>3. CASE f.req.method \notin {"create", "destroy"}
    BY <1>2, <1>5, <2>3, Zenon DEF Registry!Result
  <2> QED BY <2>1, <2>2, <2>3, Zenon
<1>7. /\ p \in CallFrames /\ CallMap[p] = CallOf(f)
      /\ CallMap' = [CallMap EXCEPT ![p] = CallOf(g)]
      /\ Top(c)' = g /\ \A d \in Cores : d # c => Top(d)' = Top(d)
  BY <1>0, VisibleStep, Zenon
<1>8. RegMap' = RegMap
  BY <1>0, <1>2, <1>7, RegQuiet, Zenon
<1>9. Registry!Finish(p)
  BY <1>3, <1>5, <1>6, <1>7, <1>8, ZenonT(40) DEF Registry!Finish, Registry!Move
<1> QED BY <1>7, <1>9, Zenon DEF Simulated, Registry!Next

-----------------------------------------------------------------------------
(* Entering and leaving the kernel *)

(* The registry's view of an invocation of r that has just begun.           *)
Fresh(r) == [Registry!Idle EXCEPT !.phase = "pending", !.req = r]

(* A frame that does not exist is idle, and one that kernel_invoke starts   *)
(* with has just begun.                                                     *)
LEMMA IdleCall ==
  /\ CallOf(NoFrame) = Registry!Idle
  /\ \A k, s, r : CallOf(NewFrame(k, s, r)) = Fresh(r)
<1>1. CallOf(NoFrame) = Registry!Idle
  <2>1. /\ NoFrame.pc = "none" /\ NoFrame.req = NoRequest /\ NoFrame.snap = DeadRecord
        /\ NoFrame.i = 0 /\ NoFrame.ok = 0
    BY Zenon DEF NoFrame, ThreadFrame
  <2>2. PhaseOf(NoFrame) = "idle" /\ DeadRecord["handler"] = "NULL"
    BY <2>1, PhaseFacts, Zenon DEF DeadRecord, Fields
  <2> QED BY <2>1, <2>2, Counters, Zenon DEF CallOf, Registry!Idle
<1>2. ASSUME NEW k, NEW s, NEW r PROVE CallOf(NewFrame(k, s, r)) = Fresh(r)
  <2> PICK g : g = NewFrame(k, s, r)
    BY Zenon
  <2>1. /\ g.pc = "cap_lock" /\ g.site = "lookup" /\ g.req = r /\ g.snap = DeadRecord
        /\ g.i = 0 /\ g.ok = 0
    BY Zenon DEF NewFrame, ThreadFrame
  <2>2. PhaseOf(g) = "pending" /\ DeadRecord["handler"] = "NULL"
    BY <2>1, PhaseFacts, Zenon DEF DeadRecord, Fields, LookingUp, BeforeCopy
  <2>3. CallOf(g) = ACall("pending", r, "NULL", "none", 0)
    BY <2>1, <2>2, Counters, Zenon DEF CallOf, ACall
  <2>4. PICK m : m = [Registry!Idle EXCEPT !.phase = "pending"]
    BY Zenon
  <2>5. m = ACall("pending", NoRequest, "NULL", "none", 0)
    BY <2>4, Zenon DEF Registry!Idle, ACall
  <2>6. [m EXCEPT !.req = r] = CallOf(g)
    BY <2>3, <2>5, SetReq
  <2>7. Fresh(r) = [m EXCEPT !.req = r]
    BY <2>4, Zenon DEF Fresh
  <2> QED BY <2>6, <2>7, Zenon
<1> QED BY <1>1, <1>2, Zenon

(* kernel_invoke is called, or an interrupt calls it: an invocation begins. *)
LEMMA BeginStep ==
  ASSUME IInv, NEW c \in Cores, Enter(c)
  PROVE  Simulated
<1>1. TypeOK /\ StackInv /\ IrqInv
  BY Zenon DEF IInv, LockInv
<1>2. PICK r \in Requests, k \in {"call", "irq"}, g \in Frame :
        /\ top[c] < MaxDepth /\ Push(c, g)
        /\ g = NewFrame(k, IF k = "irq" THEN "off" ELSE irq[c], r)
        /\ k = "irq"  => irq[c] = "on"
        /\ k = "call" => Top(c).pc = "external"
        /\ rec' = rec
  BY <1>1, EnterLemma, Zenon
<1> DEFINE l == top[c] + 1
           p == <<c, l>>
<1>3. l \in Levels \ {0} /\ top[c] \in Levels /\ l > top[c]
  BY <1>1, <1>2, TopLemma, DepthAssumption DEF Levels
<1>4. /\ top'[c] = l /\ fr'[c][l] = g
      /\ \A d \in Cores : d # c => top'[d] = top[d]
      /\ \A d \in Cores, m \in Levels : d # c \/ m # l => fr'[d][m] = fr[d][m]
  BY <1>1, <1>2, PushLemma, Zenon
<1>5. fr[c][l] = NoFrame
  BY <1>1, <1>3, Zenon DEF StackInv
<1> HIDE DEF l
<1>6. /\ p \in CallFrames /\ CallMap[p] = CallOf(NoFrame)
      /\ CallMap' = [CallMap EXCEPT ![p] = CallOf(g)]
  BY <1>1, <1>3, <1>4, <1>5, CallAt
<1>7. CallOf(g) = Fresh(r)
  BY <1>2, IdleCall, Zenon
<1>8. Top(c)' = g /\ \A d \in Cores : d # c => Top(d)' = Top(d)
  <2>1. \A d \in Cores : top[d] \in Levels
    BY <1>1, Zenon DEF TypeOK
  <2> QED BY <1>4, <2>1, ZenonT(40) DEF Top
<1>9. Top(c).pc # "writing" /\ g.pc # "writing"
  <2>1. k = "irq" => Top(c).pc # "writing"
    BY <1>1, <1>2, Zenon DEF IrqInv, Masked, Holds
  <2> QED BY <1>2, <2>1, Zenon DEF NewFrame, ThreadFrame
<1>10. RegMap' = RegMap
  BY <1>2, <1>8, <1>9, RegQuiet, Zenon
<1>11. Registry!Begin(p)
  BY <1>6, <1>7, <1>10, IdleCall, Zenon DEF Registry!Begin, Registry!Move, Fresh
<1> QED BY <1>6, <1>11, Zenon DEF Simulated, Registry!Next

(* kernel_invoke returns: the invocation is over.                           *)
LEMMA EndStep ==
  ASSUME IInv, NEW c \in Cores, Return(c)
  PROVE  Simulated
<1> DEFINE p == <<c, top[c]>>
           b == fr[c][top[c] - 1]
<1>1. TypeOK /\ StackInv /\ IrqInv /\ Top(c).pc = "return" /\ rec' = rec
  BY Zenon DEF IInv, LockInv, Return
<1>2. top[c] \in Levels \ {0} /\ top[c] - 1 \in Levels /\ top[c] - 1 < top[c]
  BY <1>1, TopLemma, DepthAssumption DEF StackInv, Top, Levels
<1>3. /\ top'[c] = top[c] - 1 /\ fr'[c][top[c]] = NoFrame
      /\ \A d \in Cores : d # c => top'[d] = top[d]
      /\ \A d \in Cores, m \in Levels : d # c \/ m # top[c] => fr'[d][m] = fr[d][m]
  BY <1>1, StepLemma, IdleFrameTypes, Zenon DEF Return, TypeOK
<1>4. /\ p \in CallFrames /\ CallMap[p] = CallOf(Top(c))
      /\ CallMap' = [CallMap EXCEPT ![p] = CallOf(NoFrame)]
  <2> PICK l : l = top[c]
    BY Zenon
  <2>1. /\ <<c, l>> \in CallFrames /\ CallMap[<<c, l>>] = CallOf(fr[c][l])
        /\ CallMap' = [CallMap EXCEPT ![<<c, l>>] = CallOf(NoFrame)]
    BY <1>1, <1>2, <1>3, CallAt
  <2> QED BY <2>1, Zenon DEF Top
<1>5. CallOf(Top(c)).phase = "ended"
  BY <1>1, PhaseFacts, Zenon DEF CallOf
<1>6. Top(c)' = b /\ \A d \in Cores : d # c => Top(d)' = Top(d)
  <2>1. \A d \in Cores : top[d] \in Levels
    BY <1>1, Zenon DEF TypeOK
  <2>2. Top(c)' = b
    <3>1. top[c] - 1 # top[c]
      BY <1>2 DEF Levels
    <3> QED BY <1>2, <1>3, <3>1, ZenonT(40) DEF Top
  <2> QED BY <1>3, <2>1, <2>2, ZenonT(40) DEF Top
<1>7. b.pc # "writing"
  BY <1>1, <1>2, Zenon DEF IrqInv, Masked, Holds
<1>8. RegMap' = RegMap
  BY <1>1, <1>6, <1>7, RegQuiet, Zenon
<1>9. Registry!End(p)
  BY <1>4, <1>5, <1>8, IdleCall, Zenon DEF Registry!End, Registry!Move
<1> QED BY <1>4, <1>9, Zenon DEF Simulated, Registry!Next

-----------------------------------------------------------------------------

(* The kernel starts as an empty registry with no invocation in progress.   *)
LEMMA RegistryInit == Init => Registry!Init
<1> SUFFICES ASSUME Init PROVE Registry!Init
  BY Zenon
<1>1. ASSUME NEW c \in Cores PROVE Top(c).pc = "external"
  BY DepthAssumption DEF Init, Top, Levels, ThreadFrame
<1>2. ASSUME NEW h \in Handles
      PROVE  RegOf(h) = IF h = Factory THEN FactoryObj ELSE "NULL"
  <2>1. RegOf(h) = ObjectOf(rec[h])
    BY <1>1, Zenon DEF RegOf, Writing
  <2>2. rec[h] = LiveRecord(FactoryObj) \/ rec[h] \in {StaleRecord, DeadRecord}
    BY Zenon DEF Init
  <2>3. h = Factory <=> rec[h] = LiveRecord(FactoryObj)
    BY LiveRecordFacts DEF Init, StaleRecord, DeadRecord, LiveRecord, Fields, AllObjects
  <2>4. ObjectOf(LiveRecord(FactoryObj)) = FactoryObj
    BY LiveRecordFacts, Zenon DEF ObjectOf, AllObjects
  <2>5. ObjectOf(StaleRecord) = "NULL" /\ ObjectOf(DeadRecord) = "NULL"
    BY Zenon DEF ObjectOf, IsLive, StaleRecord, DeadRecord, Fields
  <2> QED BY <2>1, <2>2, <2>3, <2>4, <2>5, Zenon
<1>3. ASSUME NEW p \in CallFrames
      PROVE  CallOf(fr[p[1]][p[2]]) = Registry!Idle
  <2>1. p[1] \in Cores /\ p[2] \in Levels /\ p[2] # 0
    BY Zenon DEF CallFrames
  <2>2. fr[p[1]][p[2]] = NoFrame
    BY <2>1, Zenon DEF Init
  <2> QED BY <2>2, IdleCall, Zenon
<1>4. RegMap = [h \in Handles |-> IF h = Factory THEN FactoryObj ELSE "NULL"]
  BY <1>2, Zenon DEF RegMap
<1>5. CallMap = [p \in CallFrames |-> Registry!Idle]
  BY <1>3, Zenon DEF CallMap
<1> QED BY <1>4, <1>5, Zenon DEF Registry!Init

(* Every step of the kernel is a step of the registry, or none.             *)
LEMMA RegistryStep == IInv /\ [Next]_vars => [Registry!Next]_(Registry!vars)
<1> SUFFICES ASSUME IInv, [Next]_vars PROVE Simulated
  BY Zenon DEF Simulated, Registry!vars
<1>1. CASE UNCHANGED vars
  <2>1. RegMap' = RegMap /\ CallMap' = CallMap
    BY <1>1, Zenon DEF vars, RegMap, CallMap, RegOf, Writing, ObjectOf, Top
  <2> QED BY <2>1, Zenon DEF Simulated
<1>2. CASE Next
  <2>1. PICK c \in Cores : Enter(c) \/ Run(c)
    BY <1>2, Zenon DEF Next
  <2>2. CASE \/ CapLock(c) \/ Release(c) \/ RestoreIrq(c) \/ FactoryHandler(c)
             \/ HandlerReturn(c)
    BY <2>2, SilentSteps, Zenon DEF Simulated
  <2>3. CASE WriteField(c)
    BY <2>3, WriteSilent, Zenon DEF Simulated
  <2> QED BY <2>1, <2>2, <2>3, BeginStep, TakeStep, CheckStep, BindStep, RefuseStep,
             FinishStep, EndStep, Zenon DEF Run
<1> QED BY <1>1, <1>2

(* Every behaviour of the kernel, with its lock, its interrupts, its nested *)
(* calls and its field-by-field writes, is a behaviour of the atomic        *)
(* registry: kernel_invoke consults and changes the records in one instant  *)
(* between its call and its return.                                         *)
THEOREM RefinesRegistry == Spec => ImplementsRegistry
BY RegistryInit, RegistryStep, InvariantHolds, PTL DEF Spec, ImplementsRegistry, Registry!Spec

=============================================================================
