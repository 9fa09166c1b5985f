------------------------------ MODULE CapKernel ------------------------------
(***************************************************************************)
(* The capability kernel of kernel/cap.c: kernel_invoke, the factory       *)
(* object's CREATE and DESTROY methods, and the spinlock g_cap_lock that   *)
(* protects capability records, on several cores with interrupts.          *)
(*                                                                         *)
(* Every core has a stack of frames.  Level 0 is the core's own code       *)
(* outside the kernel; each further level is one kernel_invoke call, made  *)
(* by the code below it (a caller, or an object's handler, which may call  *)
(* kernel_invoke again) or by an interrupt that arrived while the frame    *)
(* below was running with interrupts enabled.  Only the top frame runs.    *)
(*                                                                         *)
(* Record fields are written one at a time, in the order of the source.    *)
(* Messages are reduced to what the kernel looks at: the method, the       *)
(* object whose schema the message structurally fits (shape), and the      *)
(* words of the factory's own requests.                                    *)
(***************************************************************************)
EXTENDS Integers

CONSTANTS
  Cores,        \* the cores that execute this kernel image
  Slots,        \* caller-owned record storage (CREATE's recordStorage)
  Factory,      \* the address of g_factory_record
  Objects,      \* what CREATE binds: handler, data and schema of one object
  FactoryObj,   \* factory_handler with the factory's own schema
  Requests,     \* the invocations callers make
  MaxDepth      \* bound on nested invocations on one core

Handles    == Slots \cup {Factory}
AllObjects == Objects \cup {FactoryObj}
Levels     == 0..MaxDepth

(* An invocation.  arg is CREATE's recordStorage or DESTROY's target, obj   *)
(* the object CREATE binds; other methods ignore both.                      *)
Request ==
  [target       : Handles,
   method       : {"create", "destroy", "call", "none"},
   shape        : AllObjects \cup {"garbage"},
   arg          : Handles \cup {"NULL"},
   obj          : AllObjects,
   response_cap : Nat]

NoRequest ==
  [target |-> Factory, method |-> "none", shape |-> "garbage",
   arg |-> "NULL", obj |-> FactoryObj, response_cap |-> 0]

(* Callers hand CREATE storage they own (cap.h), so never the factory's own *)
(* record, and DESTROY the address of a record.                             *)
WellFormedRequest(r) ==
  /\ r \in Request
  /\ r.method = "create"  => r.arg \in Slots \cup {"NULL"} /\ r.obj \in Objects
  /\ r.method = "destroy" => r.arg \in Handles

ASSUME NamesAssumption ==
  /\ Factory \notin Slots
  /\ FactoryObj \notin Objects
  /\ "NULL" \notin Handles
  /\ AllObjects \cap {"MAGIC", "1", "NULL", "garbage"} = {}

ASSUME RequestsAssumption == \A r \in Requests : WellFormedRequest(r)

ASSUME DepthAssumption == MaxDepth \in Nat \ {0}

VARIABLES
  lock,   \* g_cap_lock
  rec,    \* the cap_record_t at each handle, field by field
  irq,    \* per core: are local interrupts enabled ("on") or masked ("off")
  top,    \* per core: the level of the running frame
  fr      \* per core and level: the frame

vars == <<lock, rec, irq, top, fr>>

-----------------------------------------------------------------------------
(* Records *)

Fields == {"magic", "valid", "handler", "data", "schema_table", "schema_index"}

FieldValue == {"MAGIC", "1", "NULL"} \cup AllObjects

(* The order in which CREATE fills a record and DESTROY clears one. *)
CreateOrder ==
  <<"magic", "valid", "handler", "data", "schema_table", "schema_index">>
DestroyOrder ==
  <<"valid", "magic", "handler", "data", "schema_table", "schema_index">>
NumFields == 6

(* The record of a live object o; every field that CREATE takes from the    *)
(* request is tagged with o, so mixing two objects' fields is visible.      *)
LiveRecord(o) ==
  [f \in Fields |-> CASE f = "magic" -> "MAGIC"
                      [] f = "valid" -> "1"
                      [] OTHER       -> o]

DeadRecord == [f \in Fields |-> "NULL"]

(* Storage the kernel has never written: magic does not match, the rest is  *)
(* whatever was there.                                                      *)
StaleRecord == [DeadRecord EXCEPT !["valid"] = "1"]

IsLive_ValidOnly(r) == r["valid"] = "1"

IsLive(r) == r["magic"] = "MAGIC" /\ r["valid"] = "1"

-----------------------------------------------------------------------------
(* Frames *)

PCs == {"external", "cap_lock", "spin", "checking", "copying", "writing",
        "cap_unlock", "restore", "find_method", "factory", "verify",
        "return", "none"}

Frame ==
  [pc    : PCs,
   site  : {"lookup", "create", "destroy"},  \* which caller of cap_lock
   i     : 0..NumFields + 1,      \* next field to write; 0: none to write
   kind  : {"thread", "call", "irq"},        \* how the frame was entered
   irq0  : {"on", "off"},         \* interrupt state on entry
   prior : {"on", "off"},         \* what cap_lock saved
   req   : Request,
   snap  : [Fields -> FieldValue],           \* kernel_invoke's record copy
   resp  : {"none", "good", "bad"},          \* what the handler delivered
   ok    : {0, 1}]                           \* kernel_invoke's result

ThreadFrame(s) ==
  [pc |-> "external", site |-> "lookup", i |-> 0, kind |-> "thread",
   irq0 |-> s, prior |-> "off", req |-> NoRequest, snap |-> DeadRecord,
   resp |-> "none", ok |-> 0]

NoFrame == [ThreadFrame("off") EXCEPT !.pc = "none"]

(* kernel_invoke on entry: nothing looked up, response length 0. *)
NewFrame(k, s, r) ==
  [ThreadFrame(s) EXCEPT !.pc = "cap_lock", !.kind = k, !.req = r]

Top(c) == fr[c][top[c]]

Step(c, g) == fr' = [fr EXCEPT ![c] = [@ EXCEPT ![top[c]] = g]]

Push(c, g) ==
  /\ top' = [top EXCEPT ![c] = @ + 1]
  /\ fr'  = [fr EXCEPT ![c] = [@ EXCEPT ![top[c] + 1] = g]]

Init ==
  /\ lock = 0
  /\ \E stale \in SUBSET Slots :
       rec = [h \in Handles |-> IF h = Factory THEN LiveRecord(FactoryObj)
                                ELSE IF h \in stale THEN StaleRecord
                                ELSE DeadRecord]
  /\ irq \in [Cores -> {"on", "off"}]
  /\ top = [c \in Cores |-> 0]
  /\ fr  = [c \in Cores |->
              [l \in Levels |-> IF l = 0 THEN ThreadFrame(irq[c]) ELSE NoFrame]]

-----------------------------------------------------------------------------
(* Entering the kernel *)

(* Code outside the kernel, or an object's handler, calls kernel_invoke.    *)
Invoke(c) ==
  /\ Top(c).pc = "external"
  /\ top[c] < MaxDepth
  /\ \E r \in Requests : Push(c, NewFrame("call", irq[c], r))
  /\ UNCHANGED <<lock, rec, irq>>

(* A timer interrupt whose handler calls kernel_invoke.  The hardware masks *)
(* interrupts on entry.                                                     *)
Interrupt(c) ==
  /\ irq[c] = "on"
  /\ top[c] < MaxDepth
  /\ \E r \in Requests : Push(c, NewFrame("irq", "off", r))
  /\ irq' = [irq EXCEPT ![c] = "off"]
  /\ UNCHANGED <<lock, rec>>

-----------------------------------------------------------------------------
(* cap_lock and cap_unlock *)

CapLock_NoMask(c) ==
  /\ Top(c).pc = "cap_lock"
  /\ Step(c, [Top(c) EXCEPT !.pc = "spin", !.prior = irq[c]])
  /\ UNCHANGED <<lock, rec, irq, top>>

(* Save the interrupt state and mask interrupts, before the lock is tried.  *)
CapLock(c) ==
  /\ Top(c).pc = "cap_lock"
  /\ Step(c, [Top(c) EXCEPT !.pc = "spin", !.prior = irq[c]])
  /\ irq' = [irq EXCEPT ![c] = "off"]
  /\ UNCHANGED <<lock, rec, top>>

(* The test-and-set that finds the lock free; one that finds it taken       *)
(* changes nothing.                                                         *)
TestAndSet(c) ==
  /\ Top(c).pc = "spin"
  /\ lock = 0
  /\ lock' = 1
  /\ Step(c, IF Top(c).site = "create"
               THEN [Top(c) EXCEPT !.pc = "writing", !.i = 1]
               ELSE [Top(c) EXCEPT !.pc = "checking"])
  /\ UNCHANGED <<rec, irq, top>>

Release_Forgotten(c) ==
  /\ Top(c).pc = "cap_unlock"
  /\ lock' = IF Top(c).site = "destroy" /\ Top(c).i = 0 THEN lock ELSE 0
  /\ Step(c, [Top(c) EXCEPT !.pc = "restore"])
  /\ UNCHANGED <<rec, irq, top>>

Release(c) ==
  /\ Top(c).pc = "cap_unlock"
  /\ lock' = 0
  /\ Step(c, [Top(c) EXCEPT !.pc = "restore"])
  /\ UNCHANGED <<rec, irq, top>>

(* Where a caller of cap_unlock goes on: a lookup that found no live record *)
(* returns 0, one that did goes on to find_method; CREATE writes its        *)
(* response if it fits; DESTROY has no response.                            *)
AfterUnlock(f) ==
  CASE f.site = "lookup" ->
         [f EXCEPT !.pc = IF IsLive(f.snap) THEN "find_method" ELSE "return"]
    [] f.site = "create" ->
         [f EXCEPT !.pc = "verify",
                   !.resp = IF f.req.response_cap >= 24 THEN "good" ELSE "none"]
    [] OTHER -> [f EXCEPT !.pc = "verify"]

RestoreIrq_Always(c) ==
  /\ Top(c).pc = "restore"
  /\ irq' = [irq EXCEPT ![c] = "on"]
  /\ Step(c, AfterUnlock(Top(c)))
  /\ UNCHANGED <<lock, rec, top>>

(* Interrupts are enabled again only if they were enabled before cap_lock.  *)
RestoreIrq(c) ==
  /\ Top(c).pc = "restore"
  /\ irq' = [irq EXCEPT ![c] = IF Top(c).prior = "on" THEN "on" ELSE @]
  /\ Step(c, AfterUnlock(Top(c)))
  /\ UNCHANGED <<lock, rec, top>>

-----------------------------------------------------------------------------
(* The critical sections *)

(* The record a critical section works on. *)
RecordOf(f) == IF f.site = "lookup" THEN f.req.target ELSE f.req.arg

Check_DestroyAnything(c) ==
  /\ Top(c).pc = "checking"
  /\ Step(c, IF Top(c).site # "lookup"
               THEN [Top(c) EXCEPT !.pc = "writing", !.i = 1]
               ELSE [Top(c) EXCEPT !.pc = IF IsLive(rec[Top(c).req.target])
                                            THEN "copying" ELSE "cap_unlock"])
  /\ UNCHANGED <<lock, rec, irq, top>>

(* The magic and valid test of kernel_invoke and of DESTROY. *)
Check(c) ==
  /\ Top(c).pc = "checking"
  /\ Step(c, IF ~IsLive(rec[RecordOf(Top(c))])
               THEN [Top(c) EXCEPT !.pc = "cap_unlock"]
               ELSE IF Top(c).site = "lookup"
                 THEN [Top(c) EXCEPT !.pc = "copying"]
                 ELSE [Top(c) EXCEPT !.pc = "writing", !.i = 1])
  /\ UNCHANGED <<lock, rec, irq, top>>

(* kernel_invoke copies the record. *)
Copy(c) ==
  /\ Top(c).pc = "copying"
  /\ Step(c, [Top(c) EXCEPT !.pc = "cap_unlock", !.snap = rec[Top(c).req.target]])
  /\ UNCHANGED <<lock, rec, irq, top>>

(* CREATE fills, DESTROY clears, one field of the record. *)
FieldAt(f) == IF f.site = "create" THEN CreateOrder[f.i] ELSE DestroyOrder[f.i]

ImageOf(f) == IF f.site = "create" THEN LiveRecord(f.req.obj) ELSE DeadRecord

WriteField_EarlyUnlock(c) ==
  LET f == Top(c) IN
  /\ f.pc = "writing"
  /\ rec' = [rec EXCEPT ![f.req.arg] = [@ EXCEPT ![FieldAt(f)] = ImageOf(f)[FieldAt(f)]]]
  /\ Step(c, [f EXCEPT !.i = @ + 1,
                       !.pc = IF f.i = NumFields THEN "restore" ELSE "writing"])
  /\ lock' = IF f.i = 3 THEN 0 ELSE lock
  /\ UNCHANGED <<irq, top>>

WriteField(c) ==
  LET f == Top(c) IN
  /\ f.pc = "writing"
  /\ rec' = [rec EXCEPT ![f.req.arg] = [@ EXCEPT ![FieldAt(f)] = ImageOf(f)[FieldAt(f)]]]
  /\ Step(c, [f EXCEPT !.i = @ + 1,
                       !.pc = IF f.i = NumFields THEN "cap_unlock" ELSE "writing"])
  /\ UNCHANGED <<lock, irq, top>>

-----------------------------------------------------------------------------
(* kernel_invoke after the lookup *)

Methods(o) ==
  IF o = FactoryObj THEN {"create", "destroy"}
  ELSE IF o \in Objects THEN {"call"} ELSE {}

(* find_method and capnp_validate_message on the copied record: the schema  *)
(* is the pair (schema_table, schema_index).                                *)
Accepts(s, r) ==
  /\ s["schema_table"] = s["schema_index"]
  /\ r.method \in Methods(s["schema_table"])
  /\ r.shape = s["schema_table"]

FindMethod_NoValidation(c) ==
  /\ Top(c).pc = "find_method"
  /\ Step(c, [Top(c) EXCEPT !.pc = IF Top(c).snap["handler"] = FactoryObj
                                     THEN "factory" ELSE "external"])
  /\ UNCHANGED <<lock, rec, irq, top>>

(* Reject the request, or call the handler, with no lock held. *)
FindMethod(c) ==
  /\ Top(c).pc = "find_method"
  /\ Step(c, [Top(c) EXCEPT !.pc = IF ~Accepts(Top(c).snap, Top(c).req)
                                     THEN "return"
                                     ELSE IF Top(c).snap["handler"] = FactoryObj
                                       THEN "factory" ELSE "external"])
  /\ UNCHANGED <<lock, rec, irq, top>>

FactoryHandler_NoGuard(c) ==
  LET f == Top(c) IN
  /\ f.pc = "factory"
  /\ Step(c, IF f.req.method = "create"
               THEN IF f.req.arg = "NULL"
                      THEN [f EXCEPT !.pc = "verify"]
                      ELSE [f EXCEPT !.pc = "cap_lock", !.site = "create"]
               ELSE [f EXCEPT !.pc = "cap_lock", !.site = "destroy"])
  /\ UNCHANGED <<lock, rec, irq, top>>

(* factory_handler up to its cap_lock: CREATE without storage and DESTROY   *)
(* of the factory itself return with no response.                           *)
FactoryHandler(c) ==
  LET f == Top(c) IN
  /\ f.pc = "factory"
  /\ Step(c, IF f.req.method = "create"
               THEN IF f.req.arg = "NULL"
                      THEN [f EXCEPT !.pc = "verify"]
                      ELSE [f EXCEPT !.pc = "cap_lock", !.site = "create"]
               ELSE IF f.req.arg = Factory
                      THEN [f EXCEPT !.pc = "verify"]
                      ELSE [f EXCEPT !.pc = "cap_lock", !.site = "destroy"])
  /\ UNCHANGED <<lock, rec, irq, top>>

(* An object's own handler returns, having delivered some response. *)
HandlerReturn(c) ==
  /\ Top(c).pc = "external"
  /\ top[c] > 0
  /\ \E resp \in {"none", "good", "bad"} :
       Step(c, [Top(c) EXCEPT !.pc = "verify", !.resp = resp])
  /\ UNCHANGED <<lock, rec, irq, top>>

(* DESTROY declares no result schema; every other method modelled does. *)
HasResult(r) == r.method # "destroy"

Verify_Unchecked(c) ==
  /\ Top(c).pc = "verify"
  /\ Step(c, [Top(c) EXCEPT !.pc = "return", !.ok = 1])
  /\ UNCHANGED <<lock, rec, irq, top>>

(* The response check: a response that does not fit is zeroed and the call  *)
(* fails, whatever the handler has done.                                    *)
Verify(c) ==
  LET f == Top(c) IN
  /\ f.pc = "verify"
  /\ Step(c, IF HasResult(f.req) /\ f.resp # "good"
               THEN [f EXCEPT !.pc = "return", !.resp = "none"]
               ELSE [f EXCEPT !.pc = "return", !.ok = 1])
  /\ UNCHANGED <<lock, rec, irq, top>>

(* kernel_invoke returns; the return from an interrupt enables interrupts,  *)
(* which were enabled when it arrived.                                      *)
Return(c) ==
  /\ Top(c).pc = "return"
  /\ irq' = [irq EXCEPT ![c] = IF Top(c).kind = "irq" THEN "on" ELSE @]
  /\ top' = [top EXCEPT ![c] = @ - 1]
  /\ Step(c, NoFrame)
  /\ UNCHANGED <<lock, rec>>

-----------------------------------------------------------------------------

(* The steps of code that is running: the kernel's own and a handler's      *)
(* return.                                                                  *)
Run(c) ==
  \/ CapLock(c)    \/ TestAndSet(c) \/ Release(c)    \/ RestoreIrq(c)
  \/ Check(c)      \/ Copy(c)       \/ WriteField(c)
  \/ FindMethod(c) \/ FactoryHandler(c) \/ HandlerReturn(c)
  \/ Verify(c)     \/ Return(c)

Enter(c) == Invoke(c) \/ Interrupt(c)

Next == \E c \in Cores : Enter(c) \/ Run(c)

Spec == Init /\ [][Next]_vars

(* A core keeps executing, and handlers return. *)
FairSpec == Spec /\ \A c \in Cores : WF_vars(Run(c))

-----------------------------------------------------------------------------
(* Properties *)

TypeOK ==
  /\ lock \in {0, 1}
  /\ rec \in [Handles -> [Fields -> FieldValue]]
  /\ irq \in [Cores -> {"on", "off"}]
  /\ top \in [Cores -> Levels]
  /\ fr \in [Cores -> [Levels -> Frame]]

Holds(f) == f.pc \in {"checking", "copying", "writing", "cap_unlock"}

(* g_cap_lock is taken exactly while one invocation, on one core, is inside *)
(* a critical section of cap.c, on whichever of its paths (lookup, CREATE,  *)
(* DESTROY, refusals included).                                             *)
MutualExclusion ==
  /\ lock = 1 <=> \E c \in Cores, l \in Levels : Holds(fr[c][l])
  /\ \A c, d \in Cores : \A l, m \in Levels :
       Holds(fr[c][l]) /\ Holds(fr[d][m]) => c = d /\ l = m

(* An invocation that waits for g_cap_lock never waits for a frame of its   *)
(* own core that it has interrupted or been called from: that frame could   *)
(* never release it ("would self-deadlock", cap.c:50; cap.c:53-56).         *)
NoSelfDeadlock ==
  \A c \in Cores : \A l, m \in Levels :
    fr[c][m].pc = "spin" /\ Holds(fr[c][l]) => l >= m

(* When kernel_invoke returns, the core's interrupts are as its caller had  *)
(* them, however many lock sections, nested calls and interrupts came in    *)
(* between: in particular they stay masked inside an interrupt handler.     *)
IrqStateRestored ==
  \A c \in Cores : Top(c).pc \in {"return", "external"} => irq[c] = Top(c).irq0

(* A copied record is one object's record, never a mixture of two CREATEs   *)
(* or of a CREATE and a DESTROY racing the copy: the handler that is called *)
(* belongs to the schema the request was validated against.                 *)
SnapshotWhole ==
  \A c \in Cores, l \in Levels :
    LET s == fr[c][l].snap IN
    l > 0 /\ s # DeadRecord => \E o \in AllObjects : s = LiveRecord(o)

(* A handler runs only on a request that passed the check against the       *)
(* schema of that handler's own object (cap.h: "rejecting a call before it  *)
(* ever reaches the object's handler").                                     *)
HandlerSeesItsOwnShape ==
  \A c \in Cores, l \in Levels :
    LET f == fr[c][l] IN
    l > 0 /\ (f.pc \in {"external", "factory"} \/ f.site # "lookup")
      => f.req.shape = f.snap["handler"] /\ f.req.method \in Methods(f.snap["handler"])

(* The factory object is permanently undestroyable (cap.c:224). *)
FactoryAlwaysLive == rec[Factory] = LiveRecord(FactoryObj)

(* A caller that is told 1 by CREATE got storage that was filled and a      *)
(* handle; a CREATE that changed storage yet reports 0 had a response       *)
(* buffer too small for the handle, and no other CREATE or DESTROY reports  *)
(* failure after taking effect.  DESTROY declares no result: of one that    *)
(* was refused, which reports 1 as well, nothing is said here.              *)
ResultMatchesEffect ==
  \A c \in Cores, l \in Levels :
    LET f == fr[c][l] IN
    f.pc = "return" =>
      /\ f.req.method = "create" =>
           (f.ok = 1 <=> f.i > NumFields /\ f.req.response_cap >= 24)
      /\ f.i > 0 /\ f.ok = 0 =>
           f.req.method = "create" /\ f.req.response_cap < 24

(* A record is only ever changed by the core that holds g_cap_lock, and     *)
(* never the record of the factory.                                         *)
WritesUnderLock ==
  [][\A h \in Handles : rec'[h] # rec[h] =>
        /\ h # Factory
        /\ lock = 1 /\ lock' = 1
        /\ \E c \in Cores : Top(c).pc = "writing" /\ Top(c).req.arg = h]_vars

(* The lock is always given back. *)
LockReleased == (lock = 1) ~> (lock = 0)

(* Unless new invocations keep arriving forever (test-and-set is not a fair *)
(* lock), every invocation returns to the code that made it.                *)
CallsReturn ==
  \/ []<><<\E c \in Cores : Enter(c)>>_vars
  \/ \A c \in Cores : (top[c] > 0) ~> (top[c] = 0)

=============================================================================
