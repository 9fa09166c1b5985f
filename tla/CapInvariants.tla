---------------------------- MODULE CapInvariants ----------------------------
(***************************************************************************)
(* The inductive invariant behind the safety properties of CapKernel.      *)
(***************************************************************************)
EXTENDS CapKernel

(* Interrupts are masked between the two halves of cap_lock and cap_unlock. *)
Masked(f) == Holds(f) \/ f.pc \in {"spin", "restore"}

(* A frame exists up to the top of its core's stack and not above; level 0  *)
(* never leaves the code outside the kernel.                                *)
StackInv ==
  \A c \in Cores, l \in Levels :
    /\ fr[c][l].pc = "none" <=> l > top[c]
    /\ l > top[c] => fr[c][l] = NoFrame
    /\ l = 0 <=> l <= top[c] /\ fr[c][l].kind = "thread"
    /\ l = 0 => fr[c][l].pc = "external"

(* Only the running frame can have interrupts masked by cap_lock, and what  *)
(* a frame found on entry is what the frame below it runs with, unless an   *)
(* interrupt came in between.                                               *)
IrqInv ==
  /\ \A c \in Cores :
       IF Masked(Top(c)) THEN irq[c] = "off" /\ Top(c).prior = Top(c).irq0
                         ELSE irq[c] = Top(c).irq0
  /\ \A c \in Cores, l \in Levels :
       l < top[c] =>
         /\ ~Masked(fr[c][l])
         /\ fr[c][l + 1].irq0 = IF fr[c][l + 1].kind = "irq" THEN "off"
                                                             ELSE fr[c][l].irq0
         /\ fr[c][l + 1].kind = "irq" => fr[c][l].irq0 = "on"

LockInv == StackInv /\ IrqInv /\ MutualExclusion

-----------------------------------------------------------------------------

BeforeCopy == {"cap_lock", "spin", "checking", "copying"}

LookingUp(f) == f.site = "lookup" /\ f.pc \in BeforeCopy

(* A copied record, if there is one, is one object's. *)
WholeOrDead(r) == r = DeadRecord \/ \E o \in AllObjects : r = LiveRecord(o)

(* The request has been accepted: its handler runs, or has run. *)
Accepted(f) == f.pc \in {"factory", "external", "verify"} \/ f.site # "lookup"

(* In factory_handler, at or after its cap_lock. *)
FactorySection(f) ==
  /\ f.snap = LiveRecord(FactoryObj)
  /\ f.req.method = f.site
  /\ f.req.arg \in Slots
  /\ f.pc \in {"cap_lock", "spin", "checking", "writing", "cap_unlock",
               "restore", "verify", "return"}
  /\ f.pc \in {"cap_lock", "spin", "checking"} => f.i = 0
  /\ f.pc = "writing" => f.i \in 1..NumFields
  /\ f.pc \in {"cap_unlock", "restore", "verify", "return"} =>
       f.i \in {0, NumFields + 1}
  /\ f.site = "create" =>
       /\ f.pc # "checking"
       /\ f.pc \in {"cap_unlock", "restore", "verify", "return"} =>
            f.i = NumFields + 1

(* What factory_handler leaves in the response buffer. *)
FactoryResponse(f) ==
  IF f.site = "create" /\ f.req.response_cap >= 24 THEN "good" ELSE "none"

(* What a kernel_invoke frame says about itself, in terms of how far it got.*)
FrameOK(f) ==
  /\ WellFormedRequest(f.req)
  /\ WholeOrDead(f.snap)
  /\ LookingUp(f) => f.snap = DeadRecord
  /\ f.pc \in {"find_method", "factory", "external", "verify"} =>
       f.snap # DeadRecord
  /\ IF f.site = "lookup" THEN f.i = 0 /\ f.pc # "writing" ELSE FactorySection(f)
  /\ Accepted(f) => Accepts(f.snap, f.req)
  /\ f.pc = "factory"  => f.snap["handler"] = FactoryObj
  /\ f.pc = "external" => f.snap["handler"] # FactoryObj
  /\ f.pc # "return" => f.ok = 0
  /\ f.pc \notin {"verify", "return"} => f.resp = "none"
  /\ f.pc = "verify" /\ f.snap["handler"] = FactoryObj =>
       f.resp = FactoryResponse(f)
  /\ f.pc = "return" /\ f.ok = 1 => Accepts(f.snap, f.req)
  /\ f.pc = "return" /\ Accepts(f.snap, f.req) /\ f.snap["handler"] = FactoryObj =>
       f.ok = IF f.req.method = "create" /\ FactoryResponse(f) # "good" THEN 0 ELSE 1

FramesInv ==
  \A c \in Cores, l \in Levels : l > 0 => FrameOK(fr[c][l])

(* The fields a writer has passed hold its image; the others it has not     *)
(* touched.                                                                 *)
Written(f, r) ==
  \A k \in 1..NumFields :
    k < f.i => IF f.site = "create"
                 THEN r[CreateOrder[k]] = LiveRecord(f.req.obj)[CreateOrder[k]]
                 ELSE r[DestroyOrder[k]] = DeadRecord[DestroyOrder[k]]

BeingWritten(h) ==
  \E c \in Cores : Top(c).pc = "writing" /\ Top(c).req.arg = h

RecordsInv ==
  /\ \A h \in Handles :
       IsLive(rec[h]) /\ ~BeingWritten(h) =>
         \E o \in AllObjects : rec[h] = LiveRecord(o)
  /\ \A c \in Cores :
       /\ Top(c).pc = "writing" => Written(Top(c), rec[Top(c).req.arg])
       /\ Top(c).pc = "copying" => IsLive(rec[Top(c).req.target])
  /\ FactoryAlwaysLive

(* The inductive invariant: the frames' own state, the stacks and masks,    *)
(* the lock, and the records that nobody is writing.                        *)
IInv == TypeOK /\ LockInv /\ FramesInv /\ RecordsInv

=============================================================================
