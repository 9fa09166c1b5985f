---------------------------- MODULE CapRefinement ----------------------------
(***************************************************************************)
(* CapKernel implements CapRegistry.                                       *)
(*                                                                         *)
(* CREATE takes effect when it acquires the lock and DESTROY when its check*)
(* succeeds: from there on nobody else can look at the record until it is  *)
(* whole again.  A lookup takes effect at its check if it fails and at the *)
(* copy if it succeeds.                                                    *)
(***************************************************************************)
EXTENDS CapKernel

CallFrames == Cores \X (Levels \ {0})

(* The object a record stands for while nobody is writing it. *)
ObjectOf(r) == IF IsLive(r) THEN r["handler"] ELSE "NULL"

Writing(c, h) == Top(c).pc = "writing" /\ Top(c).req.arg = h

RegOf(h) ==
  IF \E c \in Cores : Writing(c, h)
    THEN LET c == CHOOSE c \in Cores : Writing(c, h)
         IN  IF Top(c).site = "create" THEN Top(c).req.obj ELSE "NULL"
    ELSE ObjectOf(rec[h])

RegMap == [h \in Handles |-> RegOf(h)]

PhaseOf(f) ==
  CASE f.pc = "none" -> "idle"
    [] f.pc = "return" -> "ended"
    [] f.site = "lookup" /\ f.pc \in {"cap_lock", "spin", "checking", "copying"} ->
         "pending"
    [] f.pc \in {"cap_unlock", "restore"} /\ ~IsLive(f.snap) -> "ended"
    [] OTHER -> "bound"

CallOf(f) ==
  [phase  |-> PhaseOf(f),
   req    |-> f.req,
   obj    |-> f.snap["handler"],
   effect |-> IF f.i > 0 THEN f.site ELSE "none",
   ok     |-> f.ok]

CallMap == [p \in CallFrames |-> CallOf(fr[p[1]][p[2]])]

ObjAccepts(o, r) == r.method \in Methods(o) /\ r.shape = o

Registry ==
  INSTANCE CapRegistry WITH
    Frames <- CallFrames, None <- "NULL", Accepts <- ObjAccepts,
    reg <- RegMap, call <- CallMap

(* Every behaviour of the kernel, with its locks, interrupts, nested calls  *)
(* and field-by-field writes, is a behaviour of the atomic registry: an     *)
(* invocation runs the object that its handle named at some instant between *)
(* call and return, and a refused or failed call changes nothing, except    *)
(* that a CREATE without room for its response still creates.               *)
ImplementsRegistry == Registry!Spec

=============================================================================
