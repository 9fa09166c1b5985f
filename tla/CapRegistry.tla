----------------------------- MODULE CapRegistry -----------------------------
(***************************************************************************)
(* What kernel_invoke promises its callers (cap.h): a registry from        *)
(* handles to objects that every invocation consults, and CREATE and       *)
(* DESTROY change, in one atomic step between its call and its return.     *)
(* There are no locks, no interrupts and no record fields here.            *)
(***************************************************************************)
EXTENDS Integers

CONSTANTS
  Frames,      \* places an invocation can run in
  Handles,     \* capability handles
  Factory,     \* the factory object's handle
  FactoryObj,  \* the factory object
  None,        \* no object
  Requests,    \* the invocations callers make
  NoRequest,   \* the request of a frame that runs no invocation
  Accepts(_, _) \* Accepts(o, r): object o has r's method and r fits its schema

VARIABLES
  reg,     \* the object behind each handle, None if there is none
  call     \* per frame: the invocation in progress

vars == <<reg, call>>

Idle ==
  [phase |-> "idle", req |-> NoRequest, obj |-> None, effect |-> "none", ok |-> 0]

Init ==
  /\ reg  = [h \in Handles |-> IF h = Factory THEN FactoryObj ELSE None]
  /\ call = [f \in Frames |-> Idle]

Move(f, k) == call' = [call EXCEPT ![f] = k]

Begin(f) ==
  /\ call[f] = Idle
  /\ \E r \in Requests : Move(f, [Idle EXCEPT !.phase = "pending", !.req = r])
  /\ UNCHANGED reg

(* The handle names no object now: the invocation fails. *)
Miss(f) ==
  /\ call[f].phase = "pending"
  /\ reg[call[f].req.target] = None
  /\ Move(f, [call[f] EXCEPT !.phase = "ended"])
  /\ UNCHANGED reg

(* The handle names an object now: that object is the one invoked. *)
Bind(f) ==
  /\ call[f].phase = "pending"
  /\ reg[call[f].req.target] # None
  /\ Move(f, [call[f] EXCEPT !.phase = "bound",
                             !.obj = reg[call[f].req.target]])
  /\ UNCHANGED reg

(* The object has no such method, or the request does not fit it. *)
Refuse(f) ==
  /\ call[f].phase = "bound"
  /\ ~Accepts(call[f].obj, call[f].req)
  /\ Move(f, [call[f] EXCEPT !.phase = "ended"])
  /\ UNCHANGED reg

Serving(f, m) ==
  /\ call[f].phase = "bound"
  /\ call[f].obj = FactoryObj
  /\ Accepts(FactoryObj, call[f].req)
  /\ call[f].req.method = m
  /\ call[f].effect = "none"

Create(f) ==
  /\ Serving(f, "create")
  /\ call[f].req.arg \in Handles \ {Factory}
  /\ reg' = [reg EXCEPT ![call[f].req.arg] = call[f].req.obj]
  /\ Move(f, [call[f] EXCEPT !.effect = "create"])

Destroy(f) ==
  /\ Serving(f, "destroy")
  /\ call[f].req.arg \in Handles \ {Factory}
  /\ reg[call[f].req.arg] # None
  /\ reg' = [reg EXCEPT ![call[f].req.arg] = None]
  /\ Move(f, [call[f] EXCEPT !.effect = "destroy"])

(* What the caller may be told: CREATE succeeds exactly when it bound the   *)
(* object and its response had room; DESTROY always; another object's       *)
(* method as its handler decides.                                           *)
Result(k) ==
  CASE k.req.method = "create" ->
         IF k.effect = "create" /\ k.req.response_cap >= 24 THEN {1} ELSE {0}
    [] k.req.method = "destroy" -> {1}
    [] OTHER -> {0, 1}

Finish(f) ==
  /\ call[f].phase = "bound"
  /\ Accepts(call[f].obj, call[f].req)
  /\ \E ok \in Result(call[f]) :
       Move(f, [call[f] EXCEPT !.phase = "ended", !.ok = ok])
  /\ UNCHANGED reg

End(f) ==
  /\ call[f].phase = "ended"
  /\ Move(f, Idle)
  /\ UNCHANGED reg

Next ==
  \E f \in Frames :
    \/ Begin(f) \/ Miss(f) \/ Bind(f) \/ Refuse(f)
    \/ Create(f) \/ Destroy(f) \/ Finish(f) \/ End(f)

Spec == Init /\ [][Next]_vars

=============================================================================
