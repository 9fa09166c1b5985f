------------------------------ MODULE CapImages ------------------------------
(***************************************************************************)
(* kernel_cap_bootstrap (kernel/cap.c) on every core of a machine.         *)
(*                                                                         *)
(* The boot core runs the kernel image that the loader placed.  An AP runs *)
(* either a byte-for-byte copy of that image in a region of its own        *)
(* (kernel_boot_ap) or the boot core's image itself (kernel_boot_ap_shared)*)
(* A copy carries the lock word, the factory record and the pointers of    *)
(* the original, as they were when it was made.  An AP with a copy reaches *)
(* objects of the boot core through that core's own kernel_invoke.         *)
(*                                                                         *)
(* A pointer into an image is modelled by the image it points into.        *)
(***************************************************************************)
EXTENDS Integers

CONSTANTS
  Bsp,         \* the boot core; also names the image it runs
  CopyAPs,     \* APs that run a copy; each also names its copy
  SharedAPs    \* APs that run the boot core's image

Cores  == {Bsp} \cup CopyAPs \cup SharedAPs
Images == {Bsp} \cup CopyAPs

ASSUME CoresAssumption ==
  /\ Bsp \notin CopyAPs /\ Bsp \notin SharedAPs
  /\ CopyAPs \cap SharedAPs = {}
  /\ "NULL" \notin Cores

(* The image a core was started in. *)
Home(c) == IF c \in CopyAPs THEN c ELSE Bsp

(* The static variables of cap.c, one instance per image, and the cores.    *)
VARIABLES
  lock,      \* per image: g_cap_lock
  live,      \* per image: g_factory_record.magic and .valid
  table,     \* per image: g_factory_record.schema_table
  arrays,    \* per image: g_factory_table.structs, .methods and .objects
  pc,        \* per core: where it is
  caps,      \* per core: the factory handle in its boot_info
  at,        \* per core: the image whose kernel_invoke it is in
  viaTable,  \* per core: the record's schema_table, as kernel_invoke copied it
  viaArrays  \* per core: the arrays find_method reached through it

mem  == <<lock, live, table, arrays>>
via  == <<viaTable, viaArrays>>
vars == <<mem, pc, caps, at, via>>

Pointer == Images \cup {"NULL"}

PCs == {"off", "test", "clear", "table", "record", "acquire", "grant", "release",
        "init", "spin", "copy", "unlock", "find", "dispatch"}

Init ==
  /\ lock   = [i \in Images |-> 0]
  /\ live   = [i \in Images |-> 0]
  /\ table  = [i \in Images |-> "NULL"]
  /\ arrays = [i \in Images |-> "NULL"]
  /\ pc     = [c \in Cores |-> IF c = Bsp THEN "test" ELSE "off"]
  /\ caps   = [c \in Cores |-> "NULL"]
  /\ at     = [c \in Cores |-> Home(c)]
  /\ viaTable  = [c \in Cores |-> "NULL"]
  /\ viaArrays = [c \in Cores |-> "NULL"]

Goto(c, p) == pc' = [pc EXCEPT ![c] = p]

-----------------------------------------------------------------------------
(* Starting an AP: init on the boot core copies the image, or not, and      *)
(* sends the AP on its way.                                                 *)
StartAP(c) ==
  /\ c # Bsp
  /\ pc[Bsp] = "init" /\ pc[c] = "off"
  /\ IF c \in CopyAPs
       THEN /\ lock'   = [lock EXCEPT ![c] = lock[Bsp]]
            /\ live'   = [live EXCEPT ![c] = live[Bsp]]
            /\ table'  = [table EXCEPT ![c] = table[Bsp]]
            /\ arrays' = [arrays EXCEPT ![c] = arrays[Bsp]]
       ELSE UNCHANGED mem
  /\ Goto(c, "test")
  /\ UNCHANGED <<caps, at, via>>

-----------------------------------------------------------------------------
(* kernel_cap_bootstrap *)

Test_MagicOnly(c) ==
  /\ pc[c] = "test"
  /\ Goto(c, IF live[Home(c)] = 1 THEN "acquire" ELSE "clear")
  /\ UNCHANGED <<mem, caps, at, via>>

Test_AlwaysRebind(c) ==
  /\ pc[c] = "test"
  /\ Goto(c, "clear")
  /\ UNCHANGED <<mem, caps, at, via>>

(* Is the factory of THIS image live, by pointer identity? *)
Test(c) ==
  /\ pc[c] = "test"
  /\ Goto(c, IF live[Home(c)] = 1 /\ table[Home(c)] = Home(c) /\ arrays[Home(c)] = Home(c)
               THEN "acquire" ELSE "clear")
  /\ UNCHANGED <<mem, caps, at, via>>

Clear_KeepLock(c) ==
  /\ pc[c] = "clear"
  /\ Goto(c, "table")
  /\ UNCHANGED <<mem, caps, at, via>>

Clear(c) ==
  /\ pc[c] = "clear"
  /\ lock' = [lock EXCEPT ![Home(c)] = 0]
  /\ Goto(c, "table")
  /\ UNCHANGED <<live, table, arrays, caps, at, via>>

BindTable(c) ==
  /\ pc[c] = "table"
  /\ arrays' = [arrays EXCEPT ![Home(c)] = Home(c)]
  /\ Goto(c, "record")
  /\ UNCHANGED <<lock, live, table, caps, at, via>>

BindRecord(c) ==
  /\ pc[c] = "record"
  /\ live'  = [live EXCEPT ![Home(c)] = 1]
  /\ table' = [table EXCEPT ![Home(c)] = Home(c)]
  /\ caps'  = [caps EXCEPT ![c] = Home(c)]
  /\ Goto(c, "init")
  /\ UNCHANGED <<lock, arrays, at, via>>

(* The live factory is granted as it is, under its lock. *)
Acquire(c) ==
  /\ pc[c] = "acquire"
  /\ lock[Home(c)] = 0
  /\ lock' = [lock EXCEPT ![Home(c)] = 1]
  /\ Goto(c, "grant")
  /\ UNCHANGED <<live, table, arrays, caps, at, via>>

Grant(c) ==
  /\ pc[c] = "grant"
  /\ caps' = [caps EXCEPT ![c] = Home(c)]
  /\ Goto(c, "release")
  /\ UNCHANGED <<mem, at, via>>

Release(c) ==
  /\ pc[c] = "release"
  /\ lock' = [lock EXCEPT ![Home(c)] = 0]
  /\ Goto(c, "init")
  /\ UNCHANGED <<live, table, arrays, caps, at, via>>

Bootstrap(c) ==
  \/ Test(c) \/ Clear(c) \/ BindTable(c) \/ BindRecord(c)
  \/ Acquire(c) \/ Grant(c) \/ Release(c)

-----------------------------------------------------------------------------
(* kernel_invoke of the factory handle, as far as the images matter: the    *)
(* record is copied under the lock and its tables are used after it.        *)

(* Init calls its own kernel_invoke or, on an AP with a copy, the boot      *)
(* core's through bsp_kernel_invoke_addr.                                   *)
Invoke(c) ==
  /\ pc[c] = "init"
  /\ \E i \in {caps[c], Bsp} : at' = [at EXCEPT ![c] = i]
  /\ Goto(c, "spin")
  /\ UNCHANGED <<mem, caps, via>>

Lock(c) ==
  /\ pc[c] = "spin"
  /\ lock[at[c]] = 0
  /\ lock' = [lock EXCEPT ![at[c]] = 1]
  /\ Goto(c, "copy")
  /\ UNCHANGED <<live, table, arrays, caps, at, via>>

Copy(c) ==
  /\ pc[c] = "copy"
  /\ viaTable' = [viaTable EXCEPT ![c] = table[at[c]]]
  /\ Goto(c, "unlock")
  /\ UNCHANGED <<mem, caps, at, viaArrays>>

Unlock(c) ==
  /\ pc[c] = "unlock"
  /\ lock' = [lock EXCEPT ![at[c]] = 0]
  /\ Goto(c, "find")
  /\ UNCHANGED <<live, table, arrays, caps, at, via>>

(* find_method follows the copied pointer to the table's arrays. *)
FindMethod(c) ==
  /\ pc[c] = "find"
  /\ viaArrays' = [viaArrays EXCEPT ![c] = arrays[viaTable[c]]]
  /\ Goto(c, "dispatch")
  /\ UNCHANGED <<mem, caps, at, viaTable>>

Dispatch(c) ==
  /\ pc[c] = "dispatch"
  /\ Goto(c, "init")
  /\ UNCHANGED <<mem, caps, at, via>>

KernelInvoke(c) ==
  Lock(c) \/ Copy(c) \/ Unlock(c) \/ FindMethod(c) \/ Dispatch(c)

-----------------------------------------------------------------------------

Next == \E c \in Cores : StartAP(c) \/ Bootstrap(c) \/ Invoke(c) \/ KernelInvoke(c)

Spec == Init /\ [][Next]_vars

(* Every core keeps executing the kernel code it is in. *)
FairSpec == Spec /\ \A c \in Cores : WF_vars(Bootstrap(c) \/ KernelInvoke(c))

-----------------------------------------------------------------------------
(* Properties *)

TypeOK ==
  /\ lock \in [Images -> {0, 1}]
  /\ live \in [Images -> {0, 1}]
  /\ table \in [Images -> Pointer]
  /\ arrays \in [Images -> Pointer]
  /\ pc \in [Cores -> PCs]
  /\ caps \in [Cores -> Pointer]
  /\ at \in [Cores -> Images]
  /\ viaTable \in [Cores -> Pointer]
  /\ viaArrays \in [Cores -> Pointer]

(* The image whose lock core c holds. *)
HoldsLockOf(c, i) ==
  \/ pc[c] \in {"grant", "release"} /\ Home(c) = i
  \/ pc[c] \in {"copy", "unlock"} /\ at[c] = i

(* The core that owns image i has come through kernel_cap_bootstrap. *)
Ready(i) == caps[i] # "NULL"

(* In an image that has been bootstrapped the lock is taken exactly while   *)
(* one core is inside it, whichever cores share the image or reach it from  *)
(* a copy, and although a copy may start with a lock word nobody holds.     *)
LockMeansHolder ==
  \A i \in Images : Ready(i) =>
    /\ lock[i] = 1 <=> \E c \in Cores : HoldsLockOf(c, i)
    /\ \A c, d \in Cores : HoldsLockOf(c, i) /\ HoldsLockOf(d, i) => c = d

(* An invocation in image i dispatches through the tables of image i and    *)
(* never through pointers that a copy brought along from the boot core      *)
(* (schema.h: "must rebind that small descriptor to its OWN const arrays"). *)
OwnTables ==
  \A c \in Cores :
    pc[c] = "dispatch" => viaTable[c] = at[c] /\ viaArrays[c] = at[c]

(* Once bootstrapped, the factory of an image is never rebound or reset by  *)
(* a later core, and its lock is only ever released by its holder ("would   *)
(* corrupt the BSP's live capability world", cap.c:276-277).                *)
LiveWorldKept ==
  [][\A i \in Images : Ready(i) =>
       /\ live'[i] = live[i]
       /\ table'[i] = table[i]
       /\ arrays'[i] = arrays[i]
       /\ lock[i] = 1 /\ lock'[i] = 0 =>
            \E c \in Cores : HoldsLockOf(c, i) /\ ~HoldsLockOf(c, i)']_vars

(* An AP that runs a copy always reaches init, and an invocation of its own *)
(* factory always returns, also when the copy was made while the boot       *)
(* core's lock was held ("clearing a possibly copied-held lock").           *)
CopyNeverStuck ==
  \A c \in CopyAPs :
    /\ pc[c] = "test" ~> pc[c] = "init"
    /\ (pc[c] = "spin" /\ at[c] = c) ~> pc[c] = "init"

-----------------------------------------------------------------------------
(* The inductive invariant *)

(* Where kernel_cap_bootstrap has returned, or is about to with its result. *)
Granted == {"release", "init", "spin", "copy", "unlock", "find", "dispatch"}

(* Which cores can be where, and what they were granted. *)
CoresInv ==
  \A c \in Cores :
    /\ caps[c] = IF pc[c] \in Granted THEN Home(c) ELSE "NULL"
    /\ pc[c] \in {"acquire", "grant", "release"} => c \in SharedAPs
    /\ c \in SharedAPs => pc[c] \notin {"clear", "table", "record"}
    /\ c # Bsp /\ pc[c] # "off" => Ready(Bsp)
    /\ Ready(at[c]) \/ pc[c] \notin {"spin", "copy", "unlock", "find", "dispatch"}
    /\ pc[c] \in {"unlock", "find", "dispatch"} => viaTable[c] = at[c]
    /\ pc[c] = "dispatch" => viaArrays[c] = at[c]

(* What the memory of an image holds while its owner bootstraps it: a copy  *)
(* still points into the boot core's image until it is rebound.             *)
ImagesInv ==
  \A i \in Images :
    /\ Ready(i) => live[i] = 1 /\ table[i] = i /\ arrays[i] = i
    /\ pc[i] = "test" => IF i = Bsp THEN live[i] = 0 ELSE table[i] = Bsp
    /\ pc[i] \in {"table", "record"} => lock[i] = 0
    /\ pc[i] = "record" => arrays[i] = i

(* The inductive invariant behind the properties above. *)
IInv == TypeOK /\ CoresInv /\ ImagesInv /\ LockMeansHolder

=============================================================================
