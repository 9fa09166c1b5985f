--------------------------- MODULE CapImagesProofs ---------------------------
(***************************************************************************)
(* The safety of kernel_cap_bootstrap, for any number of APs of both kinds.*)
(***************************************************************************)
EXTENDS CapImages, TLAPS

(* The image a core starts in is one of the images, and a core's own if it  *)
(* names one.                                                               *)
LEMMA HomeFacts ==
  /\ \A c \in Cores : Home(c) \in Images /\ Home(c) # "NULL"
  /\ \A i \in Images : Home(i) = i /\ i \in Cores /\ i # "NULL"
  /\ \A c \in SharedAPs : Home(c) = Bsp /\ c # Bsp
  /\ \A c \in Cores : c \notin SharedAPs => c \in Images
  /\ \A i \in Images : i \notin SharedAPs
BY CoresAssumption DEF Cores, Images, Home

(* The initial state satisfies the invariant.                               *)
LEMMA InitInv == Init => IInv
<1> SUFFICES ASSUME Init PROVE IInv
  OBVIOUS
<1>1. TypeOK
  BY HomeFacts DEF Init, TypeOK, Pointer, PCs, Images, Cores
<1>2. CoresInv
  BY HomeFacts, CoresAssumption DEF Init, CoresInv, Granted, Cores, Ready
<1>3. ImagesInv
  BY HomeFacts DEF Init, ImagesInv, Ready
<1>4. LockMeansHolder
  BY HomeFacts DEF Init, LockMeansHolder, Ready
<1> QED BY <1>1, <1>2, <1>3, <1>4 DEF IInv

(* Every variable keeps its type.                                           *)
LEMMA TypeStep == IInv /\ [Next]_vars => TypeOK'
<1> SUFFICES ASSUME IInv, [Next]_vars PROVE TypeOK'
  OBVIOUS
<1> USE DEF IInv, TypeOK, Goto, PCs, mem, via
<1>1. CASE UNCHANGED vars
  BY <1>1 DEF vars
<1>2. ASSUME NEW c \in Cores, StartAP(c) PROVE TypeOK'
  BY <1>2, HomeFacts DEF StartAP, Images
<1>3. ASSUME NEW c \in Cores, Bootstrap(c) PROVE TypeOK'
  <2> USE HomeFacts DEF Pointer
  <2>1. CASE Test(c)
    BY <2>1 DEF Test
  <2>2. CASE Clear(c)
    BY <2>2 DEF Clear
  <2>3. CASE BindTable(c)
    BY <2>3 DEF BindTable
  <2>4. CASE BindRecord(c)
    BY <2>4 DEF BindRecord
  <2>5. CASE Acquire(c)
    BY <2>5 DEF Acquire
  <2>6. CASE Grant(c)
    BY <2>6 DEF Grant
  <2>7. CASE Release(c)
    BY <2>7 DEF Release
  <2> QED BY <1>3, <2>1, <2>2, <2>3, <2>4, <2>5, <2>6, <2>7 DEF Bootstrap
<1>4. ASSUME NEW c \in Cores, Invoke(c) PROVE TypeOK'
  <2>1. caps[c] \in Images /\ Bsp \in Images
    BY <1>4, HomeFacts DEF Invoke, CoresInv, Granted, Images
  <2> QED BY <1>4, <2>1 DEF Invoke
<1>5. ASSUME NEW c \in Cores, KernelInvoke(c) PROVE TypeOK'
  <2> USE HomeFacts DEF Pointer
  <2>1. CASE Lock(c)
    BY <2>1 DEF Lock
  <2>2. CASE Copy(c)
    BY <2>2 DEF Copy
  <2>3. CASE Unlock(c)
    BY <2>3 DEF Unlock
  <2>4. CASE FindMethod(c)
    BY <2>4 DEF FindMethod, CoresInv
  <2>5. CASE Dispatch(c)
    BY <2>5 DEF Dispatch
  <2> QED BY <1>5, <2>1, <2>2, <2>3, <2>4, <2>5 DEF KernelInvoke
<1> QED BY <1>1, <1>2, <1>3, <1>4, <1>5 DEF Next


(* Where the cores can be, and what they were granted, is preserved.        *)
LEMMA CoresStep == IInv /\ [Next]_vars => CoresInv'
<1> SUFFICES ASSUME IInv, [Next]_vars PROVE CoresInv'
  OBVIOUS
<1> USE HomeFacts DEF IInv, TypeOK, CoresInv, ImagesInv, Ready, Granted, Pointer, Images, Goto, PCs, mem, via
<1>1. CASE UNCHANGED vars
  BY <1>1 DEF vars
<1>2. ASSUME NEW c \in Cores, StartAP(c) PROVE CoresInv'
  BY <1>2 DEF StartAP
<1>3. ASSUME NEW c \in Cores, Bootstrap(c) PROVE CoresInv'
  <2>1. CASE Test(c)
    BY <2>1 DEF Test
  <2>2. CASE Clear(c)
    BY <2>2 DEF Clear
  <2>3. CASE BindTable(c)
    BY <2>3 DEF BindTable
  <2>4. CASE BindRecord(c)
    BY <2>4 DEF BindRecord
  <2>5. CASE Acquire(c)
    BY <2>5 DEF Acquire
  <2>6. CASE Grant(c)
    BY <2>6 DEF Grant
  <2>7. CASE Release(c)
    BY <2>7 DEF Release
  <2> QED BY <1>3, <2>1, <2>2, <2>3, <2>4, <2>5, <2>6, <2>7 DEF Bootstrap
<1>4. ASSUME NEW c \in Cores, Invoke(c) PROVE CoresInv'
  BY <1>4, SMTT(30) DEF Invoke
<1>5. ASSUME NEW c \in Cores, KernelInvoke(c) PROVE CoresInv'
  <2>1. CASE Lock(c)
    BY <2>1 DEF Lock
  <2>2. CASE Copy(c)
    BY <2>2 DEF Copy
  <2>3. CASE Unlock(c)
    BY <2>3 DEF Unlock
  <2>4. CASE FindMethod(c)
    BY <2>4 DEF FindMethod
  <2>5. CASE Dispatch(c)
    BY <2>5 DEF Dispatch
  <2> QED BY <1>5, <2>1, <2>2, <2>3, <2>4, <2>5 DEF KernelInvoke
<1> QED BY <1>1, <1>2, <1>3, <1>4, <1>5 DEF Next

(* What the images hold is preserved: only the owner of an image that is   *)
(* not bootstrapped yet writes its factory.                                 *)
LEMMA ImagesStep == IInv /\ [Next]_vars => ImagesInv'
<1> SUFFICES ASSUME IInv, [Next]_vars PROVE ImagesInv'
  OBVIOUS
<1> USE HomeFacts DEF IInv, TypeOK, CoresInv, ImagesInv, Ready, Granted, Pointer, Images, Goto, PCs, mem, via
<1>1. CASE UNCHANGED vars
  BY <1>1 DEF vars
<1>2. ASSUME NEW c \in Cores, StartAP(c) PROVE ImagesInv'
  BY <1>2 DEF StartAP
<1>3. ASSUME NEW c \in Cores, Bootstrap(c) PROVE ImagesInv'
  <2>1. CASE Test(c)
    BY <2>1 DEF Test
  <2>2. CASE Clear(c)
    BY <2>2 DEF Clear
  <2>3. CASE BindTable(c)
    BY <2>3 DEF BindTable
  <2>4. CASE BindRecord(c)
    BY <2>4 DEF BindRecord
  <2>5. CASE Acquire(c)
    BY <2>5 DEF Acquire
  <2>6. CASE Grant(c)
    BY <2>6 DEF Grant
  <2>7. CASE Release(c)
    BY <2>7 DEF Release
  <2> QED BY <1>3, <2>1, <2>2, <2>3, <2>4, <2>5, <2>6, <2>7 DEF Bootstrap
<1>4. ASSUME NEW c \in Cores, Invoke(c) PROVE ImagesInv'
  BY <1>4 DEF Invoke
<1>5. ASSUME NEW c \in Cores, KernelInvoke(c) PROVE ImagesInv'
  <2>1. CASE Lock(c)
    BY <2>1 DEF Lock
  <2>2. CASE Copy(c)
    BY <2>2 DEF Copy
  <2>3. CASE Unlock(c)
    BY <2>3 DEF Unlock
  <2>4. CASE FindMethod(c)
    BY <2>4 DEF FindMethod
  <2>5. CASE Dispatch(c)
    BY <2>5 DEF Dispatch
  <2> QED BY <1>5, <2>1, <2>2, <2>3, <2>4, <2>5 DEF KernelInvoke
<1> QED BY <1>1, <1>2, <1>3, <1>4, <1>5 DEF Next

(* The lock of a bootstrapped image keeps meaning one holder.               *)
LEMMA LockStep == IInv /\ [Next]_vars => LockMeansHolder'
<1> SUFFICES ASSUME IInv, [Next]_vars PROVE LockMeansHolder'
  OBVIOUS
<1> USE HomeFacts DEF IInv, TypeOK, CoresInv, ImagesInv, LockMeansHolder, HoldsLockOf, Ready, Granted, Pointer, Images, Goto, PCs, mem, via
<1>1. CASE UNCHANGED vars
  BY <1>1 DEF vars
<1>2. ASSUME NEW c \in Cores, StartAP(c) PROVE LockMeansHolder'
  <2>1. \A i \in Images : Ready(i)' = Ready(i)
    BY <1>2 DEF StartAP
  <2>2. \A d \in Cores, i \in Images : HoldsLockOf(d, i)' <=> HoldsLockOf(d, i)
    BY <1>2 DEF StartAP
  <2>3. \A i \in Images : Ready(i) => lock'[i] = lock[i]
    BY <1>2, SMTT(30) DEF StartAP
  <2> HIDE DEF HoldsLockOf, Ready, Images
  <2> QED BY <2>1, <2>2, <2>3
<1>3. ASSUME NEW c \in Cores, Bootstrap(c) PROVE LockMeansHolder'
  <2>1. CASE Test(c)
    BY <2>1 DEF Test
  <2>2. CASE Clear(c)
    BY <2>2, SMTT(30) DEF Clear
  <2>3. CASE BindTable(c)
    BY <2>3 DEF BindTable
  <2>4. CASE BindRecord(c)
    BY <2>4, SMTT(30) DEF BindRecord
  <2>5. CASE Acquire(c)
    <3>1. \A i \in Images : Ready(i)' = Ready(i)
      BY <2>5 DEF Acquire
    <3>2. \A d \in Cores, i \in Images :
            HoldsLockOf(d, i)' <=> HoldsLockOf(d, i) \/ (d = c /\ i = Home(c))
      BY <2>5 DEF Acquire
    <3>3. /\ lock[Home(c)] = 0
          /\ \A i \in Images : lock'[i] = IF i = Home(c) THEN 1 ELSE lock[i]
      BY <2>5 DEF Acquire
    <3>4. Ready(Home(c))
      BY <2>5 DEF Acquire
    <3>5. \A d \in Cores : ~HoldsLockOf(d, Home(c))
      BY <3>3, <3>4
    <3> HIDE DEF Ready, HoldsLockOf
    <3> QED BY <3>1, <3>2, <3>3, <3>5
  <2>6. CASE Grant(c)
    BY <2>6 DEF Grant
  <2>7. CASE Release(c)
    BY <2>7, SMTT(30) DEF Release
  <2> QED BY <1>3, <2>1, <2>2, <2>3, <2>4, <2>5, <2>6, <2>7, SMTT(30) DEF Bootstrap
<1>4. ASSUME NEW c \in Cores, Invoke(c) PROVE LockMeansHolder'
  <2>1. \A i \in Images : Ready(i)' = Ready(i)
    BY <1>4 DEF Invoke
  <2>2. \A d \in Cores, i \in Images : HoldsLockOf(d, i)' <=> HoldsLockOf(d, i)
    BY <1>4 DEF Invoke
  <2>3. lock' = lock
    BY <1>4, SMTT(30) DEF Invoke
  <2> HIDE DEF Ready, HoldsLockOf
  <2> QED BY <2>1, <2>2, <2>3
<1>5. ASSUME NEW c \in Cores, KernelInvoke(c) PROVE LockMeansHolder'
  <2>1. CASE Lock(c)
    BY <2>1, SMTT(30) DEF Lock
  <2>2. CASE Copy(c)
    BY <2>2, SMTT(30) DEF Copy
  <2>3. CASE Unlock(c)
    <3>1. \A i \in Images : Ready(i)' = Ready(i)
      BY <2>3 DEF Unlock
    <3>2. \A d \in Cores, i \in Images :
            HoldsLockOf(d, i)' <=> HoldsLockOf(d, i) /\ ~(d = c /\ i = at[c])
      BY <2>3 DEF Unlock
    <3>3. /\ at[c] \in Images /\ HoldsLockOf(c, at[c])
          /\ \A i \in Images : lock'[i] = IF i = at[c] THEN 0 ELSE lock[i]
      BY <2>3 DEF Unlock
    <3> HIDE DEF Ready, HoldsLockOf
    <3> QED BY <3>1, <3>2, <3>3
  <2>4. CASE FindMethod(c)
    BY <2>4 DEF FindMethod
  <2>5. CASE Dispatch(c)
    BY <2>5 DEF Dispatch
  <2> QED BY <1>5, <2>1, <2>2, <2>3, <2>4, <2>5, SMTT(30) DEF KernelInvoke
<1> QED BY <1>1, <1>2, <1>3, <1>4, <1>5, SMTT(30) DEF Next

(* What kernel_cap_bootstrap and the invocations through the images keep    *)
(* holds in every reachable state.                                          *)
THEOREM InvariantHolds == Spec => []IInv
<1>1. IInv /\ [Next]_vars => IInv'
  BY TypeStep, CoresStep, ImagesStep, LockStep DEF IInv
<1> QED BY InitInv, <1>1, PTL DEF Spec

(* The lock word of a bootstrapped image is set exactly while one core is   *)
(* inside it, for any number of APs with copies and of APs that share.      *)
THEOREM LockMeansHolderHolds == Spec => []LockMeansHolder
<1>1. IInv => LockMeansHolder
  BY DEF IInv
<1> QED BY InvariantHolds, <1>1, PTL

(* No invocation dispatches through the tables of another image.            *)
THEOREM OwnTablesHolds == Spec => []OwnTables
<1>1. IInv => OwnTables
  BY DEF IInv, CoresInv, OwnTables
<1> QED BY InvariantHolds, <1>1, PTL

(* No core that starts later resets or rebinds a factory that is in use.    *)
THEOREM LiveWorldKeptHolds == Spec => LiveWorldKept
<1> DEFINE Kept == \A i \in Images : Ready(i) =>
                     /\ live'[i] = live[i]
                     /\ table'[i] = table[i]
                     /\ arrays'[i] = arrays[i]
                     /\ lock[i] = 1 /\ lock'[i] = 0 =>
                          \E c \in Cores : HoldsLockOf(c, i) /\ ~HoldsLockOf(c, i)'
<1>1. IInv /\ IInv' /\ [Next]_vars => [Kept]_vars
  <2> SUFFICES ASSUME IInv, IInv', Next, NEW i \in Images, Ready(i)
               PROVE  /\ live'[i] = live[i]
                      /\ table'[i] = table[i]
                      /\ arrays'[i] = arrays[i]
                      /\ lock[i] = 1 /\ lock'[i] = 0 =>
                           \E c \in Cores : HoldsLockOf(c, i) /\ ~HoldsLockOf(c, i)'
    BY SMTT(30) DEF Kept
  <2>1. Ready(i)'
    BY HomeFacts DEF IInv, TypeOK, Ready, Next, StartAP, Bootstrap, Test, Clear, BindTable,
         BindRecord, Acquire, Grant, Release, Invoke, KernelInvoke, Lock, Copy, Unlock,
         FindMethod, Dispatch
  <2>2. live'[i] = live[i] /\ table'[i] = table[i] /\ arrays'[i] = arrays[i]
    <3>1. live[i] = 1 /\ table[i] = i /\ arrays[i] = i
      BY DEF IInv, ImagesInv
    <3>2. live'[i] = 1 /\ table'[i] = i /\ arrays'[i] = i
      BY <2>1 DEF IInv, ImagesInv
    <3> QED BY <3>1, <3>2, SMTT(30)
  <2>3. ASSUME lock[i] = 1, lock'[i] = 0
        PROVE  \E c \in Cores : HoldsLockOf(c, i) /\ ~HoldsLockOf(c, i)'
    <3>1. \E c \in Cores : HoldsLockOf(c, i)
      BY <2>3 DEF IInv, LockMeansHolder
    <3>2. \A c \in Cores : ~HoldsLockOf(c, i)'
      BY <2>1, <2>3 DEF IInv, LockMeansHolder
    <3> QED BY <3>1, <3>2
  <2> QED BY <2>2, <2>3
<1> QED BY InvariantHolds, <1>1, PTL DEF Spec, LiveWorldKept

=============================================================================
