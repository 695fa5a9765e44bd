---------------------------- MODULE OsSyncProofs ----------------------------
(***************************************************************************)
(* Theorems about OsSync, for any threads, objects, pool sizes and         *)
(* timeouts.  SyncInv is inductive; a lemma per action shows that it keeps *)
(* SyncInv, and the properties are read off it.  The second part shows     *)
(* that the pools of nrf_modem.c implement SyncObjects.  SyncInv is what   *)
(* its steps need: handles differ, so a step on one slot is a step on one  *)
(* object; the fill level of a pool is the number of objects set up; and   *)
(* the account of a semaphore is what its slot holds.                      *)
(***************************************************************************)
EXTENDS OsSyncRefines, TLAPS, FiniteSetTheorems

(* At reset no object is set up and no slot is in use. *)
LEMMA SyncInit == Init => SyncInv
<1> SUFFICES ASSUME Init PROVE SyncInv
  OBVIOUS
<1> USE SyncAssumption DEF Init, NULL, SemSlots, MtxSlots
<1>1. TypeOK
  <2>1. call \in [Threads -> {NoCall} \cup Takes \cup Locks]
    OBVIOUS
  <2>2. locked \in [MtxSlots -> BOOLEAN] /\ lapses \in [Mutexes -> Nat]
    OBVIOUS
  <2>3. inside \in [Mutexes -> SUBSET Threads]
    OBVIOUS
  <2>4. /\ semHandle \in [Sems -> SemSlots \cup {NULL}]
        /\ mtxHandle \in [Mutexes -> MtxSlots \cup {NULL}]
        /\ count \in [SemSlots -> Nat] /\ ledger \in [Sems -> Int]
    OBVIOUS
  <2>5. sem_used \in 0 .. SEM_MAX /\ mutex_used \in 0 .. MTX_MAX
    OBVIOUS
  <2>6. stopped \in BOOLEAN
    OBVIOUS
  <2> QED
    BY <2>1, <2>2, <2>3, <2>4, <2>5, <2>6 DEF TypeOK
<1>2. HandlesBelow /\ PoolTight /\ Tokens
  BY DEF HandlesBelow, PoolTight, Tokens
<1>3. UsersHaveObjects /\ LockedAgrees
  BY FS_EmptySet DEF UsersHaveObjects, LockedAgrees, NoCall
<1> QED
  BY <1>1, <1>2, <1>3 DEF SyncInv

(* Setting up a semaphore: a new handle gets the first slot above the fill *)
(* level, which no other handle has.                                       *)
LEMMA SemInitKeepsInv ==
  ASSUME SyncInv, NEW s \in Sems, NEW c \in Counts, nrf_modem_os_sem_init(s, c)
  PROVE  SyncInv'
<1> DEFINE slot == SemSlot(s)
<1> USE SyncAssumption DEF NULL, SemSlots, MtxSlots
<1>0. /\ TypeOK /\ HandlesBelow /\ PoolTight /\ Tokens
      /\ UsersHaveObjects /\ LockedAgrees
  BY DEF SyncInv
<1>1. /\ slot \in SemSlots
      /\ \/ slot = semHandle[s] /\ slot <= sem_used
         \/ semHandle[s] = NULL /\ slot = sem_used + 1
  BY <1>0 DEF nrf_modem_os_sem_init, SemSlot, SemRoom, TypeOK, HandlesBelow
<1>2. /\ semHandle' = [semHandle EXCEPT ![s] = slot]
      /\ sem_used' = IF slot > sem_used THEN slot ELSE sem_used
      /\ count' = [count EXCEPT ![slot] = c]
      /\ ledger' = [ledger EXCEPT ![s] = c]
      /\ UNCHANGED <<mtxHandle, mutex_used, locked, inside, lapses>>
      /\ UNCHANGED <<call, stopped>>
      /\ ~stopped
  BY DEF nrf_modem_os_sem_init, mtxVars
<1> HIDE DEF slot
<1>3. TypeOK'
  <2>1. sem_used' \in 0 .. SEM_MAX
    BY <1>0, <1>1, <1>2 DEF TypeOK
  <2>2. count' \in [SemSlots -> Nat]
    BY <1>0, <1>1, <1>2 DEF TypeOK
  <2>3. /\ semHandle' \in [Sems -> SemSlots \cup {NULL}]
        /\ ledger' \in [Sems -> Int]
    BY <1>0, <1>1, <1>2 DEF TypeOK
  <2> QED
    BY <1>0, <1>2, <2>1, <2>2, <2>3 DEF TypeOK
<1>4. HandlesBelow'
  <2>1. ASSUME NEW r \in Sems PROVE semHandle'[r] <= sem_used'
    <3>1. CASE r = s
      BY <3>1, <1>0, <1>1, <1>2 DEF TypeOK
    <3>2. CASE r # s
      <4>1. semHandle'[r] = semHandle[r] /\ semHandle[r] <= sem_used
        BY <3>2, <1>0, <1>2 DEF TypeOK, HandlesBelow
      <4>2. semHandle[r] \in Int /\ sem_used \in Int /\ slot \in Int
        BY <1>0, <1>1 DEF TypeOK
      <4> QED
        BY <4>1, <4>2, <1>2
    <3> QED
      BY <3>1, <3>2
  <2> QED
    BY <2>1, <1>0, <1>2 DEF HandlesBelow
<1>5. \A r \in Sems : r # s => semHandle[r] # slot
  BY <1>0, <1>1 DEF TypeOK, HandlesBelow, PoolTight
<1>6. PoolTight'
  <2>1. ASSUME NEW i \in 1 .. sem_used' PROVE \E r \in Sems : semHandle'[r] = i
    <3>1. CASE i = slot
      BY <3>1, <1>0, <1>2 DEF TypeOK
    <3>2. CASE i # slot
      <4>1. i \in 1 .. sem_used
        BY <3>2, <1>0, <1>1, <1>2 DEF TypeOK
      <4>2. PICK r \in Sems : semHandle[r] = i
        BY <4>1, <1>0 DEF PoolTight
      <4>3. r # s
        BY <4>1, <4>2, <3>2, <1>1, <1>0 DEF TypeOK
      <4> QED
        BY <4>2, <4>3, <1>0, <1>2 DEF TypeOK
    <3> QED
      BY <3>1, <3>2
  <2>2. \A s1, s2 \in Sems : s1 # s2 /\ semHandle'[s1] = semHandle'[s2]
                               => semHandle'[s1] = NULL
    BY <1>0, <1>2, <1>5 DEF TypeOK, PoolTight
  <2> QED
    BY <2>1, <2>2, <1>0, <1>2 DEF PoolTight
<1>7. Tokens'
  BY <1>0, <1>1, <1>2, <1>5 DEF TypeOK, Tokens
<1>8. UsersHaveObjects'
  <2>1. ASSUME NEW t \in Threads, call[t].op = "take"
        PROVE  semHandle'[call[t].obj] # NULL
    <3>1. call[t].obj \in Sems
      BY <2>1, <1>0 DEF TypeOK, Takes, Locks, NoCall
    <3> QED
      BY <2>1, <3>1, <1>0, <1>1, <1>2 DEF TypeOK, UsersHaveObjects
  <2> QED
    BY <2>1, <1>0, <1>2 DEF UsersHaveObjects
<1>9. LockedAgrees'
  BY <1>0, <1>2 DEF LockedAgrees
<1> QED
  BY <1>3, <1>4, <1>6, <1>7, <1>8, <1>9 DEF SyncInv

(* Setting up a mutex, in the same way; nobody is past its lock then. *)
LEMMA MutexInitKeepsInv ==
  ASSUME SyncInv, NEW m \in Mutexes, nrf_modem_os_mutex_init(m)
  PROVE  SyncInv'
<1> DEFINE slot == MtxSlot(m)
<1> USE SyncAssumption DEF NULL, SemSlots, MtxSlots
<1>0. /\ TypeOK /\ HandlesBelow /\ PoolTight /\ Tokens
      /\ UsersHaveObjects /\ LockedAgrees
  BY DEF SyncInv
<1>1. /\ slot \in MtxSlots
      /\ \/ slot = mtxHandle[m] /\ slot <= mutex_used
         \/ mtxHandle[m] = NULL /\ slot = mutex_used + 1
  BY <1>0 DEF nrf_modem_os_mutex_init, MtxSlot, MtxRoom, TypeOK, HandlesBelow
<1>2. /\ mtxHandle' = [mtxHandle EXCEPT ![m] = slot]
      /\ mutex_used' = IF slot > mutex_used THEN slot ELSE mutex_used
      /\ locked' = [locked EXCEPT ![slot] = FALSE]
      /\ lapses' = [lapses EXCEPT ![m] = 0]
      /\ UNCHANGED <<semHandle, sem_used, count, ledger>>
      /\ UNCHANGED <<inside, call, stopped>>
      /\ ~stopped /\ inside[m] = {}
  BY DEF nrf_modem_os_mutex_init, semVars, MutexIdle
<1> HIDE DEF slot
<1>3. TypeOK'
  <2>1. mutex_used' \in 0 .. MTX_MAX
    BY <1>0, <1>1, <1>2 DEF TypeOK
  <2>2. locked' \in [MtxSlots -> BOOLEAN] /\ lapses' \in [Mutexes -> Nat]
    BY <1>0, <1>1, <1>2 DEF TypeOK
  <2>3. mtxHandle' \in [Mutexes -> MtxSlots \cup {NULL}]
    BY <1>0, <1>1, <1>2 DEF TypeOK
  <2> QED
    BY <1>0, <1>2, <2>1, <2>2, <2>3 DEF TypeOK
<1>4. HandlesBelow'
  <2>1. ASSUME NEW r \in Mutexes PROVE mtxHandle'[r] <= mutex_used'
    <3>1. CASE r = m
      BY <3>1, <1>0, <1>1, <1>2 DEF TypeOK
    <3>2. CASE r # m
      <4>1. mtxHandle'[r] = mtxHandle[r] /\ mtxHandle[r] <= mutex_used
        BY <3>2, <1>0, <1>2 DEF TypeOK, HandlesBelow
      <4>2. mtxHandle[r] \in Int /\ mutex_used \in Int /\ slot \in Int
        BY <1>0, <1>1 DEF TypeOK
      <4> QED
        BY <4>1, <4>2, <1>2
    <3> QED
      BY <3>1, <3>2
  <2> QED
    BY <2>1, <1>0, <1>2 DEF HandlesBelow
<1>5. \A r \in Mutexes : r # m => mtxHandle[r] # slot
  BY <1>0, <1>1 DEF TypeOK, HandlesBelow, PoolTight
<1>6. PoolTight'
  <2>1. ASSUME NEW i \in 1 .. mutex_used'
        PROVE  \E r \in Mutexes : mtxHandle'[r] = i
    <3>1. CASE i = slot
      BY <3>1, <1>0, <1>2 DEF TypeOK
    <3>2. CASE i # slot
      <4>1. i \in 1 .. mutex_used
        BY <3>2, <1>0, <1>1, <1>2 DEF TypeOK
      <4>2. PICK r \in Mutexes : mtxHandle[r] = i
        BY <4>1, <1>0 DEF PoolTight
      <4>3. r # m
        BY <4>1, <4>2, <3>2, <1>1, <1>0 DEF TypeOK
      <4> QED
        BY <4>2, <4>3, <1>0, <1>2 DEF TypeOK
    <3> QED
      BY <3>1, <3>2
  <2>2. \A m1, m2 \in Mutexes : m1 # m2 /\ mtxHandle'[m1] = mtxHandle'[m2]
                                  => mtxHandle'[m1] = NULL
    BY <1>0, <1>2, <1>5 DEF TypeOK, PoolTight
  <2> QED
    BY <2>1, <2>2, <1>0, <1>2 DEF PoolTight
<1>7. Tokens'
  BY <1>0, <1>2 DEF Tokens
<1>8. UsersHaveObjects'
  <2>1. ASSUME NEW r \in Mutexes, mtxHandle[r] # NULL PROVE mtxHandle'[r] # NULL
    BY <2>1, <1>0, <1>1, <1>2 DEF TypeOK
  <2>2. ASSUME NEW t \in Threads, call[t].op = "lock" PROVE call[t].obj \in Mutexes
    BY <2>2, <1>0 DEF TypeOK, Takes, Locks, NoCall
  <2> QED
    BY <2>1, <2>2, <1>0, <1>2 DEF UsersHaveObjects
<1>9. LockedAgrees'
  <2>1. ASSUME NEW r \in Mutexes, r # m, mtxHandle[r] # NULL
        PROVE  /\ mtxHandle'[r] = mtxHandle[r] /\ lapses'[r] = lapses[r]
               /\ locked'[mtxHandle[r]] = locked[mtxHandle[r]]
    BY <2>1, <1>0, <1>1, <1>2, <1>5 DEF TypeOK
  <2>2. /\ mtxHandle'[m] = slot /\ ~locked'[slot] /\ inside'[m] = {}
        /\ lapses'[m] = 0
    BY <1>0, <1>1, <1>2 DEF TypeOK
  <2>3. ASSUME NEW r \in Mutexes, r # m PROVE mtxHandle'[r] = mtxHandle[r]
    BY <2>3, <1>0, <1>2 DEF TypeOK
  <2>4. IsFiniteSet(inside'[m]) /\ Cardinality(inside'[m]) = 0
    BY <2>2, FS_EmptySet
  <2>5. 0 <= 0 + 0
    OBVIOUS
  <2> QED
    BY <2>1, <2>2, <2>3, <2>4, <2>5, <1>0, <1>2 DEF LockedAgrees
<1> QED
  BY <1>3, <1>4, <1>6, <1>7, <1>8, <1>9 DEF SyncInv

(* An init that finds its pool used up stops the system and changes no     *)
(* object.                                                                 *)
LEMMA StopKeepsInv ==
  ASSUME SyncInv,
         \/ \E s \in Sems : SemPoolEmpty(s)
         \/ \E m \in Mutexes : MutexPoolEmpty(m)
  PROVE  SyncInv'
<1>1. /\ stopped' = TRUE
      /\ UNCHANGED <<semHandle, sem_used, count, ledger, mtxHandle>>
      /\ UNCHANGED <<mutex_used, locked, inside, lapses, call>>
  BY DEF SemPoolEmpty, MutexPoolEmpty, semVars, mtxVars
<1>2. sem_used = SEM_MAX \/ mutex_used = MTX_MAX
  BY SyncAssumption
  DEF SyncInv, TypeOK, SemPoolEmpty, MutexPoolEmpty, SemRoom, MtxRoom
<1>3. TypeOK' /\ HandlesBelow'
  BY <1>1 DEF SyncInv, TypeOK, HandlesBelow
<1>4. PoolTight' /\ Tokens'
  BY <1>1, <1>2 DEF SyncInv, PoolTight, Tokens
<1>5. UsersHaveObjects' /\ LockedAgrees'
  BY <1>1 DEF SyncInv, UsersHaveObjects, LockedAgrees
<1> QED
  BY <1>3, <1>4, <1>5 DEF SyncInv

(* The calls that begin a wait record what they wait for. *)
LEMMA CallKeepsInv ==
  ASSUME SyncInv, NEW t \in Threads, NEW v \in Timeouts,
         \/ \E s \in Sems : nrf_modem_os_sem_take(t, s, v)
         \/ \E m \in Mutexes : nrf_modem_os_mutex_lock(t, m, v)
  PROVE  SyncInv'
<1> USE SyncAssumption
<1>0. /\ TypeOK /\ HandlesBelow /\ PoolTight /\ Tokens
      /\ UsersHaveObjects /\ LockedAgrees
  BY DEF SyncInv
<1>1. /\ UNCHANGED <<semHandle, sem_used, count, ledger, mtxHandle>>
      /\ UNCHANGED <<mutex_used, locked, inside, lapses, stopped>>
  BY DEF nrf_modem_os_sem_take, nrf_modem_os_mutex_lock, semVars, mtxVars
<1>2. TakeUsec(v) \in Int /\ LockUsec(v) \in Int
  BY DEF TakeUsec, LockUsec, Int32, NoTimer
<1> DEFINE Fits(r) ==
        /\ call' = [call EXCEPT ![t] = r]
        /\ r.op = "take" => r.obj \in Sems /\ semHandle[r.obj] # NULL
        /\ r.op = "lock" => /\ r.obj \in Mutexes /\ mtxHandle[r.obj] # NULL
                            /\ r.usec = LockUsec(r.timeout)
<1>3. PICK r \in Takes \cup Locks : Fits(r)
  <2>1. ASSUME NEW s \in Sems, nrf_modem_os_sem_take(t, s, v)
        PROVE  \E r \in Takes \cup Locks : Fits(r)
    <3> DEFINE c == [op |-> "take", obj |-> s, timeout |-> v, usec |-> TakeUsec(v)]
    <3>1. c \in Takes /\ c.op = "take" /\ c.obj = s
      BY <1>2 DEF Takes
    <3>2. call' = [call EXCEPT ![t] = c] /\ semHandle[s] # NULL
      BY <2>1 DEF nrf_modem_os_sem_take
    <3> HIDE DEF c
    <3> QED
      BY <3>1, <3>2
  <2>2. ASSUME NEW m \in Mutexes, nrf_modem_os_mutex_lock(t, m, v)
        PROVE  \E r \in Takes \cup Locks : Fits(r)
    <3> DEFINE c == [op |-> "lock", obj |-> m, timeout |-> v, usec |-> LockUsec(v)]
    <3>1. /\ c \in Locks /\ c.op = "lock" /\ c.obj = m
          /\ c.timeout = v /\ c.usec = LockUsec(v)
      BY <1>2 DEF Locks
    <3>2. call' = [call EXCEPT ![t] = c] /\ mtxHandle[m] # NULL
      BY <2>2 DEF nrf_modem_os_mutex_lock
    <3> HIDE DEF c
    <3> QED
      BY <3>1, <3>2
  <2> QED
    BY <2>1, <2>2
<1>4. TypeOK'
  <2>1. call' \in [Threads -> {NoCall} \cup Takes \cup Locks]
    BY <1>0, <1>3 DEF TypeOK
  <2> QED
    BY <2>1, <1>0, <1>1 DEF TypeOK
<1>5. UsersHaveObjects'
  <2>1. \A u \in Threads : call'[u] = IF u = t THEN r ELSE call[u]
    BY <1>0, <1>3 DEF TypeOK
  <2> QED
    BY <2>1, <1>0, <1>1, <1>3 DEF UsersHaveObjects
<1>6. /\ HandlesBelow' /\ PoolTight' /\ Tokens'
      /\ LockedAgrees'
  BY <1>0, <1>1 DEF HandlesBelow, PoolTight, Tokens, LockedAgrees
<1> QED
  BY <1>4, <1>5, <1>6 DEF SyncInv

(* Whoever returns from a call no longer waits for anything. *)
LEMMA NoCallFits ==
  ASSUME SyncInv, NEW t \in Threads, call' = [call EXCEPT ![t] = NoCall]
  PROVE  /\ call' \in [Threads -> {NoCall} \cup Takes \cup Locks]
         /\ \A u \in Threads : call'[u].op # "none" => call'[u] = call[u]
<1>1. call \in [Threads -> {NoCall} \cup Takes \cup Locks]
  BY DEF SyncInv, TypeOK
<1>2. \A u \in Threads : call'[u] = IF u = t THEN NoCall ELSE call[u]
  BY <1>1
<1>3. NoCall.op = "none"
  BY DEF NoCall
<1> QED
  BY <1>1, <1>2, <1>3

(* A give and the end of a take change one semaphore and the account of    *)
(* its one object alike.                                                   *)
LEMMA CountKeepsInv ==
  ASSUME SyncInv, NEW s \in Sems, semHandle[s] # NULL, NEW n \in Nat,
         count' = [count EXCEPT ![semHandle[s]] = n],
         ledger' = [ledger EXCEPT ![s] = n],
         UNCHANGED <<semHandle, sem_used, mtxHandle, mutex_used>>,
         UNCHANGED <<locked, inside, lapses, stopped>>,
         \/ call' = call
         \/ \E t \in Threads : call' = [call EXCEPT ![t] = NoCall]
  PROVE  SyncInv'
<1>0. /\ TypeOK /\ HandlesBelow /\ PoolTight /\ Tokens
      /\ UsersHaveObjects /\ LockedAgrees
  BY DEF SyncInv
<1>1. semHandle[s] \in SemSlots
  BY <1>0 DEF TypeOK
<1>2. /\ call' \in [Threads -> {NoCall} \cup Takes \cup Locks]
      /\ \A u \in Threads : call'[u].op # "none" => call'[u] = call[u]
  BY <1>0, NoCallFits DEF TypeOK
<1>3. TypeOK'
  <2>1. count' \in [SemSlots -> Nat] /\ ledger' \in [Sems -> Int]
    BY <1>0, <1>1 DEF TypeOK
  <2> QED
    BY <1>0, <1>2, <2>1 DEF TypeOK
<1>4. Tokens'
  <2>1. ASSUME NEW r \in Sems, semHandle[r] # NULL
        PROVE  count'[semHandle[r]] = ledger'[r]
    <3>1. CASE r = s
      BY <3>1, <1>0, <1>1 DEF TypeOK, Tokens
    <3>2. CASE r # s
      <4>1. semHandle[r] # semHandle[s] /\ semHandle[r] \in SemSlots
        BY <3>2, <2>1, <1>0 DEF TypeOK, PoolTight
      <4>2. count'[semHandle[r]] = count[semHandle[r]] /\ ledger'[r] = ledger[r]
        BY <4>1, <3>2, <1>0 DEF TypeOK
      <4> QED
        BY <4>2, <2>1, <1>0 DEF Tokens
    <3> QED
      BY <3>1, <3>2
  <2> QED
    BY <2>1 DEF Tokens
<1>5. UsersHaveObjects'
  BY <1>0, <1>2 DEF UsersHaveObjects
<1>6. HandlesBelow' /\ PoolTight' /\ LockedAgrees'
  BY <1>0 DEF HandlesBelow, PoolTight, LockedAgrees
<1> QED
  BY <1>3, <1>4, <1>5, <1>6 DEF SyncInv

(* A lock that returns, with the mutex or without it. *)
LEMMA LockReturnsKeepsInv ==
  ASSUME SyncInv, NEW t \in Threads, NEW err \in {0, 1}, MutexLockReturns(t, err)
  PROVE  SyncInv'
<1> DEFINE m == call[t].obj
<1> USE DEF NULL
<1>0. /\ TypeOK /\ HandlesBelow /\ PoolTight /\ Tokens
      /\ UsersHaveObjects /\ LockedAgrees
  BY DEF SyncInv
<1>1. m \in Mutexes /\ mtxHandle[m] # NULL /\ mtxHandle[m] \in MtxSlots
  BY <1>0
  DEF MutexLockReturns, TypeOK, UsersHaveObjects, Takes, Locks, NoCall
<1>2. /\ inside' = [inside EXCEPT ![m] = @ \cup {t}]
      /\ call' = [call EXCEPT ![t] = NoCall]
      /\ UNCHANGED <<semHandle, sem_used, count, ledger>>
      /\ UNCHANGED <<mtxHandle, mutex_used, stopped>>
  BY DEF MutexLockReturns, semVars
<1>3. \/ /\ ~locked[mtxHandle[m]]
         /\ locked' = [locked EXCEPT ![mtxHandle[m]] = TRUE] /\ lapses' = lapses
      \/ /\ locked' = locked /\ lapses' = [lapses EXCEPT ![m] = lapses[m] + 1]
  <2>1. ASSUME call[t].usec # NoTimer PROVE call[t].timeout # Forever
    BY <2>1, <1>0 DEF MutexLockReturns, UsersHaveObjects, LockUsec
  <2> QED
    BY <2>1 DEF MutexLockReturns
<1> HIDE DEF m
<1>4. /\ call' \in [Threads -> {NoCall} \cup Takes \cup Locks]
      /\ \A u \in Threads : call'[u].op # "none" => call'[u] = call[u]
  BY <1>2, NoCallFits
<1>5. TypeOK'
  <2>1. locked' \in [MtxSlots -> BOOLEAN] /\ lapses' \in [Mutexes -> Nat]
    <3>1. locked \in [MtxSlots -> BOOLEAN] /\ lapses \in [Mutexes -> Nat]
      BY <1>0 DEF TypeOK
    <3>2. lapses[m] + 1 \in Nat
      BY <1>1, <3>1
    <3>3. locked' \in [MtxSlots -> BOOLEAN]
      BY <1>1, <1>3, <3>1
    <3>4. lapses' \in [Mutexes -> Nat]
      BY <1>1, <1>3, <3>1, <3>2
    <3> QED
      BY <3>3, <3>4
  <2>2. inside' \in [Mutexes -> SUBSET Threads]
    BY <1>0, <1>2 DEF TypeOK
  <2> QED
    BY <1>0, <1>2, <1>4, <2>1, <2>2 DEF TypeOK
<1>6. \A r \in Mutexes : r # m /\ mtxHandle[r] # NULL =>
        /\ inside'[r] = inside[r] /\ lapses'[r] = lapses[r]
        /\ locked'[mtxHandle[r]] = locked[mtxHandle[r]]
  BY <1>0, <1>1, <1>2, <1>3 DEF TypeOK, PoolTight
<1>7. inside'[m] = inside[m] \cup {t}
  BY <1>0, <1>1, <1>2 DEF TypeOK
<1>8. UsersHaveObjects'
  <2>1. \A r \in Mutexes : r # m => inside'[r] = inside[r]
    BY <1>0, <1>2 DEF TypeOK
  <2> QED
    BY <2>1, <1>0, <1>1, <1>2, <1>4 DEF UsersHaveObjects
<1>9. LockedAgrees'
  <2>1. /\ IsFiniteSet(inside[m]) /\ Cardinality(inside[m]) \in Nat
        /\ Cardinality(inside[m]) <= lapses[m] + (IF locked[mtxHandle[m]] THEN 1 ELSE 0)
    BY <1>0, <1>1, FS_CardinalityType DEF LockedAgrees
  <2>2. /\ IsFiniteSet(inside[m] \cup {t}) /\ Cardinality(inside[m] \cup {t}) \in Nat
        /\ Cardinality(inside[m] \cup {t}) <= Cardinality(inside[m]) + 1
    <3>1. /\ IsFiniteSet(inside[m] \cup {t})
          /\ \/ Cardinality(inside[m] \cup {t}) = Cardinality(inside[m])
             \/ Cardinality(inside[m] \cup {t}) = Cardinality(inside[m]) + 1
      BY <2>1, FS_AddElement
    <3> QED
      BY <2>1, <3>1
  <2>3. lapses[m] \in Nat /\ lapses'[m] \in Nat
    BY <1>1, <1>0, <1>5 DEF TypeOK
  <2>4. \/ /\ ~locked[mtxHandle[m]] /\ locked'[mtxHandle[m]] = TRUE
           /\ lapses'[m] = lapses[m]
        \/ /\ locked'[mtxHandle[m]] = locked[mtxHandle[m]]
           /\ lapses'[m] = lapses[m] + 1
    BY <1>0, <1>1, <1>3 DEF TypeOK
  <2>5. Cardinality(inside[m] \cup {t}) <=
          lapses'[m] + (IF locked'[mtxHandle[m]] THEN 1 ELSE 0)
    <3> DEFINE a == Cardinality(inside[m])
               b == Cardinality(inside[m] \cup {t})
    <3> HIDE DEF a, b
    <3>1. /\ a \in Nat /\ b \in Nat /\ b <= a + 1
          /\ a <= lapses[m] + (IF locked[mtxHandle[m]] THEN 1 ELSE 0)
      BY <2>1, <2>2 DEF a, b
    <3>2. b <= lapses'[m] + (IF locked'[mtxHandle[m]] THEN 1 ELSE 0)
      <4>1. CASE /\ ~locked[mtxHandle[m]] /\ locked'[mtxHandle[m]] = TRUE
                 /\ lapses'[m] = lapses[m]
        BY <2>3, <3>1, <4>1
      <4>2. CASE /\ locked'[mtxHandle[m]] = locked[mtxHandle[m]]
                 /\ lapses'[m] = lapses[m] + 1
        BY <2>3, <3>1, <4>2
      <4> QED
        BY <2>4, <4>1, <4>2
    <3> QED
      BY <3>2 DEF b
  <2>6. \A r \in Mutexes : r # m => inside'[r] = inside[r]
    BY <1>0, <1>2 DEF TypeOK
  <2> QED
    BY <2>2, <2>5, <2>6, <1>0, <1>2, <1>6, <1>7 DEF LockedAgrees
<1>11. HandlesBelow' /\ PoolTight' /\ Tokens'
  BY <1>0, <1>2 DEF HandlesBelow, PoolTight, Tokens
<1> QED
  BY <1>5, <1>8, <1>9, <1>11 DEF SyncInv

(* An unlock frees the mutex and takes its caller out: whether or not it   *)
(* was the owner, one thread less is inside.                               *)
LEMMA UnlockKeepsInv ==
  ASSUME SyncInv, NEW t \in Threads, NEW m \in Mutexes,
         nrf_modem_os_mutex_unlock(t, m)
  PROVE  SyncInv'
<1> USE DEF NULL
<1>0. /\ TypeOK /\ HandlesBelow /\ PoolTight /\ Tokens
      /\ UsersHaveObjects /\ LockedAgrees
  BY DEF SyncInv
<1>1. t \in inside[m] /\ mtxHandle[m] # NULL /\ mtxHandle[m] \in MtxSlots
  BY <1>0 DEF nrf_modem_os_mutex_unlock, TypeOK, UsersHaveObjects
<1>2. /\ locked' = [locked EXCEPT ![mtxHandle[m]] = FALSE]
      /\ inside' = [inside EXCEPT ![m] = @ \ {t}]
      /\ UNCHANGED <<semHandle, sem_used, count, ledger>>
      /\ UNCHANGED <<mtxHandle, mutex_used, lapses, call, stopped>>
  BY DEF nrf_modem_os_mutex_unlock, semVars
<1>3. TypeOK'
  <2>1. locked' \in [MtxSlots -> BOOLEAN]
    BY <1>0, <1>1, <1>2 DEF TypeOK
  <2>2. inside' \in [Mutexes -> SUBSET Threads]
    BY <1>0, <1>2 DEF TypeOK
  <2> QED
    BY <1>0, <1>2, <2>1, <2>2 DEF TypeOK
<1>4. \A r \in Mutexes : r # m => inside'[r] = inside[r]
  BY <1>0, <1>2 DEF TypeOK
<1>5. ASSUME NEW r \in Mutexes, r # m, mtxHandle[r] # NULL
      PROVE  locked'[mtxHandle[r]] = locked[mtxHandle[r]]
  <2>1. mtxHandle[r] # mtxHandle[m] /\ mtxHandle[r] \in MtxSlots
    BY <1>5, <1>0 DEF TypeOK, PoolTight
  <2> QED
    BY <2>1, <1>0, <1>2 DEF TypeOK
<1>6. inside'[m] = inside[m] \ {t} /\ ~locked'[mtxHandle[m]]
  BY <1>0, <1>1, <1>2 DEF TypeOK
<1>7. UsersHaveObjects'
  BY <1>0, <1>1, <1>2, <1>4 DEF UsersHaveObjects
<1>8. LockedAgrees'
  <2>1. /\ IsFiniteSet(inside[m]) /\ Cardinality(inside[m]) \in Nat
        /\ Cardinality(inside[m]) <= lapses[m] + (IF locked[mtxHandle[m]] THEN 1 ELSE 0)
        /\ lapses[m] \in Nat
    BY <1>0, <1>1, FS_CardinalityType DEF LockedAgrees, TypeOK
  <2>2. /\ IsFiniteSet(inside[m] \ {t})
        /\ Cardinality(inside[m] \ {t}) = Cardinality(inside[m]) - 1
    BY <1>1, <2>1, FS_RemoveElement
  <2>3. Cardinality(inside[m] \ {t}) <= lapses[m]
    BY <2>1, <2>2
  <2>4. locked'[mtxHandle[m]] = FALSE
    BY <1>0, <1>1, <1>2 DEF TypeOK
  <2>5. \A n \in Nat : n + 0 = n
    OBVIOUS
  <2> QED
    BY <2>1, <2>2, <2>3, <2>4, <2>5, <1>0, <1>2, <1>4, <1>5, <1>6 DEF LockedAgrees
<1>10. HandlesBelow' /\ PoolTight' /\ Tokens'
  BY <1>0, <1>2 DEF HandlesBelow, PoolTight, Tokens
<1> QED
  BY <1>3, <1>7, <1>8, <1>10 DEF SyncInv

(* Every step keeps SyncInv. *)
LEMMA SyncNext == SyncInv /\ [Next]_vars => SyncInv'
<1> SUFFICES ASSUME SyncInv, [Next]_vars PROVE SyncInv'
  OBVIOUS
<1> USE DEF NULL
<1>0. TypeOK
  BY DEF SyncInv
<1>1. CASE SetUp
  BY <1>1, SemInitKeepsInv, MutexInitKeepsInv, StopKeepsInv DEF SetUp
<1>2. ASSUME NEW s \in Sems, nrf_modem_os_sem_give(s) PROVE SyncInv'
  <2> DEFINE n == count[semHandle[s]] + 1
  <2>1. semHandle[s] # NULL /\ n \in Nat /\ n = ledger[s] + 1
    BY <1>2, <1>0 DEF nrf_modem_os_sem_give, SyncInv, Tokens, TypeOK
  <2>2. /\ count' = [count EXCEPT ![semHandle[s]] = n]
        /\ ledger' = [ledger EXCEPT ![s] = ledger[s] + 1]
        /\ UNCHANGED <<semHandle, sem_used, mtxHandle, mutex_used>>
        /\ UNCHANGED <<locked, inside, lapses, stopped, call>>
    BY <1>2 DEF nrf_modem_os_sem_give, mtxVars
  <2> HIDE DEF n
  <2> QED
    BY <2>1, <2>2, CountKeepsInv
<1>3. ASSUME NEW t \in Threads, NEW err \in {0, 1}, SemTakeReturns(t, err)
      PROVE  SyncInv'
  <2> DEFINE s == call[t].obj
  <2>1. s \in Sems /\ semHandle[s] # NULL
    BY <1>3, <1>0
    DEF SemTakeReturns, SyncInv, TypeOK, UsersHaveObjects, Takes, Locks, NoCall
  <2>2. /\ UNCHANGED <<semHandle, sem_used, mtxHandle, mutex_used>>
        /\ UNCHANGED <<locked, inside, lapses, stopped>>
        /\ call' = [call EXCEPT ![t] = NoCall]
        /\ ledger' = [ledger EXCEPT ![s] = IF err = 0 THEN ledger[s]
                                           ELSE ledger[s] - 1]
        /\ \/ /\ err = 1 /\ count[semHandle[s]] > 0
              /\ count' = [count EXCEPT ![semHandle[s]] = count[semHandle[s]] - 1]
           \/ err = 0 /\ count' = count
    BY <1>3 DEF SemTakeReturns, TakeResult, OK, EAGAIN, mtxVars
  <2>3. count[semHandle[s]] \in Nat /\ count[semHandle[s]] = ledger[s]
    BY <2>1, <1>0 DEF TypeOK, SyncInv, Tokens
  <2>4. PICK n \in Nat : /\ count' = [count EXCEPT ![semHandle[s]] = n]
                         /\ ledger' = [ledger EXCEPT ![s] = n]
    <3>1. CASE err = 1
      <4> DEFINE n == count[semHandle[s]] - 1
      <4>1. n \in Nat /\ n = ledger[s] - 1
        BY <3>1, <2>2, <2>3
      <4>2. /\ count' = [count EXCEPT ![semHandle[s]] = n]
            /\ ledger' = [ledger EXCEPT ![s] = ledger[s] - 1]
        BY <3>1, <2>2
      <4> HIDE DEF n
      <4> QED
        BY <4>1, <4>2
    <3>2. CASE err = 0
      <4>1. count' = [count EXCEPT ![semHandle[s]] = count[semHandle[s]]]
        BY <3>2, <2>2, <1>0 DEF TypeOK
      <4> QED
        BY <4>1, <3>2, <2>2, <2>3
    <3> QED
      BY <3>1, <3>2
  <2> HIDE DEF s
  <2> QED
    BY <2>1, <2>2, <2>4, CountKeepsInv
<1>4. ASSUME NEW t \in Threads, Thread(t) PROVE SyncInv'
  BY <1>3, <1>4, CallKeepsInv, LockReturnsKeepsInv, UnlockKeepsInv
  DEF Thread, Returns
<1>5. CASE UNCHANGED vars
  <2>1. /\ UNCHANGED <<semHandle, sem_used, count, ledger, mtxHandle, mutex_used>>
        /\ UNCHANGED <<locked, inside, lapses, call, stopped>>
    BY <1>5 DEF vars, semVars, mtxVars
  <2> QED
    BY <2>1 DEF SyncInv, TypeOK, HandlesBelow, PoolTight, Tokens,
                UsersHaveObjects, LockedAgrees
<1> QED
  BY <1>1, <1>2, <1>4, <1>5 DEF Next

(* SyncInv is an invariant of the pools and of all users of their objects. *)
THEOREM SyncInductive == Spec => []SyncInv
  BY SyncInit, SyncNext, PTL DEF Spec

(* nrf_modem_os_sem_init and nrf_modem_os_mutex_init never give two        *)
(* objects the same slot and lose none, for pools of any size.             *)
THEOREM SlotsTight == Spec => []PoolTight
<1>1. SyncInv => PoolTight
  BY DEF SyncInv
<1> QED
  BY <1>1, SyncInductive, PTL

(* The results of nrf_modem_os_sem_take account for every token. *)
THEOREM TokensCounted == Spec => []Tokens
<1>1. SyncInv => Tokens
  BY DEF SyncInv
<1> QED
  BY <1>1, SyncInductive, PTL

(* Past nrf_modem_os_mutex_lock there is at most one thread more than      *)
(* timed locks have expired: no thread gets in by an unlock of a thread    *)
(* that was never the owner.                                               *)
THEOREM LocksExclude == Spec => []MutualExclusion
<1>1. SyncInv => MutualExclusion
  <2> SUFFICES ASSUME SyncInv, NEW m \in Mutexes
               PROVE  Cardinality(inside[m]) <= 1 + lapses[m]
    BY DEF MutualExclusion
  <2>1. /\ lapses[m] \in Nat /\ IsFiniteSet(inside[m])
        /\ Cardinality(inside[m]) \in Nat
    BY FS_CardinalityType DEF SyncInv, TypeOK, LockedAgrees
  <2>2. CASE mtxHandle[m] = NULL
    <3>1. inside[m] = {}
      BY <2>2 DEF SyncInv, UsersHaveObjects
    <3> QED
      BY <2>1, <3>1, FS_EmptySet
  <2>3. CASE mtxHandle[m] # NULL
    BY <2>1, <2>3 DEF SyncInv, LockedAgrees
  <2> QED
    BY <2>2, <2>3
<1> QED
  BY <1>1, SyncInductive, PTL

-----------------------------------------------------------------------------
(* The refinement *)

(* A pool whose slots up to n belong to one object each has n objects. *)
LEMMA PoolCount ==
  ASSUME NEW Obj, NEW h, NEW n \in Nat,
         \A o \in Obj : h[o] \in 0 .. n,
         \A i \in 1 .. n : \E o \in Obj : h[o] = i,
         \A a, b \in Obj : a # b /\ h[a] = h[b] => h[a] = 0
  PROVE  Cardinality({o \in Obj : h[o] # 0}) = n
<1> DEFINE Up == {o \in Obj : h[o] # 0}
           f  == [o \in Up |-> h[o]]
<1>1. f \in [Up -> 1 .. n]
  OBVIOUS
<1>2. f \in Injection(Up, 1 .. n)
  BY <1>1 DEF Injection, IsInjective
<1>3. f \in Surjection(Up, 1 .. n)
  <2>1. ASSUME NEW i \in 1 .. n PROVE \E o \in Up : f[o] = i
    OBVIOUS
  <2> QED
    BY <1>1, <2>1 DEF Surjection
<1>4. IsFiniteSet(1 .. n) /\ Cardinality(1 .. n) = n
  BY FS_Interval
<1> HIDE DEF f, Up
<1>5. Cardinality(Up) = Cardinality(1 .. n)
  BY <1>2, <1>3, <1>4, FS_Injection
<1> QED
  BY <1>4, <1>5 DEF Up

(* SemRoom and MtxRoom, the conditions of the two assertions, say that     *)
(* there are fewer objects than slots.                                     *)
LEMMA RoomAgrees ==
  ASSUME SyncInv
  PROVE  /\ \A s \in Sems : SemRoom(s) <=> Abstract!Room(s, SemUp, SEM_MAX)
         /\ \A m \in Mutexes : MtxRoom(m) <=> Abstract!Room(m, MtxUp, MTX_MAX)
<1> USE SyncAssumption DEF NULL
<1>0. TypeOK /\ HandlesBelow /\ PoolTight
  BY DEF SyncInv
<1>1. Cardinality(SemUp) = sem_used
  <2>1. sem_used \in Nat /\ \A s \in Sems : semHandle[s] \in 0 .. sem_used
    BY <1>0 DEF TypeOK, HandlesBelow, SemSlots
  <2> QED
    BY <2>1, <1>0, PoolCount DEF PoolTight, SemUp
<1>2. Cardinality(MtxUp) = mutex_used
  <2>1. mutex_used \in Nat /\ \A m \in Mutexes : mtxHandle[m] \in 0 .. mutex_used
    BY <1>0 DEF TypeOK, HandlesBelow, MtxSlots
  <2> QED
    BY <2>1, <1>0, PoolCount DEF PoolTight, MtxUp
<1>3. \A s \in Sems : semHandle[s] \in SemSlots <=> s \in SemUp
  BY <1>0 DEF TypeOK, SemUp, SemSlots
<1>4. \A m \in Mutexes : mtxHandle[m] \in MtxSlots <=> m \in MtxUp
  BY <1>0 DEF TypeOK, MtxUp, MtxSlots
<1>5. \A S : Abstract!Cardinality(S) = Cardinality(S)
  BY Zenon DEF Cardinality, Abstract!Cardinality, IsFiniteSet, Abstract!IsFiniteSet
<1> QED
  BY <1>1, <1>2, <1>3, <1>4, <1>5 DEF SemRoom, MtxRoom, Abstract!Room

(* What a mutex's slot tells of the mutex: a write to it is one to this    *)
(* mutex alone.                                                            *)
LEMMA HeldMaps ==
  ASSUME SyncInv, NEW m \in Mutexes, mtxHandle[m] # NULL, NEW b \in BOOLEAN,
         locked' = [locked EXCEPT ![mtxHandle[m]] = b], mtxHandle' = mtxHandle
  PROVE  Held' = [Held EXCEPT ![m] = b]
<1>0. TypeOK /\ PoolTight /\ mtxHandle[m] \in MtxSlots
  BY DEF SyncInv, TypeOK
<1>1. locked'[mtxHandle[m]] = b
  BY <1>0 DEF TypeOK
<1>2. \A r \in Mutexes : r # m /\ mtxHandle[r] # NULL
                           => locked'[mtxHandle[r]] = locked[mtxHandle[r]]
  BY <1>0 DEF TypeOK, PoolTight
<1> QED
  BY <1>1, <1>2 DEF Held

(* The mutex a lock or unlock refers to is held if its slot is locked. *)
LEMMA HeldIs ==
  ASSUME NEW m \in Mutexes, mtxHandle[m] # NULL
  PROVE  Held[m] <=> locked[mtxHandle[m]]
  BY DEF Held

(* A thread that begins or ends a call does so in the abstract state. *)
LEMMA DoingMaps ==
  ASSUME SyncInv, NEW t \in Threads, NEW r, call' = [call EXCEPT ![t] = r]
  PROVE  Doing' = [Doing EXCEPT ![t] = AbstractCall(r)]
<1>1. \A u \in Threads : call'[u] = IF u = t THEN r ELSE call[u]
  BY DEF SyncInv, TypeOK
<1>2. \A u \in Threads : AbstractCall(call[u])' = AbstractCall(call'[u])
  BY DEF AbstractCall, NoCall, Forever, NoTimer
<1>3. Doing' = [u \in Threads |-> AbstractCall(call'[u])]
  BY <1>2 DEF Doing
<1>4. Doing = [u \in Threads |-> AbstractCall(call[u])]
  BY DEF Doing
<1>5. \A u \in Threads : AbstractCall(call'[u])
                           = IF u = t THEN AbstractCall(r) ELSE AbstractCall(call[u])
  BY <1>1
<1> QED
  BY <1>3, <1>4, <1>5

(* A thread outside take and lock does nothing in SyncObjects. *)
LEMMA NoCallIs == AbstractCall(NoCall) = Abstract!Nothing
  BY DEF AbstractCall, Abstract!Nothing

(* A take or lock in progress, seen from either side. *)
LEMMA DoingIs ==
  ASSUME SyncInv, NEW t \in Threads, call[t].op \in {"take", "lock"}
  PROVE  /\ Doing[t].op = call[t].op /\ Doing[t].obj = call[t].obj
         /\ Doing[t].timer <=> call[t].usec # NoTimer
<1>1. call[t] # NoCall
  BY DEF NoCall
<1> DEFINE f == call[t].timeout = Forever
           b == call[t].usec # NoTimer
<1>2. Doing[t] = [op |-> call[t].op, obj |-> call[t].obj,
                  forever |-> f, timer |-> b]
  BY <1>1 DEF Doing, AbstractCall
<1>3. b \in BOOLEAN
  OBVIOUS
<1> HIDE DEF f, b
<1>4. /\ Doing[t].op = call[t].op /\ Doing[t].obj = call[t].obj
      /\ Doing[t].timer = b
  BY <1>2
<1> QED
  BY <1>3, <1>4 DEF b

(* nrf_modem_os_sem_init and nrf_modem_os_mutex_init set up one object. *)
LEMMA SemInitMaps ==
  ASSUME SyncInv, NEW s \in Sems, NEW c \in Counts, nrf_modem_os_sem_init(s, c)
  PROVE  Abstract!Next
<1> USE SyncAssumption DEF NULL, SemSlots
<1>1. ~stopped /\ SemRoom(s)
  BY DEF nrf_modem_os_sem_init
<1>2. SemSlot(s) # NULL /\ semHandle' = [semHandle EXCEPT ![s] = SemSlot(s)]
  BY DEF nrf_modem_os_sem_init, SemSlot, SyncInv, TypeOK
<1>3. SemUp' = SemUp \cup {s}
  BY <1>2 DEF SemUp, SyncInv, TypeOK
<1>4. /\ ledger' = [ledger EXCEPT ![s] = c]
      /\ UNCHANGED <<mtxHandle, locked, inside, call, stopped>>
  BY DEF nrf_modem_os_sem_init, mtxVars
<1>5. UNCHANGED <<MtxUp, Held, Doing>>
  BY <1>4 DEF MtxUp, Held, Doing
<1>6. Abstract!SetUpSem(s, c)
  BY <1>1, <1>3, <1>4, <1>5, RoomAgrees DEF Abstract!SetUpSem
<1> QED
  BY <1>1, <1>6 DEF Abstract!Next

(* nrf_modem_os_mutex_init sets up the abstract mutex. *)
LEMMA MutexInitMaps ==
  ASSUME SyncInv, NEW m \in Mutexes, nrf_modem_os_mutex_init(m)
  PROVE  Abstract!Next
<1> DEFINE slot == MtxSlot(m)
<1> USE SyncAssumption DEF NULL, MtxSlots
<1>0. TypeOK /\ HandlesBelow /\ PoolTight
  BY DEF SyncInv
<1>1. ~stopped /\ MtxRoom(m) /\ inside[m] = {}
  BY DEF nrf_modem_os_mutex_init, MutexIdle
<1>2. /\ slot \in MtxSlots
      /\ slot = mtxHandle[m] \/ slot = mutex_used + 1
  BY <1>0, <1>1 DEF MtxSlot, MtxRoom, TypeOK
<1>3. /\ mtxHandle' = [mtxHandle EXCEPT ![m] = slot]
      /\ locked' = [locked EXCEPT ![slot] = FALSE]
      /\ UNCHANGED <<semHandle, ledger, inside, call, stopped>>
  BY DEF nrf_modem_os_mutex_init, semVars
<1>4. \A r \in Mutexes : r # m /\ mtxHandle[r] # NULL => mtxHandle[r] # slot
  BY <1>0, <1>2 DEF TypeOK, HandlesBelow, PoolTight
<1> HIDE DEF slot
<1>5. MtxUp' = MtxUp \cup {m}
  BY <1>0, <1>2, <1>3 DEF MtxUp, TypeOK
<1>6. Held' = [Held EXCEPT ![m] = FALSE]
  <2>1. \A r \in Mutexes : r # m =>
          mtxHandle'[r] = mtxHandle[r]
          /\ (mtxHandle[r] # NULL => locked'[mtxHandle[r]] = locked[mtxHandle[r]])
    BY <1>0, <1>2, <1>3, <1>4 DEF TypeOK
  <2>2. mtxHandle'[m] = slot /\ locked'[slot] = FALSE
    BY <1>0, <1>2, <1>3 DEF TypeOK
  <2> QED
    BY <2>1, <2>2 DEF Held
<1>7. UNCHANGED <<SemUp, Doing>>
  BY <1>3 DEF SemUp, Doing
<1>8. Abstract!SetUpMutex(m)
  BY <1>1, <1>3, <1>5, <1>6, <1>7, RoomAgrees DEF Abstract!SetUpMutex
<1> QED
  BY <1>1, <1>8 DEF Abstract!Next

(* Their assertions fail only when there are as many objects as slots. *)
LEMMA StopMaps ==
  ASSUME SyncInv,
         \/ \E s \in Sems : SemPoolEmpty(s)
         \/ \E m \in Mutexes : MutexPoolEmpty(m)
  PROVE  Abstract!Next
<1>1. /\ ~stopped /\ stopped' = TRUE
      /\ UNCHANGED <<semHandle, ledger, mtxHandle, locked, inside, call>>
  BY DEF SemPoolEmpty, MutexPoolEmpty, semVars, mtxVars
<1>2. UNCHANGED <<SemUp, MtxUp, ledger, Held, inside, Doing>>
  BY <1>1 DEF SemUp, MtxUp, Held, Doing
<1>3. \/ \E s \in Sems : ~Abstract!Room(s, SemUp, SEM_MAX)
      \/ \E m \in Mutexes : ~Abstract!Room(m, MtxUp, MTX_MAX)
  BY RoomAgrees DEF SemPoolEmpty, MutexPoolEmpty
<1> QED
  BY <1>1, <1>2, <1>3 DEF Abstract!Next, Abstract!Stop

(* A give adds a token to the account of its semaphore. *)
LEMMA GiveMaps ==
  ASSUME SyncInv, NEW s \in Sems, nrf_modem_os_sem_give(s)
  PROVE  Abstract!Next
<1>1. /\ ~stopped /\ s \in SemUp /\ ledger' = [ledger EXCEPT ![s] = @ + 1]
      /\ UNCHANGED <<semHandle, mtxHandle, locked, inside, call, stopped>>
  BY DEF nrf_modem_os_sem_give, mtxVars, SemUp
<1>2. UNCHANGED <<SemUp, MtxUp, Held, Doing>>
  BY <1>1 DEF SemUp, MtxUp, Held, Doing
<1>3. Abstract!Give(s)
  BY <1>1, <1>2 DEF Abstract!Give
<1> QED
  BY <1>1, <1>3 DEF Abstract!Next

(* A take or lock begins; for ever it sets no timer. *)
LEMMA CallMaps ==
  ASSUME SyncInv, NEW t \in Threads, NEW v \in Timeouts,
         \/ \E s \in Sems : nrf_modem_os_sem_take(t, s, v)
         \/ \E m \in Mutexes : nrf_modem_os_mutex_lock(t, m, v)
  PROVE  Abstract!Next
<1>1. /\ ~stopped /\ call[t] = NoCall
      /\ UNCHANGED <<semHandle, ledger, mtxHandle, locked, inside, stopped>>
  BY DEF nrf_modem_os_sem_take, nrf_modem_os_mutex_lock, semVars, mtxVars
<1>2. UNCHANGED <<SemUp, MtxUp, Held>>
  BY <1>1 DEF SemUp, MtxUp, Held
<1>3. Doing[t] = Abstract!Nothing
  BY <1>1, NoCallIs DEF Doing
<1>4. PICK op, obj, usec :
        /\ op \in {"take", "lock"}
        /\ call' = [call EXCEPT ![t] =
             [op |-> op, obj |-> obj, timeout |-> v, usec |-> usec]]
        /\ op = "take" => obj \in SemUp /\ obj \in Sems
        /\ op = "lock" => obj \in MtxUp /\ obj \in Mutexes
        /\ v = Forever => usec = NoTimer
  BY DEF nrf_modem_os_sem_take, nrf_modem_os_mutex_lock, TakeUsec, LockUsec,
         SemUp, MtxUp
<1> DEFINE r == [op |-> op, obj |-> obj, timeout |-> v, usec |-> usec]
           f == v = Forever
           b == usec # NoTimer
           c == [op |-> op, obj |-> obj, forever |-> f, timer |-> b]
<1>5. r # NoCall
  <2>1. r.op = op /\ NoCall.op = "none"
    BY DEF NoCall
  <2> QED
    BY <2>1, <1>4
<1>6. AbstractCall(r) = c
  <2>1. r.op = op /\ r.obj = obj /\ r.timeout = v /\ r.usec = usec
    OBVIOUS
  <2> QED
    BY <1>5, <2>1 DEF AbstractCall
<1>7. Doing' = [Doing EXCEPT ![t] = c]
  <2>1. call' = [call EXCEPT ![t] = r]
    BY <1>4
  <2> HIDE DEF r, c
  <2> QED
    BY <2>1, <1>6, DoingMaps
<1>8. f \in BOOLEAN /\ b \in BOOLEAN /\ ~(f /\ b)
  BY <1>4
<1> HIDE DEF f, b, r
<1>9. /\ c \in Abstract!Takes \cup Abstract!Locks
      /\ c.obj \in SemUp \cup MtxUp
  BY <1>4, <1>8 DEF Abstract!Takes, Abstract!Locks
<1>10. ~(c.forever /\ c.timer)
  BY <1>8
<1> HIDE DEF c
<1>11. Abstract!Call(t)
  BY <1>1, <1>2, <1>3, <1>7, <1>9, <1>10 DEF Abstract!Call
<1> QED
  BY <1>1, <1>11 DEF Abstract!Next

(* A take ends with a token its semaphore had, or its time is up. *)
LEMMA TakeEndMaps ==
  ASSUME SyncInv, NEW t \in Threads, NEW err \in {0, 1}, SemTakeReturns(t, err)
  PROVE  Abstract!Next
<1> DEFINE s == call[t].obj
<1>1. call[t].op = "take" /\ ~stopped /\ s \in Sems /\ semHandle[s] # NULL
  BY DEF SemTakeReturns, SyncInv, TypeOK, UsersHaveObjects, Takes, Locks, NoCall
<1>2. count[semHandle[s]] = ledger[s]
  BY <1>1 DEF SyncInv, Tokens
<1>3. /\ call' = [call EXCEPT ![t] = NoCall]
      /\ UNCHANGED <<semHandle, mtxHandle, locked, inside, stopped>>
      /\ \/ count[semHandle[s]] > 0 /\ ledger' = [ledger EXCEPT ![s] = ledger[s] - 1]
         \/ call[t].usec # NoTimer /\ ledger' = [ledger EXCEPT ![s] = ledger[s]]
  <2>1. /\ call' = [call EXCEPT ![t] = NoCall]
        /\ UNCHANGED <<semHandle, mtxHandle, locked, inside, stopped>>
        /\ ledger' = [ledger EXCEPT ![s] = IF err = 0 THEN ledger[s]
                                           ELSE ledger[s] - 1]
    BY DEF SemTakeReturns, TakeResult, OK, EAGAIN, mtxVars
  <2>2. \/ err = 1 /\ count[semHandle[s]] > 0
        \/ err = 0 /\ call[t].usec # NoTimer
    BY DEF SemTakeReturns
  <2>3. CASE err = 1
    BY <2>1, <2>2, <2>3
  <2>4. CASE err = 0
    BY <2>1, <2>2, <2>4
  <2> QED
    BY <2>3, <2>4
<1>4. [ledger EXCEPT ![s] = ledger[s]] = ledger
  BY <1>1 DEF SyncInv, TypeOK
<1>5. UNCHANGED <<SemUp, MtxUp, Held>>
  BY <1>3 DEF SemUp, MtxUp, Held
<1>6. Doing' = [Doing EXCEPT ![t] = Abstract!Nothing]
  BY <1>3, DoingMaps, NoCallIs
<1>7. /\ Doing[t].op = "take" /\ Doing[t].obj = s
      /\ Doing[t].timer <=> call[t].usec # NoTimer
  BY <1>1, DoingIs
<1>8. Abstract!TakeEnds(t)
  BY <1>2, <1>3, <1>4, <1>5, <1>6, <1>7 DEF Abstract!TakeEnds
<1> QED
  BY <1>1, <1>8 DEF Abstract!Next

(* A lock ends with the mutex, or its time is up. *)
LEMMA LockEndMaps ==
  ASSUME SyncInv, NEW t \in Threads, NEW err \in {0, 1}, MutexLockReturns(t, err)
  PROVE  Abstract!Next
<1> DEFINE m == call[t].obj
<1>1. call[t].op = "lock" /\ ~stopped /\ m \in Mutexes /\ mtxHandle[m] # NULL
  BY DEF MutexLockReturns, SyncInv, TypeOK, UsersHaveObjects, Takes, Locks, NoCall
<1>2. /\ call' = [call EXCEPT ![t] = NoCall]
      /\ inside' = [inside EXCEPT ![m] = @ \cup {t}]
      /\ UNCHANGED <<semHandle, ledger, mtxHandle, stopped>>
      /\ \/ ~locked[mtxHandle[m]] /\ locked' = [locked EXCEPT ![mtxHandle[m]] = TRUE]
         \/ call[t].usec # NoTimer /\ locked' = locked
  BY DEF MutexLockReturns, semVars
<1>3. Doing' = [Doing EXCEPT ![t] = Abstract!Nothing]
  BY <1>2, DoingMaps, NoCallIs
<1>4. /\ Doing[t].op = "lock" /\ Doing[t].obj = m
      /\ Doing[t].timer <=> call[t].usec # NoTimer
  BY <1>1, DoingIs
<1>5. UNCHANGED <<SemUp, MtxUp>>
  BY <1>2 DEF SemUp, MtxUp
<1>6. \/ ~Held[m] /\ Held' = [Held EXCEPT ![m] = TRUE]
      \/ call[t].usec # NoTimer /\ Held' = Held
  <2>1. CASE ~locked[mtxHandle[m]] /\ locked' = [locked EXCEPT ![mtxHandle[m]] = TRUE]
    BY <2>1, <1>1, <1>2, HeldIs, HeldMaps
  <2>2. CASE call[t].usec # NoTimer /\ locked' = locked
    BY <2>2, <1>2 DEF Held
  <2> QED
    BY <2>1, <2>2, <1>2
<1>7. Abstract!LockEnds(t)
  BY <1>2, <1>3, <1>4, <1>5, <1>6 DEF Abstract!LockEnds
<1> QED
  BY <1>1, <1>7 DEF Abstract!Next

(* nrf_modem_os_mutex_unlock frees the abstract mutex and no other. *)
LEMMA UnlockMaps ==
  ASSUME SyncInv, NEW t \in Threads, NEW m \in Mutexes,
         nrf_modem_os_mutex_unlock(t, m)
  PROVE  Abstract!Next
<1>1. ~stopped /\ call[t] = NoCall /\ t \in inside[m] /\ mtxHandle[m] # NULL
  BY DEF nrf_modem_os_mutex_unlock, SyncInv, UsersHaveObjects
<1>2. /\ locked' = [locked EXCEPT ![mtxHandle[m]] = FALSE]
      /\ inside' = [inside EXCEPT ![m] = @ \ {t}]
      /\ UNCHANGED <<semHandle, ledger, mtxHandle, call, stopped>>
  BY DEF nrf_modem_os_mutex_unlock, semVars
<1>3. Held' = [Held EXCEPT ![m] = FALSE]
  BY <1>1, <1>2, HeldMaps
<1>4. UNCHANGED <<SemUp, MtxUp, Doing>> /\ Doing[t] = Abstract!Nothing
  BY <1>1, <1>2, NoCallIs DEF SemUp, MtxUp, Doing
<1>5. Abstract!Unlock(t, m)
  BY <1>1, <1>2, <1>3, <1>4 DEF Abstract!Unlock
<1> QED
  BY <1>1, <1>5 DEF Abstract!Next

(* The pools of nrf_modem.c cannot be seen: every behaviour of the code is *)
(* one of objects that have their memory to themselves.                    *)
THEOREM PoolsUnseen == Spec => ImplementsSyncObjects
<1>1. Init => Abstract!Init
  <2> SUFFICES ASSUME Init PROVE Abstract!Init
    OBVIOUS
  <2>1. SemUp = {} /\ MtxUp = {} /\ Held = [m \in Mutexes |-> FALSE]
    BY DEF Init, SemUp, MtxUp, Held
  <2>2. Doing = [t \in Threads |-> Abstract!Nothing]
    BY NoCallIs DEF Init, Doing
  <2> QED
    BY <2>1, <2>2 DEF Init, Abstract!Init
<1>2. SyncInv /\ [Next]_vars => [Abstract!Next]_(Abstract!vars)
  <2> SUFFICES ASSUME SyncInv, [Next]_vars
               PROVE  Abstract!Next \/ UNCHANGED Abstract!vars
    OBVIOUS
  <2>1. CASE SetUp
    BY <2>1, SemInitMaps, MutexInitMaps, StopMaps DEF SetUp
  <2>2. ASSUME NEW t \in Threads, Thread(t) PROVE Abstract!Next
    BY <2>2, CallMaps, TakeEndMaps, LockEndMaps, UnlockMaps DEF Thread, Returns
  <2>3. CASE UNCHANGED vars
    <3>1. UNCHANGED <<semHandle, ledger, mtxHandle, locked, inside, call, stopped>>
      BY <2>3 DEF vars, semVars, mtxVars
    <3>2. UNCHANGED <<SemUp, MtxUp, Held, Doing>>
      BY <3>1 DEF SemUp, MtxUp, Held, Doing
    <3> QED
      BY <3>1, <3>2 DEF Abstract!vars
  <2> QED
    BY <2>1, <2>2, <2>3, GiveMaps DEF Next
<1> QED
  BY SyncInductive, <1>1, <1>2, PTL DEF Spec, ImplementsSyncObjects, Abstract!Spec
=============================================================================
