------------------------------- MODULE OsSync -------------------------------
(***************************************************************************)
(* The semaphores and mutexes that the OS port lends to the modem library  *)
(* (src/src/nrf_modem.c).  The library keeps a handle per object, NULL at  *)
(* first; the init functions take a slot of a fixed pool for a new handle  *)
(* and use the slot again for a handle they know, as happens when the      *)
(* modem is initialized a second time.  Slots are never given back.        *)
(*                                                                         *)
(* Of the library (external) it is assumed that it initializes from one    *)
(* thread and only objects nobody uses, and that a thread unlocks what its *)
(* lock has returned for and does not lock it twice.                       *)
(***************************************************************************)
EXTENDS Integers, FiniteSets

CONSTANTS
  Threads,
  Sems, Mutexes,      \* the library's objects, one handle variable each
  SEM_MAX, MTX_MAX,   \* NRF_MODEM_OS_SEM_MAX, NRF_MODEM_OS_MTX_MAX
  Counts,             \* initial counts the library asks for
  Timeouts,           \* timeouts in ms: -1 for ever, 0 no wait
  IntMax, UsPerMs,    \* largest int, 1000
  MaxCount,           \* bound: the count up to which a semaphore is given
  MaxLapses           \* bound: timed locks that expire on one mutex

ASSUME SyncAssumption ==
  /\ SEM_MAX \in Nat /\ MTX_MAX \in Nat
  /\ Counts \subseteq Nat /\ Timeouts \subseteq Int
  /\ IntMax \in Nat \ {0} /\ UsPerMs \in Nat \ {0} /\ MaxCount \in Nat
  /\ MaxLapses \in Nat

VARIABLES
  semHandle,    \* the library's handles: a slot, or NULL
  mtxHandle,
  sem_used,     \* slots handed out so far
  mutex_used,
  count,        \* the semaphore in each slot
  locked,       \* the mutex in each slot
  call,         \* the take or lock each thread is in
  stopped,      \* an assertion failed and the system stopped
  ledger,       \* history: initial count + gives - takes that returned 0
  inside,       \* history: threads whose lock returned and who hold on
  lapses        \* history: timed locks expired since the mutex was set up

semVars == <<semHandle, sem_used, count, ledger>>
mtxVars == <<mtxHandle, mutex_used, locked, inside, lapses>>
vars == <<semVars, mtxVars, call, stopped>>

-----------------------------------------------------------------------------
(* Values *)

NULL     == 0
SemSlots == 1 .. SEM_MAX
MtxSlots == 1 .. MTX_MAX

OK     == "0"
EAGAIN == "-NRF_EAGAIN"

Forever == -1
NoTimer == 0    \* the time that mdx_sem_timedwait takes for "no timer"

Int32(x) == ((x + IntMax + 1) % (2 * (IntMax + 1))) - (IntMax + 1)

(* The time handed to mdx_sem_timedwait and to mdx_mutex_lock or           *)
(* mdx_mutex_timedlock.  Mutant: every lock is a timed one.                *)
TakeUsec(v) == IF v = Forever THEN NoTimer ELSE Int32(v * UsPerMs)

LockUsecAlways(v) == Int32(v * UsPerMs)
LockUsec(v) == IF v = Forever THEN NoTimer ELSE Int32(v * UsPerMs)

NoCall == [op |-> "none"]
Takes  == [op : {"take"}, obj : Sems, timeout : Timeouts, usec : Int]
Locks  == [op : {"lock"}, obj : Mutexes, timeout : Timeouts, usec : Int]

Taking(t, s)  == call[t].op = "take" /\ call[t].obj = s
Locking(t, m) == call[t].op = "lock" /\ call[t].obj = m

-----------------------------------------------------------------------------
(* Semaphores *)

(* The slot for an object: the one its handle points to, else the next of  *)
(* the pool.  Mutant: the search through the pool is left out.             *)
SemSlotFresh(s) == sem_used + 1
SemSlot(s) == IF semHandle[s] \in SemSlots THEN semHandle[s] ELSE sem_used + 1

SemRoom(s) == semHandle[s] \in SemSlots \/ sem_used < SEM_MAX

nrf_modem_os_sem_init(s, c) ==
  /\ ~stopped /\ \A t \in Threads : ~Taking(t, s)
  /\ SemRoom(s)
  /\ LET slot == SemSlot(s) IN
       /\ semHandle' = [semHandle EXCEPT ![s] = slot]
       /\ sem_used'  = IF slot > sem_used THEN slot ELSE sem_used
       /\ count'     = [count EXCEPT ![slot] = c]
  /\ ledger' = [ledger EXCEPT ![s] = c]
  /\ UNCHANGED <<mtxVars, call, stopped>>

(* KASSERT(sem_used < NRF_MODEM_OS_SEM_MAX) fails. *)
SemPoolEmpty(s) ==
  /\ ~stopped /\ \A t \in Threads : ~Taking(t, s)
  /\ ~SemRoom(s)
  /\ stopped' = TRUE
  /\ UNCHANGED <<semVars, mtxVars, call>>

(* Called by threads and by the handler of the IPC interrupt. *)
nrf_modem_os_sem_give(s) ==
  /\ ~stopped /\ semHandle[s] # NULL /\ count[semHandle[s]] < MaxCount
  /\ count'  = [count EXCEPT ![semHandle[s]] = @ + 1]
  /\ ledger' = [ledger EXCEPT ![s] = @ + 1]
  /\ UNCHANGED <<semHandle, sem_used, mtxVars, call, stopped>>

nrf_modem_os_sem_take(t, s, v) ==
  /\ ~stopped /\ call[t] = NoCall /\ semHandle[s] # NULL
  /\ call' = [call EXCEPT ![t] =
       [op |-> "take", obj |-> s, timeout |-> v, usec |-> TakeUsec(v)]]
  /\ UNCHANGED <<semVars, mtxVars, stopped>>

(* What the caller learns from err, the result of mdx_sem_timedwait: 0 is  *)
(* a timeout.  Mutant: the usual convention, 0 is success.                 *)
TakeResultPosix(err) == IF err = 0 THEN OK ELSE EAGAIN
TakeResult(err) == IF err = 0 THEN EAGAIN ELSE OK

SemTakeReturns(t, err) ==
  /\ ~stopped /\ call[t].op = "take"
  /\ LET s == call[t].obj IN
       /\ \/ /\ err = 1 /\ count[semHandle[s]] > 0
             /\ count' = [count EXCEPT ![semHandle[s]] = @ - 1]
          \/ /\ err = 0 /\ call[t].usec # NoTimer
             /\ count' = count
       /\ ledger' = [ledger EXCEPT
                       ![s] = IF TakeResult(err) = OK THEN @ - 1 ELSE @]
  /\ call' = [call EXCEPT ![t] = NoCall]
  /\ UNCHANGED <<semHandle, sem_used, mtxVars, stopped>>

-----------------------------------------------------------------------------
(* Mutexes *)

MtxSlot(m) ==
  IF mtxHandle[m] \in MtxSlots THEN mtxHandle[m] ELSE mutex_used + 1

MtxRoom(m) == mtxHandle[m] \in MtxSlots \/ mutex_used < MTX_MAX

MutexIdle(m) == inside[m] = {} /\ \A t \in Threads : ~Locking(t, m)

nrf_modem_os_mutex_init(m) ==
  /\ ~stopped /\ MutexIdle(m)
  /\ MtxRoom(m)
  /\ LET slot == MtxSlot(m) IN
       /\ mtxHandle'  = [mtxHandle EXCEPT ![m] = slot]
       /\ mutex_used' = IF slot > mutex_used THEN slot ELSE mutex_used
       /\ locked'     = [locked EXCEPT ![slot] = FALSE]
  /\ lapses' = [lapses EXCEPT ![m] = 0]
  /\ UNCHANGED <<inside, semVars, call, stopped>>

(* KASSERT(mutex_used < NRF_MODEM_OS_MTX_MAX) fails. *)
MutexPoolEmpty(m) ==
  /\ ~stopped /\ MutexIdle(m)
  /\ ~MtxRoom(m)
  /\ stopped' = TRUE
  /\ UNCHANGED <<semVars, mtxVars, call>>

nrf_modem_os_mutex_lock(t, m, v) ==
  /\ ~stopped /\ call[t] = NoCall
  /\ mtxHandle[m] # NULL /\ t \notin inside[m]
  /\ call' = [call EXCEPT ![t] =
       [op |-> "lock", obj |-> m, timeout |-> v, usec |-> LockUsec(v)]]
  /\ UNCHANGED <<semVars, mtxVars, stopped>>

(* The function returns 0 whether or not mdx_mutex_timedlock got the       *)
(* mutex, so either way the caller goes on as its owner.                   *)
MutexLockReturns(t, err) ==
  /\ ~stopped /\ call[t].op = "lock"
  /\ LET m == call[t].obj IN
       /\ \/ /\ err = 1 /\ ~locked[mtxHandle[m]]
             /\ locked' = [locked EXCEPT ![mtxHandle[m]] = TRUE]
             /\ lapses' = lapses
          \/ /\ err = 0 /\ call[t].usec # NoTimer
             /\ locked' = locked
             /\ lapses[m] < MaxLapses
             /\ lapses' = [lapses EXCEPT
                             ![m] = IF call[t].timeout = Forever THEN @ ELSE @ + 1]
       /\ inside' = [inside EXCEPT ![m] = @ \cup {t}]
  /\ call' = [call EXCEPT ![t] = NoCall]
  /\ UNCHANGED <<mtxHandle, mutex_used, semVars, stopped>>

(* mdx_mutex_unlock frees the mutex whoever calls it.  Mutant: it is not   *)
(* called.                                                                 *)
nrf_modem_os_mutex_unlock_lost(t, m) ==
  /\ ~stopped /\ call[t] = NoCall /\ t \in inside[m]
  /\ inside' = [inside EXCEPT ![m] = @ \ {t}]
  /\ UNCHANGED <<locked, mtxHandle, mutex_used, lapses, semVars, call, stopped>>

nrf_modem_os_mutex_unlock(t, m) ==
  /\ ~stopped /\ call[t] = NoCall /\ t \in inside[m]
  /\ locked' = [locked EXCEPT ![mtxHandle[m]] = FALSE]
  /\ inside' = [inside EXCEPT ![m] = @ \ {t}]
  /\ UNCHANGED <<mtxHandle, mutex_used, lapses, semVars, call, stopped>>

-----------------------------------------------------------------------------
Init ==
  /\ semHandle = [s \in Sems |-> NULL] /\ mtxHandle = [m \in Mutexes |-> NULL]
  /\ sem_used = 0 /\ mutex_used = 0
  /\ count = [i \in SemSlots |-> 0] /\ locked = [i \in MtxSlots |-> FALSE]
  /\ call = [t \in Threads |-> NoCall] /\ stopped = FALSE
  /\ ledger = [s \in Sems |-> 0]
  /\ inside = [m \in Mutexes |-> {}] /\ lapses = [m \in Mutexes |-> 0]

SetUp ==
  \/ \E s \in Sems : SemPoolEmpty(s) \/ \E c \in Counts : nrf_modem_os_sem_init(s, c)
  \/ \E m \in Mutexes : MutexPoolEmpty(m) \/ nrf_modem_os_mutex_init(m)

Returns(t) == \E err \in {0, 1} : SemTakeReturns(t, err) \/ MutexLockReturns(t, err)

Thread(t) ==
  \/ \E s \in Sems, v \in Timeouts : nrf_modem_os_sem_take(t, s, v)
  \/ \E m \in Mutexes, v \in Timeouts : nrf_modem_os_mutex_lock(t, m, v)
  \/ \E m \in Mutexes : nrf_modem_os_mutex_unlock(t, m)
  \/ Returns(t)

Next ==
  \/ SetUp
  \/ \E s \in Sems : nrf_modem_os_sem_give(s)
  \/ \E t \in Threads : Thread(t)

Spec == Init /\ [][Next]_vars

-----------------------------------------------------------------------------
(* Properties *)

(* Handles are NULL or point into the pool, and a thread waits only on an  *)
(* object that has been set up.                                            *)
TypeOK ==
  /\ semHandle \in [Sems -> SemSlots \cup {NULL}]
  /\ mtxHandle \in [Mutexes -> MtxSlots \cup {NULL}]
  /\ sem_used \in 0 .. SEM_MAX /\ mutex_used \in 0 .. MTX_MAX
  /\ count \in [SemSlots -> Nat] /\ locked \in [MtxSlots -> BOOLEAN]
  /\ call \in [Threads -> {NoCall} \cup Takes \cup Locks]
  /\ stopped \in BOOLEAN /\ ledger \in [Sems -> Int]
  /\ inside \in [Mutexes -> SUBSET Threads] /\ lapses \in [Mutexes -> Nat]

(* Every slot that nrf_modem_os_sem_init or nrf_modem_os_mutex_init handed *)
(* out belongs to exactly one object, however often objects are set up     *)
(* again, so the assertion of an init stops the system only when there are *)
(* more objects than slots.                                                *)
PoolTight ==
  /\ \A i \in 1 .. sem_used : \E s \in Sems : semHandle[s] = i
  /\ \A i \in 1 .. mutex_used : \E m \in Mutexes : mtxHandle[m] = i
  /\ \A s1, s2 \in Sems : s1 # s2 /\ semHandle[s1] = semHandle[s2]
                            => semHandle[s1] = NULL
  /\ \A m1, m2 \in Mutexes : m1 # m2 /\ mtxHandle[m1] = mtxHandle[m2]
                               => mtxHandle[m1] = NULL
  /\ stopped => sem_used = SEM_MAX \/ mutex_used = MTX_MAX

(* The results of nrf_modem_os_sem_take tell its callers the truth: what   *)
(* an object's users have put in and taken out by their own account is     *)
(* what its semaphore holds, whatever the users of other objects do.       *)
Tokens == \A s \in Sems : semHandle[s] # NULL => count[semHandle[s]] = ledger[s]

(* A timed lock that expires lets one thread too many past                 *)
(* nrf_modem_os_mutex_lock, and never more than one, although whoever got  *)
(* past later unlocks a mutex that is not its own: the threads inside are  *)
(* at most one more than the timed locks that have expired.  While none    *)
(* has, the mutex excludes.                                                *)
MutualExclusion ==
  \A m \in Mutexes : Cardinality(inside[m]) <= 1 + lapses[m]

(* Parts of the inductive invariant: handles stay below the fill level of  *)
(* their pool; calls and holders have an object to refer to; and of the    *)
(* threads past a lock all but one, who holds the mutex if it is locked,   *)
(* owe it to a lock that expired.                                          *)
HandlesBelow ==
  /\ \A s \in Sems : semHandle[s] <= sem_used
  /\ \A m \in Mutexes : mtxHandle[m] <= mutex_used

UsersHaveObjects ==
  /\ \A t \in Threads : call[t].op = "take" => semHandle[call[t].obj] # NULL
  /\ \A t \in Threads : call[t].op = "lock" => mtxHandle[call[t].obj] # NULL
  /\ \A t \in Threads : call[t].op = "lock" => call[t].usec = LockUsec(call[t].timeout)
  /\ \A m \in Mutexes : inside[m] # {} => mtxHandle[m] # NULL

LockedAgrees ==
  \A m \in Mutexes :
    /\ IsFiniteSet(inside[m])
    /\ mtxHandle[m] # NULL =>
         /\ locked[mtxHandle[m]] => inside[m] # {}
         /\ Cardinality(inside[m]) <=
              lapses[m] + (IF locked[mtxHandle[m]] THEN 1 ELSE 0)

(* The inductive invariant. *)
SyncInv ==
  /\ TypeOK /\ HandlesBelow /\ PoolTight /\ Tokens
  /\ UsersHaveObjects /\ LockedAgrees

=============================================================================
