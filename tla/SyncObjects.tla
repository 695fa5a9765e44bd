----------------------------- MODULE SyncObjects -----------------------------
(***************************************************************************)
(* What the semaphores and mutexes of src/src/nrf_modem.c promise the      *)
(* modem library: objects of its own, as if each had its memory to itself, *)
(* up to a number of each kind.  There are no pools, slots or handles      *)
(* here; OsSync is shown to implement this in OsSyncRefines.               *)
(*                                                                         *)
(* A lock that runs out of time makes its caller an owner too: that is the *)
(* promise the code keeps, since nrf_modem_os_mutex_lock does not report   *)
(* it.  A call for ever has no timer; any other may have one or not.       *)
(***************************************************************************)
EXTENDS Integers, FiniteSets

CONSTANTS Threads, Sems, Mutexes, Counts, MaxSems, MaxMutexes

VARIABLES
  semUp, mtxUp,   \* the objects that are set up
  tokens,         \* of each semaphore
  held,           \* whether a mutex is held
  owners,         \* the threads that go on as its owners
  doing,          \* the call each thread is in
  stopped         \* too many objects were asked for

vars == <<semUp, mtxUp, tokens, held, owners, doing, stopped>>

Nothing == [op |-> "none"]
Takes == [op : {"take"}, obj : Sems, forever : BOOLEAN, timer : BOOLEAN]
Locks == [op : {"lock"}, obj : Mutexes, forever : BOOLEAN, timer : BOOLEAN]

Init ==
  /\ semUp = {} /\ mtxUp = {} /\ stopped = FALSE
  /\ tokens = [s \in Sems |-> 0] /\ held = [m \in Mutexes |-> FALSE]
  /\ owners = [m \in Mutexes |-> {}] /\ doing = [t \in Threads |-> Nothing]

(* Memory is left for an object; when none is, the system stops. *)
Room(o, up, max) == o \in up \/ Cardinality(up) < max

Stop ==
  /\ \/ \E s \in Sems : ~Room(s, semUp, MaxSems)
     \/ \E m \in Mutexes : ~Room(m, mtxUp, MaxMutexes)
  /\ stopped' = TRUE
  /\ UNCHANGED <<semUp, mtxUp, tokens, held, owners, doing>>

SetUpSem(s, c) ==
  /\ Room(s, semUp, MaxSems)
  /\ semUp' = semUp \cup {s} /\ tokens' = [tokens EXCEPT ![s] = c]
  /\ UNCHANGED <<mtxUp, held, owners, doing, stopped>>

SetUpMutex(m) ==
  /\ Room(m, mtxUp, MaxMutexes) /\ owners[m] = {}
  /\ mtxUp' = mtxUp \cup {m} /\ held' = [held EXCEPT ![m] = FALSE]
  /\ UNCHANGED <<semUp, tokens, owners, doing, stopped>>

Give(s) ==
  /\ s \in semUp
  /\ tokens' = [tokens EXCEPT ![s] = @ + 1]
  /\ UNCHANGED <<semUp, mtxUp, held, owners, doing, stopped>>

Call(t) ==
  /\ doing[t] = Nothing
  /\ \E c \in Takes \cup Locks :
       /\ c.obj \in semUp \cup mtxUp /\ ~(c.forever /\ c.timer)
       /\ doing' = [doing EXCEPT ![t] = c]
  /\ UNCHANGED <<semUp, mtxUp, tokens, held, owners, stopped>>

TakeEnds(t) ==
  /\ doing[t].op = "take" /\ doing' = [doing EXCEPT ![t] = Nothing]
  /\ LET s == doing[t].obj IN
       \/ tokens[s] > 0 /\ tokens' = [tokens EXCEPT ![s] = @ - 1]
       \/ doing[t].timer /\ tokens' = tokens
  /\ UNCHANGED <<semUp, mtxUp, held, owners, stopped>>

LockEnds(t) ==
  /\ doing[t].op = "lock" /\ doing' = [doing EXCEPT ![t] = Nothing]
  /\ LET m == doing[t].obj IN
       /\ \/ ~held[m] /\ held' = [held EXCEPT ![m] = TRUE]
          \/ doing[t].timer /\ held' = held
       /\ owners' = [owners EXCEPT ![m] = @ \cup {t}]
  /\ UNCHANGED <<semUp, mtxUp, tokens, stopped>>

Unlock(t, m) ==
  /\ doing[t] = Nothing /\ t \in owners[m]
  /\ held' = [held EXCEPT ![m] = FALSE]
  /\ owners' = [owners EXCEPT ![m] = @ \ {t}]
  /\ UNCHANGED <<semUp, mtxUp, tokens, doing, stopped>>

Next ==
  /\ ~stopped
  /\ \/ Stop
     \/ \E s \in Sems : Give(s) \/ \E c \in Counts : SetUpSem(s, c)
     \/ \E m \in Mutexes : SetUpMutex(m)
     \/ \E t \in Threads :
          Call(t) \/ TakeEnds(t) \/ LockEnds(t) \/ \E m \in Mutexes : Unlock(t, m)

Spec == Init /\ [][Next]_vars

=============================================================================
