---------------------------- MODULE OsSyncRefines ----------------------------
(***************************************************************************)
(* The pools of nrf_modem.c implement SyncObjects.  A semaphore's tokens   *)
(* are those its users can account for from the results they got; a mutex  *)
(* is held if the one in its slot is.                                      *)
(***************************************************************************)
EXTENDS OsSync

AbstractCall(c) ==
  IF c = NoCall THEN [op |-> "none"]
  ELSE [op      |-> c.op,
        obj     |-> c.obj,
        forever |-> c.timeout = Forever,
        timer   |-> c.usec # NoTimer]

SemUp == {s \in Sems : semHandle[s] # NULL}
MtxUp == {m \in Mutexes : mtxHandle[m] # NULL}
Held  == [m \in Mutexes |-> mtxHandle[m] # NULL /\ locked[mtxHandle[m]]]
Doing == [t \in Threads |-> AbstractCall(call[t])]

Abstract == INSTANCE SyncObjects WITH
  MaxSems    <- SEM_MAX,
  MaxMutexes <- MTX_MAX,
  semUp   <- SemUp,
  mtxUp   <- MtxUp,
  tokens  <- ledger,
  held    <- Held,
  owners  <- inside,
  doing   <- Doing

(* nrf_modem.c's pools cannot be seen: each semaphore and mutex behaves as *)
(* an object of its own whatever the users of others do and however often  *)
(* objects are set up again, and the system stops only when the library    *)
(* asks for more objects than the pools have slots.                        *)
ImplementsSyncObjects == Abstract!Spec

=============================================================================
