------------------------- MODULE ModemOsWaitRefines -------------------------
(***************************************************************************)
(* nrf_modem.c's list of sleeping threads implements WaitNotify.  The      *)
(* interrupt posts the sleepers one after another; seen from the threads,  *)
(* which stand still meanwhile, all of them are woken when it starts, so   *)
(* the mapping counts a thread still ahead of the walk as woken.           *)
(*                                                                         *)
(* It holds while the list is set up once.  A second nrf_modem_os_init     *)
(* empties the list under threads that still sleep in it, and what they    *)
(* unlink later may cut off others: then a notification misses sleepers,   *)
(* and only their timeouts bring them back (WaitReturns of ModemOsWait).   *)
(***************************************************************************)
EXTENDS ModemOsWait

AbstractAt(t) ==
  CASE pc[t] = "idle"                 -> "out"
    [] pc[t] = "ready"                -> "entering"
    [] pc[t] = "queued"               -> "asleep"
    [] pc[t] \in {"awake", "unlinked"} -> "leaving"

AbstractWoken(t) ==
  IF pc[t] = "queued"
    THEN \/ td[t].posted
         \/ Matches(t, walk["isr"].context) /\ t \in Ahead
    ELSE pc[t] # "idle" /\ td[t].posted

AbstractWant(t) ==
  IF pc[t] = "idle" THEN [context |-> 0, timeout |-> 0]
  ELSE [context |-> td[t].context, timeout |-> td[t].val]

Abstract == INSTANCE WaitNotify WITH
  at     <- [t \in Threads |-> AbstractAt(t)],
  want   <- [t \in Threads |-> AbstractWant(t)],
  woken  <- [t \in Threads |-> AbstractWoken(t)],
  result <- ret,
  on     <- nrf_modem_is_initialized

(* The walks, frames and semaphores of nrf_modem.c implement an atomic     *)
(* broadcast: no thread is woken that should not be, none is passed over,  *)
(* and every nrf_modem_os_timedwait returns what the abstract wait would.  *)
ImplementsWaitNotify == Abstract!Spec

=============================================================================
