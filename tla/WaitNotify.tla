----------------------------- MODULE WaitNotify -----------------------------
(***************************************************************************)
(* What nrf_modem_os_timedwait and nrf_modem_os_event_notify promise to    *)
(* the modem library (src/src/nrf_modem.c): threads wait, a notification   *)
(* wakes at once every thread asleep on its context, a wait ends because   *)
(* it was woken or because its time was up, and its result says which.     *)
(* There is no list here, no walk along it and no interrupt.               *)
(***************************************************************************)
EXTENDS Integers

CONSTANTS Threads, Contexts, Timeouts, NULL

VARIABLES
  at,       \* "out", "entering", "asleep" or "leaving"
  want,     \* the context and the timeout a thread waits with
  woken,    \* it has been woken since it entered
  result,   \* what its wait returned
  on        \* the modem is initialized

vars == <<at, want, woken, result, on>>

OK        == "0"
EAGAIN    == "-NRF_EAGAIN"
ESHUTDOWN == "-NRF_ESHUTDOWN"
NoWait    == [context |-> 0, timeout |-> 0]

-----------------------------------------------------------------------------
Refuse(t) ==
  /\ at[t] = "out" /\ ~on
  /\ result' = [result EXCEPT ![t] = ESHUTDOWN]
  /\ UNCHANGED <<at, want, woken, on>>

Poll(t) ==
  /\ at[t] = "out" /\ on
  /\ result' = [result EXCEPT ![t] = EAGAIN]
  /\ UNCHANGED <<at, want, woken, on>>

Enter(t, c, v) ==
  /\ at[t] = "out" /\ on /\ v # 0
  /\ at' = [at EXCEPT ![t] = "entering"]
  /\ want' = [want EXCEPT ![t] = [context |-> c, timeout |-> v]]
  /\ result' = [result EXCEPT ![t] = NULL]
  /\ UNCHANGED <<woken, on>>

FallAsleep(t) ==
  /\ at[t] = "entering"
  /\ at' = [at EXCEPT ![t] = "asleep"]
  /\ UNCHANGED <<want, woken, result, on>>

(* All at once; a context of 0 is everybody's. *)
Notify(c) ==
  /\ woken' = [t \in Threads |->
                 woken[t] \/ (at[t] = "asleep" /\ c \in {0, want[t].context})]
  /\ UNCHANGED <<at, want, result, on>>

(* Woken, or tired of waiting. *)
WakeUp(t) ==
  /\ at[t] = "asleep"
  /\ at' = [at EXCEPT ![t] = "leaving"]
  /\ UNCHANGED <<want, woken, result, on>>

Leave(t) ==
  /\ at[t] = "leaving"
  /\ result' = [result EXCEPT ![t] =
       IF ~on THEN ESHUTDOWN
       ELSE IF woken[t] \/ want[t].timeout < 0 THEN OK ELSE EAGAIN]
  /\ at' = [at EXCEPT ![t] = "out"]
  /\ want' = [want EXCEPT ![t] = NoWait]
  /\ woken' = [woken EXCEPT ![t] = FALSE]
  /\ on' = on

(* A shutdown wakes threads one by one and promises nothing about when. *)
Switch ==
  /\ on' = ~on
  /\ UNCHANGED <<at, want, woken, result>>

ShutdownWakes(t) ==
  /\ ~on /\ at[t] \in {"entering", "asleep"}
  /\ woken' = [woken EXCEPT ![t] = TRUE]
  /\ UNCHANGED <<at, want, result, on>>

-----------------------------------------------------------------------------
Init ==
  /\ at = [t \in Threads |-> "out"]
  /\ want = [t \in Threads |-> NoWait]
  /\ woken = [t \in Threads |-> FALSE]
  /\ result = [t \in Threads |-> NULL]
  /\ on = FALSE

Next ==
  \/ Switch
  \/ \E c \in Contexts : Notify(c)
  \/ \E t \in Threads :
       \/ Refuse(t)
       \/ Poll(t)
       \/ \E c \in Contexts, v \in Timeouts : Enter(t, c, v)
       \/ FallAsleep(t)
       \/ WakeUp(t)
       \/ Leave(t)
       \/ ShutdownWakes(t)

Spec == Init /\ [][Next]_vars

=============================================================================
