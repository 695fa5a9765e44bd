------------------------------ MODULE ModemPort ------------------------------
(***************************************************************************)
(* The port as a whole: NrfxIpc, which brings the modem core's events to   *)
(* the library's handler, and ModemOsWait, whose nrf_modem_os_event_notify *)
(* that handler calls to wake the threads that wait for them.              *)
(*                                                                         *)
(* Both run on the application core: threads stand still from the entry of *)
(* the IPC interrupt to its exit, and the walk along the sleeping threads  *)
(* is part of the handler.  Of the modem library (external) it is assumed  *)
(* that nrf_modem_init sets up the OS port first and then the driver, and  *)
(* that the handler notifies the context of its channel once.  The         *)
(* application never calls nrf_modem_shutdown, so the composition leaves   *)
(* it to the component modules.                                            *)
(***************************************************************************)
EXTENDS Integers

CONSTANTS
  Threads, Contexts, Timeouts, IntMax, UsPerMs, CapUs, MaxPosts, MaxInits,
  Head, NULL,                               \* of ModemOsWait
  IPC_CONF_NUM, Configs, LibHandler,        \* of NrfxIpc
  ContextOf,     \* the context that the handler notifies for a channel
  MaxBacklog     \* bound: posts a sleeper may hold when the interrupt enters

VARIABLES
  pc, td, nxt, prv, ret, modem, inits, walk,
  handler, phase, conf, i, sendOn, recvOn, inten, events, isr, pending, call,
  due,
  notified       \* the running handler has made its notification

Wait == INSTANCE ModemOsWait WITH MayShutdown <- FALSE
Ipc  == INSTANCE NrfxIpc

waitVars == <<pc, td, nxt, prv, ret, modem, inits, walk>>
ipcVars  == <<handler, phase, conf, i, sendOn, recvOn, inten, events, isr,
              pending, call, due>>
vars     == <<waitVars, ipcVars, notified>>

ASSUME PortAssumption ==
  /\ Wait!WaitAssumption /\ Ipc!IpcAssumption
  /\ ContextOf \in [Ipc!Channels -> Contexts]
  /\ MaxBacklog \in Nat /\ MaxBacklog + IPC_CONF_NUM <= MaxPosts

ThreadsRun == ~Ipc!InIsr
OfWait == UNCHANGED <<ipcVars, notified>>
OfIpc  == UNCHANGED <<waitVars, notified>>

-----------------------------------------------------------------------------
(* nrf_modem_init *)

StartPort ==
  \/ phase = "down" /\ Wait!nrf_modem_os_init /\ OfWait
  \/ modem = "starting" /\ Ipc!nrfx_ipc_init /\ OfIpc
  \/ \E p_config \in Configs : Ipc!nrfx_ipc_config_load(p_config) /\ OfIpc
  \/ Ipc!ConfigureRecv /\ OfIpc
  \/ Ipc!EnableConfigured /\ OfIpc
  \/ phase = "running" /\ ThreadsRun /\ Wait!ModemInitDone /\ OfWait

(* By a thread of the library or by its handler, before or after it        *)
(* notifies.                                                               *)
SwitchEvent ==
  \E c \in Ipc!Channels :
    /\ ~Wait!InIsr /\ OfIpc
    /\ Ipc!nrfx_ipc_receive_event_enable(c) \/ Ipc!nrfx_ipc_receive_event_disable(c)

-----------------------------------------------------------------------------
(* The interrupt, with the library's handler in it *)

Enter ==
  /\ \A t \in Threads : td[t].sem <= MaxBacklog
  /\ Ipc!IrqEnter /\ OfIpc

Serve ==
  \E c \in Ipc!Channels : (Ipc!ClearEvent(c) \/ Ipc!CallHandler(c)) /\ OfIpc

(* The handler calls nrf_modem_os_event_notify; with no thread asleep its  *)
(* loop does nothing.                                                      *)
Notify ==
  /\ isr = "handler" /\ ~notified
  /\ notified' = TRUE
  /\ \/ Wait!nrf_modem_os_event_notify(ContextOf[call.channel])
     \/ Wait!td_first = NULL /\ UNCHANGED waitVars
  /\ UNCHANGED ipcVars

NotifyStep == Wait!NotifyTurn /\ OfWait

HandlerReturns ==
  /\ notified /\ ~Wait!InIsr
  /\ Ipc!HandlerReturn
  /\ notified' = FALSE
  /\ UNCHANGED waitVars

Irq == Enter \/ Serve \/ Notify \/ NotifyStep \/ HandlerReturns
         \/ (Ipc!IrqExit /\ OfIpc)

-----------------------------------------------------------------------------
Init == Wait!Init /\ Ipc!Init /\ notified = FALSE

Next ==
  \/ \E c \in Ipc!Channels : Ipc!Raise(c) /\ OfIpc
  \/ StartPort
  \/ SwitchEvent
  \/ Irq
  \/ \E t \in Threads : ThreadsRun /\ Wait!Timedwait(t) /\ OfWait

Spec == Init /\ [][Next]_vars

(* The interrupt is taken and goes on, a ready thread is scheduled in      *)
(* spite of interrupts, a timer that was set expires.  Nobody has to raise *)
(* an event, call or switch anything.                                      *)
Fairness ==
  /\ WF_vars(Irq)
  /\ \A t \in Threads : SF_vars(ThreadsRun /\ Wait!Progress(t) /\ OfWait)

FairSpec == Spec /\ Fairness

-----------------------------------------------------------------------------
(* Properties *)

(* From the modem core to a thread: an event that is raised on an enabled  *)
(* channel while a thread sleeps on its context wakes that thread, also    *)
(* one whose overflowed timeout set no timer, unless the channel is        *)
(* disabled first.  It takes nrfx_ipc_irq_handler to lose no event and     *)
(* nrf_modem_os_event_notify to pass over no sleeper.                      *)
EventWakes ==
  \A t \in Threads, c \in Ipc!Channels :
    (pc[t] = "queued" /\ ContextOf[c] \in {0, td[t].context}
       /\ c \in due \cap inten)
      ~> (pc[t] # "queued" \/ c \notin inten)

(* The interrupt ends however often the modem raises events meanwhile:     *)
(* nrfx_ipc_irq_handler serves a snapshot and walks a finite list.         *)
IrqEnds == Ipc!InIsr ~> ThreadsRun

(* When the handler of nrfx_ipc_irq_handler has called                     *)
(* nrf_modem_os_event_notify, every thread asleep on its context holds a   *)
(* post or is still ahead of the walk: when it returns, nobody is passed   *)
(* over.  So it is unless a second nrf_modem_os_init cuts the list.        *)
NoSleeperMissed ==
  isr = "handler" /\ notified /\ inits = 1 =>
    LET c == ContextOf[call.channel] IN
    /\ Wait!InIsr => walk["isr"].context = c
    /\ \A t \in Threads :
         pc[t] = "queued" /\ c \in {0, td[t].context}
           => td[t].sem > 0 \/ t \in Wait!Ahead

(* The interrupt and the list keep each other's invariants when they run   *)
(* together: IpcInv and WaitInv, a walk in the interrupt belongs to the    *)
(* handler that runs and has a list to walk on, and it reaches everybody.  *)
PortInv ==
  /\ Ipc!IpcInv /\ Wait!WaitInv
  /\ Wait!InIsr => isr = "handler" /\ notified
  /\ notified => isr = "handler"
  /\ Ipc!InIsr => inits > 0
  /\ phase # "down" => inits > 0
  /\ NoSleeperMissed

=============================================================================
