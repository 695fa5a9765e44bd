-------------------------- MODULE ModemPortProofs --------------------------
(***************************************************************************)
(* Theorems about ModemPort, the interrupt, the library's handler and the  *)
(* sleeping threads together.  Every step of the composition is a step of  *)
(* each component or leaves it alone, so that the inductive invariants of  *)
(* the components, proved in ModemOsWaitProofs and NrfxIpcProofs, carry    *)
(* over; PortInv adds what ties the two together.                          *)
(***************************************************************************)
EXTENDS ModemPort, TLAPS

WaitP == INSTANCE ModemOsWaitProofs WITH MayShutdown <- FALSE
IpcP  == INSTANCE NrfxIpcProofs

(* What the components assume of their constants holds here. *)
LEMMA AssumptionsMet == WaitP!WaitAssumption /\ IpcP!IpcAssumption
  BY PortAssumption
  DEF Wait!WaitAssumption, WaitP!WaitAssumption,
      Ipc!IpcAssumption, IpcP!IpcAssumption,
      Ipc!Config, IpcP!Config, Ipc!Channels, IpcP!Channels

(* The invariant of the driver, as the composition and as the proofs about *)
(* the driver name it.                                                     *)
LEMMA SameIpcInv ==
  /\ Ipc!IpcInv <=> IpcP!IpcInv
  /\ Ipc!IpcInv' <=> IpcP!IpcInv'
  BY DEF Ipc!IpcInv, IpcP!IpcInv, Ipc!TypeOK, IpcP!TypeOK, Ipc!Config, IpcP!Config,
         Ipc!Channels, IpcP!Channels, Ipc!NoEventLost, IpcP!NoEventLost,
         Ipc!QuietWhenDown, IpcP!QuietWhenDown, Ipc!InIsr, IpcP!InIsr,
         Ipc!Lowest, IpcP!Lowest

(* The same for the invariant of the sleeping threads. *)
LEMMA SameWaitInv ==
  /\ Wait!WaitInv <=> WaitP!WaitInv
  /\ Wait!WaitInv' <=> WaitP!WaitInv'
  BY DEF Wait!WaitInv, WaitP!WaitInv, Wait!TypeOK, WaitP!TypeOK, Wait!Td, WaitP!Td,
         Wait!NoFrame, WaitP!NoFrame, Wait!Nodes, WaitP!Nodes, Wait!OK, WaitP!OK,
         Wait!EAGAIN, WaitP!EAGAIN, Wait!ESHUTDOWN, WaitP!ESHUTDOWN,
         Wait!Walkers, WaitP!Walkers, Wait!Cursor, WaitP!Cursor,
         Wait!SetUp, WaitP!SetUp, Wait!NoDangling, WaitP!NoDangling,
         Wait!LinksAgree, WaitP!LinksAgree, Wait!Ring, WaitP!Ring,
         Wait!Linked, WaitP!Linked, Wait!IsrWalkSafe, WaitP!IsrWalkSafe,
         Wait!InIsr, WaitP!InIsr, Wait!PostedAgrees, WaitP!PostedAgrees,
         Wait!ListWhole, WaitP!ListWhole, Wait!IsrOnList, WaitP!IsrOnList,
         Wait!Closed, WaitP!Closed

(* The same for the steps of the driver. *)
LEMMA SameIpcNext == [Ipc!Next]_(Ipc!vars) => [IpcP!Next]_(IpcP!vars)
<1>1. Ipc!Irq => IpcP!Irq
  BY DEF Ipc!Irq, IpcP!Irq, Ipc!IrqEnter, Ipc!ClearEvent, Ipc!CallHandler,
         Ipc!HandlerReturn, Ipc!IrqExit, IpcP!IrqEnter, IpcP!ClearEvent,
         IpcP!CallHandler, IpcP!HandlerReturn, IpcP!IrqExit,
         Ipc!libVars, IpcP!libVars, Ipc!InIsr, IpcP!InIsr, Ipc!Channels,
         IpcP!Channels, Ipc!Lowest, IpcP!Lowest, Ipc!NoCall, IpcP!NoCall,
         Ipc!INTPEND, IpcP!INTPEND
<1>2. Ipc!Library => IpcP!Library
  BY DEF Ipc!Library, IpcP!Library, Ipc!nrfx_ipc_init, IpcP!nrfx_ipc_init,
         Ipc!nrfx_ipc_config_load, IpcP!nrfx_ipc_config_load,
         Ipc!ConfigureRecv, IpcP!ConfigureRecv,
         Ipc!EnableConfigured, IpcP!EnableConfigured,
         Ipc!nrfx_ipc_receive_event_enable, IpcP!nrfx_ipc_receive_event_enable,
         Ipc!nrfx_ipc_receive_event_disable, IpcP!nrfx_ipc_receive_event_disable,
         Ipc!nrfx_ipc_uninit, IpcP!nrfx_ipc_uninit,
         Ipc!DeconfigureRecv, IpcP!DeconfigureRecv, Ipc!MaskAll, IpcP!MaskAll,
         Ipc!MaySwitch, IpcP!MaySwitch, Ipc!InIsr, IpcP!InIsr,
         Ipc!Channels, IpcP!Channels, Ipc!libVars, IpcP!libVars,
         Ipc!isrVars, IpcP!isrVars
<1>3. ASSUME NEW c \in Ipc!Channels, Ipc!Raise(c)
      PROVE  \E d \in IpcP!Channels : IpcP!Raise(d)
  BY <1>3 DEF Ipc!Raise, IpcP!Raise, Ipc!Channels, IpcP!Channels,
              Ipc!libVars, IpcP!libVars, Ipc!isrVars, IpcP!isrVars
<1> QED
  BY <1>1, <1>2, <1>3
  DEF Ipc!Next, IpcP!Next, Ipc!vars, IpcP!vars, Ipc!libVars, IpcP!libVars,
      Ipc!isrVars, IpcP!isrVars

(* The same for the steps of the sleeping threads. *)
LEMMA SameWaitNext == [Wait!Next]_(Wait!vars) => [WaitP!Next]_(WaitP!vars)
<1> USE DEF Wait!InIsr, WaitP!InIsr, Wait!td_first, WaitP!td_first
<1>1. ASSUME NEW t \in Threads, Wait!Timedwait(t) PROVE WaitP!Timedwait(t)
  BY <1>1
  DEF Wait!Timedwait, WaitP!Timedwait, Wait!Refuse, WaitP!Refuse, Wait!Poll,
      WaitP!Poll, Wait!Prepare, WaitP!Prepare, Wait!Enqueue, WaitP!Enqueue,
      Wait!SemTake, WaitP!SemTake, Wait!SemTimeout, WaitP!SemTimeout,
      Wait!Dequeue, WaitP!Dequeue, Wait!Return, WaitP!Return,
      Wait!nrf_modem_is_initialized, WaitP!nrf_modem_is_initialized,
      Wait!Tmout, WaitP!Tmout, Wait!Int32, WaitP!Int32,
      Wait!list_append, WaitP!list_append, Wait!list_remove, WaitP!list_remove,
      Wait!Result, WaitP!Result, Wait!NoFrame, WaitP!NoFrame, Wait!OK, WaitP!OK,
      Wait!EAGAIN, WaitP!EAGAIN, Wait!ESHUTDOWN, WaitP!ESHUTDOWN
<1>2. Wait!nrf_modem_os_init => WaitP!nrf_modem_os_init
  BY DEF Wait!nrf_modem_os_init, WaitP!nrf_modem_os_init,
         Wait!list_init, WaitP!list_init
<1>3. /\ Wait!ModemInitDone => WaitP!ModemInitDone
      /\ Wait!nrf_modem_os_shutdown => WaitP!nrf_modem_os_shutdown
  BY DEF Wait!ModemInitDone, WaitP!ModemInitDone,
         Wait!nrf_modem_os_shutdown, WaitP!nrf_modem_os_shutdown
<1>4. ASSUME NEW c \in Contexts, Wait!nrf_modem_os_event_notify(c)
      PROVE  WaitP!nrf_modem_os_event_notify(c)
  BY <1>4 DEF Wait!nrf_modem_os_event_notify, WaitP!nrf_modem_os_event_notify
<1>5. \A w : Wait!Post(w) <=> WaitP!Post(w)
  BY DEF Wait!Post, WaitP!Post, Wait!Matches, WaitP!Matches,
         Wait!mdx_sem_post, WaitP!mdx_sem_post
<1>6. \A n : Wait!Successors(n) = WaitP!Successors(n)
  BY DEF Wait!Successors, WaitP!Successors, Wait!td_next, WaitP!td_next
<1>7. /\ Wait!NotifyTurn => WaitP!NotifyTurn
      /\ Wait!ShutdownPost => WaitP!ShutdownPost
      /\ Wait!ShutdownNext => WaitP!ShutdownNext
  BY <1>5, <1>6 DEF Wait!NotifyTurn, WaitP!NotifyTurn, Wait!ShutdownPost,
     WaitP!ShutdownPost, Wait!ShutdownNext, WaitP!ShutdownNext
<1> QED
  BY <1>1, <1>2, <1>3, <1>4, <1>7
  DEF Wait!Next, WaitP!Next, Wait!vars, WaitP!vars

(* Each component keeps its invariant at a step of its own. *)
LEMMA IpcKept == ASSUME Ipc!IpcInv, [Ipc!Next]_(Ipc!vars) PROVE Ipc!IpcInv'
  BY SameIpcInv, SameIpcNext, AssumptionsMet, IpcP!IpcStep

(* The same for the sleeping threads, notifications included. *)
LEMMA WaitKept == ASSUME Wait!WaitInv, [Wait!Next]_(Wait!vars) PROVE Wait!WaitInv'
  BY SameWaitInv, SameWaitNext, AssumptionsMet, WaitP!WaitStep

(* Seen from the driver: every step of the port is one of the driver's or  *)
(* leaves its registers alone.                                             *)
LEMMA PortRunsIpc == ASSUME [Next]_vars PROVE [Ipc!Next]_(Ipc!vars)
<1>1. CASE UNCHANGED ipcVars
  BY <1>1 DEF ipcVars, Ipc!vars, Ipc!libVars, Ipc!isrVars
<1>2. CASE \E c \in Ipc!Channels : Ipc!Raise(c)
  BY <1>2 DEF Ipc!Next
<1>3. CASE StartPort
  BY <1>1, <1>3 DEF StartPort, OfWait, Ipc!Next, Ipc!Library
<1>4. CASE SwitchEvent
  BY <1>4 DEF SwitchEvent, Ipc!Next, Ipc!Library
<1>5. CASE Irq
  BY <1>1, <1>5
  DEF Irq, Enter, Serve, Notify, NotifyStep, HandlerReturns, OfWait, Ipc!Next, Ipc!Irq
<1> QED
  BY <1>1, <1>2, <1>3, <1>4, <1>5 DEF Next, vars, OfWait

(* Seen from the sleeping threads: every step of the port is one of        *)
(* theirs, a notification for a context the library knows included, or     *)
(* leaves them alone.                                                      *)
LEMMA PortRunsWait == ASSUME PortInv, [Next]_vars PROVE [Wait!Next]_(Wait!vars)
<1>1. CASE UNCHANGED waitVars
  BY <1>1 DEF waitVars, Wait!vars
<1>2. CASE StartPort
  BY <1>1, <1>2 DEF StartPort, OfIpc, Wait!Next
<1>3. CASE SwitchEvent
  BY <1>1, <1>3 DEF SwitchEvent, OfIpc
<1>4. CASE Notify
  <2>1. ContextOf[call.channel] \in Contexts
    BY <1>4, PortAssumption DEF Notify, PortInv, Ipc!IpcInv, Ipc!TypeOK
  <2> QED
    BY <1>1, <1>4, <2>1 DEF Notify, Wait!Next
<1>5. CASE NotifyStep
  BY <1>5 DEF NotifyStep, Wait!Next
<1>6. CASE Enter \/ Serve \/ HandlerReturns \/ (Ipc!IrqExit /\ OfIpc)
  BY <1>1, <1>6 DEF Enter, Serve, HandlerReturns, OfIpc
<1>7. CASE \E t \in Threads : Wait!Timedwait(t)
  BY <1>7 DEF Wait!Next
<1> QED
  BY <1>1, <1>2, <1>3, <1>4, <1>5, <1>6, <1>7 DEF Next, Irq, vars, OfIpc

(* What ties the two together: a walk in the interrupt belongs to the      *)
(* running handler, and the list is set up before any event can come.      *)
Tied ==
  /\ Wait!InIsr => isr = "handler" /\ notified
  /\ notified => isr = "handler"
  /\ Ipc!InIsr => inits > 0
  /\ phase # "down" => inits > 0

(* No step of the port loosens that tie: the handler returns only when its *)
(* walk is over, and the driver starts after nrf_modem_os_init.            *)
LEMMA TiedKept == ASSUME PortInv, [Next]_vars PROVE Tied'
<1>0. /\ Tied /\ inits \in Nat /\ (modem # "off" => inits > 0)
      /\ Ipc!IpcInv /\ Wait!WaitInv
  BY PortAssumption
  DEF PortInv, Tied, Wait!WaitInv, Wait!TypeOK, Wait!SetUp, Wait!WaitAssumption
<1> USE DEF Tied, Ipc!InIsr, Wait!InIsr
<1>1. CASE UNCHANGED vars
  BY <1>0, <1>1 DEF vars, waitVars, ipcVars
<1>2. ASSUME NEW c \in Ipc!Channels, Ipc!Raise(c) /\ OfIpc PROVE Tied'
  BY <1>0, <1>2 DEF Ipc!Raise, OfIpc, waitVars, Ipc!libVars, Ipc!isrVars
<1>3. CASE StartPort
  <2>1. CASE phase = "down" /\ Wait!nrf_modem_os_init /\ OfWait
    BY <1>0, <2>1 DEF Wait!nrf_modem_os_init, OfWait, ipcVars
  <2>2. CASE modem = "starting" /\ Ipc!nrfx_ipc_init /\ OfIpc
    BY <1>0, <2>2 DEF Ipc!nrfx_ipc_init, OfIpc, waitVars, Ipc!isrVars
  <2>3. CASE (\E p \in Configs : Ipc!nrfx_ipc_config_load(p)) /\ OfIpc
    BY <1>0, <2>3 DEF Ipc!nrfx_ipc_config_load, OfIpc, waitVars, Ipc!isrVars
  <2>4. CASE (Ipc!ConfigureRecv \/ Ipc!EnableConfigured) /\ OfIpc
    BY <1>0, <2>4
    DEF Ipc!ConfigureRecv, Ipc!EnableConfigured, OfIpc, waitVars, Ipc!isrVars
  <2>5. CASE Wait!ModemInitDone /\ OfWait
    BY <1>0, <2>5 DEF Wait!ModemInitDone, OfWait, ipcVars
  <2> QED
    BY <1>3, <2>1, <2>2, <2>3, <2>4, <2>5 DEF StartPort
<1>4. CASE SwitchEvent
  BY <1>0, <1>4
  DEF SwitchEvent, Ipc!nrfx_ipc_receive_event_enable,
      Ipc!nrfx_ipc_receive_event_disable, OfIpc, waitVars, Ipc!libVars, Ipc!isrVars
<1>5. CASE Enter
  <2>1. inten # {}
    BY <1>5 DEF Enter, Ipc!IrqEnter, Ipc!INTPEND
  <2>2. phase # "down"
    BY <2>1, <1>0 DEF Ipc!IpcInv, Ipc!QuietWhenDown
  <2> QED
    BY <2>2, <1>0, <1>5 DEF Enter, Ipc!IrqEnter, OfIpc, waitVars, Ipc!libVars
<1>6. CASE Serve
  BY <1>0, <1>6
  DEF Serve, Ipc!ClearEvent, Ipc!CallHandler, OfIpc, waitVars, Ipc!libVars
<1>7. CASE Notify
  <2>1. walk' = walk \/ Wait!nrf_modem_os_event_notify(ContextOf[call.channel])
    BY <1>7 DEF Notify, waitVars
  <2>2. inits' = inits /\ notified' = TRUE /\ isr = "handler" /\ UNCHANGED ipcVars
    BY <1>7 DEF Notify, Wait!nrf_modem_os_event_notify, waitVars
  <2> QED
    BY <1>0, <2>2 DEF ipcVars
<1>8. CASE NotifyStep
  BY <1>0, <1>8 DEF NotifyStep, Wait!NotifyTurn, OfWait, ipcVars
<1>9. CASE HandlerReturns \/ (Ipc!IrqExit /\ OfIpc)
  BY <1>0, <1>9
  DEF HandlerReturns, Ipc!HandlerReturn, Ipc!IrqExit, OfIpc, waitVars, Ipc!libVars
<1>10. ASSUME NEW t \in Threads, Wait!Timedwait(t) /\ OfWait PROVE Tied'
  <2>1. UNCHANGED <<inits, walk>>
    BY <1>10
    DEF Wait!Timedwait, Wait!Refuse, Wait!Poll, Wait!Prepare, Wait!Enqueue,
        Wait!SemTake, Wait!SemTimeout, Wait!Dequeue, Wait!Return
  <2> QED
    BY <1>0, <1>10, <2>1 DEF OfWait, ipcVars
<1> QED
  BY <1>1, <1>2, <1>3, <1>4, <1>5, <1>6, <1>7, <1>8, <1>9, <1>10 DEF Next, Irq

(* What lies ahead of a walk, as the composition and as the proofs about   *)
(* the sleeping threads name it.                                           *)
LEMMA SameFrom == \A n : Wait!From(n) = WaitP!From(n)
  BY DEF Wait!From, WaitP!From, Wait!td_next, WaitP!td_next

(* The entry of the handler's notification: every sleeper is ahead of the  *)
(* walk, or there is none and the loop does nothing.                       *)
LEMMA NotifyMisses ==
  ASSUME PortInv, Notify, inits = 1 PROVE NoSleeperMissed'
<1> DEFINE c == ContextOf[call.channel]
<1>1. /\ WaitP!WaitInv /\ inits' = 1 /\ UNCHANGED <<isr, call, pc, td, nxt>>
      /\ ~Wait!InIsr /\ walk \in [Wait!Walkers -> Wait!Cursor]
  BY SameWaitInv
  DEF Notify, PortInv, Wait!nrf_modem_os_event_notify, waitVars, ipcVars,
      Wait!WaitInv, Wait!TypeOK
<1>2. \A t \in Threads : pc[t] = "queued" => /\ nxt[Head] \in Threads
                                            /\ t \in Wait!From(nxt[Head])
  BY <1>1, AssumptionsMet, WaitP!AllAhead, SameFrom DEF WaitP!Linked
<1>3. CASE Wait!td_first = NULL /\ UNCHANGED waitVars
  <2>1. \A t \in Threads : pc[t] # "queued"
    BY <1>2, <1>3, PortAssumption DEF Wait!td_first, Wait!WaitAssumption
  <2> QED
    BY <1>1, <1>3, <2>1 DEF NoSleeperMissed, Wait!InIsr, waitVars
<1>4. CASE Wait!nrf_modem_os_event_notify(c)
  <2>1. /\ walk'["isr"].cur = nxt[Head] /\ walk'["isr"].cur # NULL
        /\ walk'["isr"].context = c
    BY <1>1, <1>4 DEF Wait!nrf_modem_os_event_notify, Wait!td_first, Wait!Walkers
  <2>2. Wait!Ahead' = Wait!From(nxt[Head])
    BY <1>1, <2>1 DEF Wait!Ahead, Wait!InIsr, Wait!From, Wait!td_next
  <2> QED
    BY <1>1, <1>2, <2>1, <2>2 DEF NoSleeperMissed
<1> QED
  BY <1>3, <1>4 DEF Notify

(* A turn of the walk posts to the node it leaves behind, if that thread   *)
(* sleeps on the context.                                                  *)
LEMMA TurnMisses ==
  ASSUME PortInv, NotifyStep, inits = 1, Wait!WaitInv' PROVE NoSleeperMissed'
<1> DEFINE c == ContextOf[call.channel]
<1>0. PICK n \in Threads : n = walk["isr"].cur
  BY DEF NotifyStep, Wait!NotifyTurn, Wait!InIsr, PortInv, Wait!WaitInv, Wait!TypeOK,
         Wait!Walkers, Wait!Cursor
<1>1. /\ Wait!WaitInv /\ WaitP!WaitInv /\ WaitP!TypeOK /\ Wait!InIsr
      /\ Wait!NotifyTurn /\ UNCHANGED <<isr, call, notified>>
      /\ isr = "handler" /\ notified
  BY <1>0, SameWaitInv, PortAssumption
  DEF NotifyStep, PortInv, WaitP!WaitInv, Wait!InIsr, OfWait, ipcVars, Wait!NotifyTurn
<1>2. /\ Wait!Linked(n) /\ pc[n] # "idle"
      /\ walk \in [Wait!Walkers -> Wait!Cursor] /\ td \in [Threads -> Wait!Td \cup {Wait!NoFrame}]
  BY <1>0, <1>1 DEF Wait!WaitInv, Wait!IsrWalkSafe, Wait!Linked, Wait!TypeOK
<1>3. /\ walk'["isr"].cur = Wait!td_next(n) /\ walk'["isr"].context = walk["isr"].context
      /\ UNCHANGED <<pc, nxt, inits>>
  BY <1>0, <1>1, <1>2 DEF Wait!NotifyTurn, Wait!Successors, Wait!Walkers, Wait!Cursor
<1>4. /\ walk["isr"].context = c
      /\ \A t \in Threads :
           pc[t] = "queued" /\ c \in {0, td[t].context}
             => td[t].sem > 0 \/ t \in Wait!Ahead
  BY <1>1 DEF PortInv, NoSleeperMissed
<1>5. \A t \in Threads \ {n} : t \in Wait!Ahead => t \in Wait!Ahead'
  <2>1. Wait!Ahead = WaitP!From(n) /\ Wait!td_next(n) = WaitP!td_next(n)
    BY <1>0, <1>1, SameFrom DEF Wait!Ahead, Wait!td_next, WaitP!td_next
  <2>2. CASE Wait!td_next(n) = NULL
    BY <1>1, <2>1, <2>2, AssumptionsMet, WaitP!FromNext
  <2>3. CASE Wait!td_next(n) # NULL
    <3>1. Wait!Ahead' = Wait!From(Wait!td_next(n))
      BY <1>3, <2>3 DEF Wait!Ahead, Wait!InIsr, Wait!From, Wait!td_next
    <3>2. WaitP!From(n) = {n} \cup WaitP!From(WaitP!td_next(n))
      BY <1>1, <2>1, <2>3, AssumptionsMet, WaitP!FromNext
    <3> QED
      BY <2>1, <3>1, <3>2, SameFrom
  <2> QED
    BY <2>2, <2>3
<1>6. \A t \in Threads \ {n} : td'[t] = td[t]
  BY <1>0, <1>1, <1>2 DEF Wait!NotifyTurn, Wait!Post, Wait!mdx_sem_post
<1>7. pc[n] = "queued" /\ c \in {0, td'[n].context} => td'[n].sem > 0
  <2> SUFFICES ASSUME pc[n] = "queued", c \in {0, td'[n].context} PROVE td'[n].sem > 0
    OBVIOUS
  <2>1. td[n] \in Wait!Td
    BY <1>1, <1>2 DEF Wait!WaitInv, Wait!TypeOK
  <2>2. td'[n].context = td[n].context
    BY <1>0, <1>1, <1>2, <2>1 DEF Wait!NotifyTurn, Wait!Post, Wait!mdx_sem_post, Wait!Td
  <2>3. Wait!Matches(n, walk["isr"].context)
    BY <1>4, <2>2 DEF Wait!Matches
  <2>4. Wait!mdx_sem_post(n)
    BY <1>0, <1>1, <1>2, <2>3 DEF Wait!NotifyTurn, Wait!Post
  <2>5. td'[n].sem = td[n].sem + 1 /\ td[n].sem \in Nat
    BY <1>2, <2>1, <2>4 DEF Wait!mdx_sem_post, Wait!Td
  <2> QED
    BY <2>5
<1>8. ASSUME NEW t \in Threads, pc[t] = "queued", c \in {0, td'[t].context}
      PROVE  td'[t].sem > 0 \/ t \in Wait!Ahead'
  BY <1>4, <1>5, <1>6, <1>7, <1>8
<1> QED
  BY <1>1, <1>3, <1>4, <1>8 DEF NoSleeperMissed

(* No step makes the handler of nrfx_ipc.c pass over a sleeper: threads    *)
(* stand still while it runs.                                              *)
LEMMA MissedKept ==
  ASSUME PortInv, [Next]_vars, Wait!WaitInv' PROVE NoSleeperMissed'
<1>0. NoSleeperMissed /\ Tied /\ Ipc!IpcInv
  BY DEF PortInv, Tied
<1>1. CASE UNCHANGED <<pc, td, nxt, walk, inits, isr, call, notified>>
  BY <1>0, <1>1
  DEF NoSleeperMissed, Wait!Ahead, Wait!InIsr, Wait!From, Wait!td_next
<1>2. CASE ~(isr' = "handler" /\ notified')
  BY <1>2 DEF NoSleeperMissed
<1>3. CASE UNCHANGED vars
  BY <1>1, <1>3 DEF vars, waitVars, ipcVars
<1>4. ASSUME NEW c \in Ipc!Channels, Ipc!Raise(c) /\ OfIpc PROVE NoSleeperMissed'
  BY <1>1, <1>4 DEF Ipc!Raise, OfIpc, waitVars, Ipc!libVars, Ipc!isrVars
<1>5. CASE StartPort
  <2>1. CASE phase = "down" /\ Wait!nrf_modem_os_init /\ OfWait
    <3>1. isr # "handler"
      BY <1>0, <2>1 DEF Ipc!IpcInv, Ipc!QuietWhenDown, Ipc!InIsr
    <3> QED
      BY <1>2, <2>1, <3>1 DEF OfWait, ipcVars
  <2>2. CASE Wait!ModemInitDone /\ OfWait
    BY <1>1, <2>2 DEF Wait!ModemInitDone, OfWait, ipcVars
  <2>3. CASE /\ \/ Ipc!nrfx_ipc_init \/ Ipc!ConfigureRecv \/ Ipc!EnableConfigured
                \/ \E p \in Configs : Ipc!nrfx_ipc_config_load(p)
             /\ OfIpc
    BY <1>1, <2>3
    DEF Ipc!nrfx_ipc_init, Ipc!ConfigureRecv, Ipc!EnableConfigured,
        Ipc!nrfx_ipc_config_load, OfIpc, waitVars, Ipc!isrVars
  <2> QED
    BY <1>5, <2>1, <2>2, <2>3 DEF StartPort
<1>6. CASE SwitchEvent
  BY <1>1, <1>6
  DEF SwitchEvent, Ipc!nrfx_ipc_receive_event_enable,
      Ipc!nrfx_ipc_receive_event_disable, OfIpc, waitVars, Ipc!libVars, Ipc!isrVars
<1>7. CASE Enter \/ HandlerReturns \/ (Ipc!IrqExit /\ OfIpc)
  BY <1>2, <1>7
  DEF Enter, Ipc!IrqEnter, HandlerReturns, Ipc!IrqExit, OfIpc
<1>8. CASE Serve
  BY <1>0, <1>2, <1>8 DEF Serve, Ipc!ClearEvent, Ipc!CallHandler, OfIpc, Tied
<1>9. CASE Notify
  <2>1. inits' = inits
    BY <1>9 DEF Notify, Wait!nrf_modem_os_event_notify, waitVars
  <2> QED
    BY <1>9, <2>1, NotifyMisses DEF NoSleeperMissed
<1>10. CASE NotifyStep
  <2>1. inits' = inits
    BY <1>10 DEF NotifyStep, Wait!NotifyTurn
  <2> QED
    BY <1>10, <2>1, TurnMisses DEF NoSleeperMissed
<1>11. ASSUME NEW t \in Threads, ThreadsRun, Wait!Timedwait(t), OfWait
       PROVE  NoSleeperMissed'
  BY <1>2, <1>11 DEF ThreadsRun, OfWait, ipcVars, Ipc!InIsr
<1> QED
  BY <1>3, <1>4, <1>5, <1>6, <1>7, <1>8, <1>9, <1>10, <1>11 DEF Next, Irq

(* The interrupt of nrfx_ipc.c and the list of nrf_modem.c keep each       *)
(* other's invariants when they run together: no event is lost, no frame   *)
(* that is gone is posted to, and only the running handler walks the list. *)
THEOREM PortInvariant == Spec => []PortInv
<1>1. Init => PortInv
  <2> SUFFICES ASSUME Init PROVE PortInv
    OBVIOUS
  <2>1. Ipc!Init => IpcP!Init
    BY DEF Ipc!Init, IpcP!Init, Ipc!NoCall, IpcP!NoCall
  <2>2. Wait!Init => WaitP!Init
    BY DEF Wait!Init, WaitP!Init, Wait!NoFrame, WaitP!NoFrame, Wait!Nodes,
           WaitP!Nodes, Wait!Walkers, WaitP!Walkers
  <2>3. Ipc!IpcInv /\ Wait!WaitInv
    BY <2>1, <2>2, AssumptionsMet, IpcP!IpcInit, WaitP!InitInv, SameIpcInv,
       SameWaitInv DEF Init
  <2>4. isr = "out" /\ phase = "down" /\ walk["isr"].cur = NULL /\ ~notified
    BY DEF Init, Ipc!Init, Wait!Init, Wait!Walkers
  <2> QED
    BY <2>3, <2>4 DEF PortInv, Ipc!InIsr, Wait!InIsr, NoSleeperMissed
<1>2. PortInv /\ [Next]_vars => PortInv'
  <2> SUFFICES ASSUME PortInv, [Next]_vars PROVE PortInv'
    OBVIOUS
  <2>1. Ipc!IpcInv'
    BY PortRunsIpc, IpcKept DEF PortInv
  <2>2. Wait!WaitInv'
    BY PortRunsWait, WaitKept DEF PortInv
  <2> QED
    BY <2>1, <2>2, TiedKept, MissedKept DEF PortInv, Tied
<1> QED
  BY <1>1, <1>2, PTL DEF Spec

(* The port as a whole behaves, seen from either side, as the component    *)
(* specified alone: everything proved of ModemOsWait and NrfxIpc holds of  *)
(* the composition.                                                        *)
THEOREM PortImplementsParts == Spec => Wait!Spec /\ Ipc!Spec
<1>1. Init => Wait!Init /\ Ipc!Init
  BY DEF Init
<1>2. PortInv /\ [Next]_vars => [Wait!Next]_(Wait!vars) /\ [Ipc!Next]_(Ipc!vars)
  BY PortRunsWait, PortRunsIpc
<1> QED
  BY <1>1, <1>2, PortInvariant, PTL DEF Spec, Wait!Spec, Ipc!Spec

(* A behaviour of the sleeping threads, as the composition and as the      *)
(* proofs about them name it.                                              *)
LEMMA SameWaitSpec == Wait!Spec => WaitP!Spec
<1>1. Wait!Init => WaitP!Init
  BY DEF Wait!Init, WaitP!Init, Wait!NoFrame, WaitP!NoFrame, Wait!Nodes,
         WaitP!Nodes, Wait!Walkers, WaitP!Walkers
<1> QED
  BY <1>1, SameWaitNext, PTL DEF Wait!Spec, WaitP!Spec

(* In the composition no sleeper is told a wake-up that did not come: the  *)
(* results of nrf_modem_os_timedwait are right while the interrupt of      *)
(* nrfx_ipc.c notifies in between.                                         *)
THEOREM PortResultsSound == Spec => Wait!ResultSound
<1>1. WaitP!Spec => WaitP!ResultSound
  BY AssumptionsMet, WaitP!ResultsSound
<1>2. WaitP!ResultSound => Wait!ResultSound
  BY PTL DEF Wait!ResultSound, WaitP!ResultSound, Wait!vars, WaitP!vars, Wait!OK,
         WaitP!OK, Wait!EAGAIN, WaitP!EAGAIN, Wait!ESHUTDOWN, WaitP!ESHUTDOWN
<1> QED
  BY <1>1, <1>2, SameWaitSpec, PortImplementsParts, PTL

(* The port is safe as a whole: the interrupt posts only to frames that    *)
(* exist, loses no event of the modem core and calls no handler that is    *)
(* not set.                                                                *)
THEOREM PortSafe == Spec => [](Wait!IsrWalkSafe /\ Ipc!NoEventLost /\ Ipc!NoNullCall)
<1>1. PortInv => Wait!IsrWalkSafe /\ Ipc!NoEventLost /\ Ipc!NoNullCall
  BY PortAssumption
  DEF PortInv, Wait!WaitInv, Ipc!IpcInv, Ipc!NoNullCall, Ipc!InIsr, Ipc!IpcAssumption
<1> QED
  BY <1>1, PortInvariant, PTL

(* The handler that nrfx_ipc_irq_handler calls passes over no sleeper of   *)
(* its context: each holds a post when it returns.                         *)
THEOREM NobodyMissed == Spec => []NoSleeperMissed
<1>1. PortInv => NoSleeperMissed
  BY DEF PortInv
<1> QED
  BY <1>1, PortInvariant, PTL

(* In the interrupt the walk of nrf_modem_os_event_notify ends: every turn *)
(* of it leaves a node behind for good.                                    *)
THEOREM PortWalkEnds == Spec => Wait!WalkAdvances
<1>1. WaitP!Spec => WaitP!WalkAdvances
  BY AssumptionsMet, WaitP!WalkEnds
<1>2. WaitP!WalkAdvances => Wait!WalkAdvances
  <2>1. Wait!Ahead = WaitP!Ahead /\ Wait!Ahead' = WaitP!Ahead'
    BY DEF Wait!Ahead, WaitP!Ahead, Wait!InIsr, WaitP!InIsr, Wait!From, WaitP!From,
           Wait!td_next, WaitP!td_next
  <2>2. (WaitP!InIsr => WaitP!Ahead' \subseteq WaitP!Ahead \ {walk["isr"].cur})
        => (Wait!InIsr => Wait!Ahead' \subseteq Wait!Ahead \ {walk["isr"].cur})
    BY <2>1 DEF Wait!InIsr, WaitP!InIsr
  <2> QED
    BY <2>2, PTL DEF Wait!WalkAdvances, WaitP!WalkAdvances, Wait!vars, WaitP!vars
<1> QED
  BY <1>1, <1>2, SameWaitSpec, PortImplementsParts, PTL

(* Driver, handler, list and semaphores together still implement the       *)
(* atomic broadcast of WaitNotify, if nrf_modem_init is called once, as    *)
(* main.c does.                                                            *)
THEOREM PortImplementsWaitNotify == MaxInits = 1 /\ Spec => WaitP!ImplementsWaitNotify
<1>1. MaxInits = 1 /\ WaitP!Spec => WaitP!ImplementsWaitNotify
  BY AssumptionsMet, WaitP!ListUnseen
<1> QED
  BY <1>1, SameWaitSpec, PortImplementsParts, PTL
=============================================================================
