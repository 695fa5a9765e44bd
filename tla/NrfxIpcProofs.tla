--------------------------- MODULE NrfxIpcProofs ---------------------------
(***************************************************************************)
(* Theorems about NrfxIpc, for any number of channels and any              *)
(* configurations.  IpcInv is inductive; a lemma per actor shows that its  *)
(* actions keep it.                                                        *)
(***************************************************************************)
EXTENDS NrfxIpc, TLAPS

(* At reset nothing is configured, enabled or raised. *)
LEMMA IpcInit == Init => IpcInv
  BY IpcAssumption
  DEF Init, IpcInv, TypeOK, NoEventLost, QuietWhenDown, InIsr, NoCall

(* An event the modem core raises goes into EVENTS, where due expects it. *)
LEMMA RaiseKeepsInv ==
  ASSUME IpcInv, NEW c \in Channels, Raise(c) PROVE IpcInv'
<1>1. TypeOK'
  BY DEF Raise, IpcInv, TypeOK, libVars, isrVars
<1> QED
  BY <1>1 DEF Raise, IpcInv, NoEventLost, QuietWhenDown, InIsr, Lowest,
              libVars, isrVars

(* The library's calls configure before they enable, and mask everything   *)
(* at the end.                                                             *)
LEMMA LibraryKeepsInv == ASSUME IpcInv, Library PROVE IpcInv'
<1> USE DEF isrVars, libVars
<1>1. TypeOK'
  <2>1. CASE nrfx_ipc_init
    BY <2>1 DEF nrfx_ipc_init, IpcInv, TypeOK
  <2>2. ASSUME NEW p \in Configs, nrfx_ipc_config_load(p) PROVE TypeOK'
    <3>1. p \in Config
      BY IpcAssumption
    <3>2. p.send \subseteq Channels
      BY <3>1 DEF Config
    <3> QED
      BY <2>2, <3>1, <3>2, IpcAssumption
      DEF nrfx_ipc_config_load, IpcInv, TypeOK
  <2>3. CASE ConfigureRecv \/ DeconfigureRecv
    <3>1. i \in Channels /\ i + 1 \in 0 .. IPC_CONF_NUM
      BY <2>3, IpcAssumption
      DEF ConfigureRecv, DeconfigureRecv, IpcInv, TypeOK, Channels
    <3>2. i' = i + 1 /\ recvOn' \subseteq recvOn \cup {i}
      BY <2>3 DEF ConfigureRecv, DeconfigureRecv
    <3>3. /\ UNCHANGED <<handler, phase, conf, sendOn>>
          /\ UNCHANGED <<inten, events, isr, pending, call, due>>
      BY <2>3 DEF ConfigureRecv, DeconfigureRecv
    <3> QED
      BY <3>1, <3>2, <3>3 DEF IpcInv, TypeOK
  <2>4. CASE EnableConfigured \/ MaskAll
    BY <2>4 DEF EnableConfigured, MaskAll, IpcInv, TypeOK, Config
  <2>5. ASSUME NEW c \in Channels,
               nrfx_ipc_receive_event_enable(c) \/ nrfx_ipc_receive_event_disable(c)
        PROVE  TypeOK'
    BY <2>5 DEF nrfx_ipc_receive_event_enable, nrfx_ipc_receive_event_disable,
                IpcInv, TypeOK
  <2>6. CASE nrfx_ipc_uninit
    BY <2>6, IpcAssumption DEF nrfx_ipc_uninit, IpcInv, TypeOK
  <2> QED
    BY <2>1, <2>2, <2>3, <2>4, <2>5, <2>6 DEF Library
<1>2. NoEventLost'
  BY DEF Library, nrfx_ipc_init, nrfx_ipc_config_load, ConfigureRecv,
         DeconfigureRecv, EnableConfigured, MaskAll, nrfx_ipc_uninit,
         nrfx_ipc_receive_event_enable, nrfx_ipc_receive_event_disable,
         IpcInv, NoEventLost, Lowest
<1>3. UNCHANGED isrVars
  BY DEF Library, nrfx_ipc_init, nrfx_ipc_config_load, ConfigureRecv,
         DeconfigureRecv, EnableConfigured, MaskAll, nrfx_ipc_uninit,
         nrfx_ipc_receive_event_enable, nrfx_ipc_receive_event_disable
<1>4. CASE nrfx_ipc_init
  BY <1>1, <1>2, <1>3, <1>4
  DEF nrfx_ipc_init, IpcInv, QuietWhenDown, InIsr, Lowest
<1>5. ASSUME NEW p \in Configs, nrfx_ipc_config_load(p) PROVE IpcInv'
  BY <1>1, <1>2, <1>3, <1>5
  DEF nrfx_ipc_config_load, IpcInv, QuietWhenDown, InIsr, Lowest
<1>6. CASE ConfigureRecv
  BY <1>1, <1>2, <1>3, <1>6
  DEF ConfigureRecv, IpcInv, QuietWhenDown, InIsr, Lowest
<1>7. CASE EnableConfigured
  BY <1>1, <1>2, <1>3, <1>7
  DEF EnableConfigured, IpcInv, QuietWhenDown, InIsr, Lowest
<1>8. ASSUME NEW c \in Channels,
             nrfx_ipc_receive_event_enable(c) \/ nrfx_ipc_receive_event_disable(c)
      PROVE  IpcInv'
  BY <1>1, <1>2, <1>3, <1>8
  DEF nrfx_ipc_receive_event_enable, nrfx_ipc_receive_event_disable, MaySwitch,
      IpcInv, QuietWhenDown, InIsr, Lowest
<1>9. CASE nrfx_ipc_uninit
  BY <1>1, <1>2, <1>3, <1>9
  DEF nrfx_ipc_uninit, IpcInv, TypeOK, Channels, QuietWhenDown, InIsr, Lowest
<1>10. CASE DeconfigureRecv
  BY <1>1, <1>2, <1>3, <1>10
  DEF DeconfigureRecv, IpcInv, TypeOK, Channels, QuietWhenDown, InIsr, Lowest
<1>11. CASE MaskAll
  <2>1. recvOn = {}
    BY <1>11 DEF MaskAll, IpcInv, TypeOK, Channels
  <2> QED
    BY <1>1, <1>2, <1>3, <1>11, <2>1
    DEF MaskAll, IpcInv, QuietWhenDown, InIsr, Lowest
<1> QED
  BY <1>4, <1>5, <1>6, <1>7, <1>8, <1>9, <1>10, <1>11 DEF Library

(* Two channels cannot both be the lowest one of the snapshot. *)
LEMMA LowestUnique ==
  ASSUME TypeOK, NEW c \in Channels, NEW d \in Channels, Lowest(c), Lowest(d)
  PROVE  c = d
  BY IpcAssumption DEF Lowest, Channels, TypeOK

(* The interrupt clears an event only to call its handler next. *)
LEMMA IrqKeepsInv == ASSUME IpcInv, Irq PROVE IpcInv'
<1> USE DEF isrVars, libVars, IpcInv
<1>1. CASE IrqEnter
  <2>1. INTPEND \subseteq Channels /\ inten # {}
    BY <1>1 DEF IrqEnter, INTPEND, TypeOK
  <2> QED
    BY <1>1, <2>1
    DEF IrqEnter, TypeOK, NoEventLost, QuietWhenDown, InIsr
<1>2. ASSUME NEW c \in Channels, ClearEvent(c) PROVE IpcInv'
  BY <1>2 DEF ClearEvent, TypeOK, NoEventLost, QuietWhenDown, InIsr, Lowest
<1>3. ASSUME NEW c \in Channels, CallHandler(c) PROVE IpcInv'
  <2>1. TypeOK'
    BY <1>3 DEF CallHandler, TypeOK
  <2>2. NoEventLost'
    BY <1>3, LowestUnique DEF CallHandler, TypeOK, NoEventLost
  <2> QED
    BY <1>3, <2>1, <2>2 DEF CallHandler, QuietWhenDown, InIsr, Lowest
<1>4. CASE HandlerReturn
  BY <1>4 DEF HandlerReturn, TypeOK, NoEventLost, QuietWhenDown, InIsr, NoCall
<1>5. CASE IrqExit
  BY <1>5 DEF IrqExit, TypeOK, NoEventLost, QuietWhenDown, InIsr
<1> QED
  BY <1>1, <1>2, <1>3, <1>4, <1>5 DEF Irq

(* Every step of the driver keeps IpcInv. *)
LEMMA IpcStep == IpcInv /\ [Next]_vars => IpcInv'
<1> SUFFICES ASSUME IpcInv, [Next]_vars PROVE IpcInv'
  OBVIOUS
<1>1. CASE UNCHANGED vars
  BY <1>1 DEF vars, libVars, isrVars, IpcInv, TypeOK, NoEventLost,
              QuietWhenDown, InIsr, Lowest
<1> QED
  BY <1>1, RaiseKeepsInv, LibraryKeepsInv, IrqKeepsInv DEF Next

(* IpcInv is an invariant of the driver. *)
THEOREM IpcInductive == Spec => []IpcInv
  BY IpcInit, IpcStep, PTL DEF Spec

(* nrfx_ipc_irq_handler loses no event, whenever the modem core raises it. *)
THEOREM EventsKept == Spec => []NoEventLost
<1>1. IpcInv => NoEventLost
  BY DEF IpcInv
<1> QED
  BY IpcInductive, <1>1, PTL

(* m_ipc_cb.handler is not NULL when the interrupt calls it. *)
THEOREM HandlerSet == Spec => []NoNullCall
<1>1. IpcInv => NoNullCall
  BY IpcAssumption DEF IpcInv, NoNullCall, InIsr
<1> QED
  BY IpcInductive, <1>1, PTL

(* After nrfx_ipc_uninit the driver is silent. *)
THEOREM UninitSilences == Spec => []QuietWhenDown
<1>1. IpcInv => QuietWhenDown
  BY DEF IpcInv
<1> QED
  BY IpcInductive, <1>1, PTL
=============================================================================
