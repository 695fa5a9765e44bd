------------------------------ MODULE NrfxIpc ------------------------------
(***************************************************************************)
(* The IPC driver glue between the modem core and the modem library        *)
(* (src/src/nrfx_ipc.c) with the interrupt that nrf_modem_os_init installs *)
(* (ipc_intr in src/src/nrf_modem.c).                                      *)
(*                                                                         *)
(* Two cores: the modem raises events at any moment, also while the        *)
(* application core is inside the interrupt.  On the application core the  *)
(* interrupt stops the thread that loads or unloads the configuration      *)
(* between any two of its register writes.  The library's handler runs in  *)
(* the interrupt and may enable and disable events itself.                 *)
(***************************************************************************)
EXTENDS Integers

CONSTANTS
  IPC_CONF_NUM,  \* channels (8)
  Configs,       \* configurations the library may load
  NULL,
  LibHandler     \* the library's event handler

Channels == 0 .. (IPC_CONF_NUM - 1)

(* nrfx_ipc_config_t: the channels with a send task, the channels that     *)
(* receive an event, and receive_events_enabled.                           *)
Config == [send : SUBSET Channels, recv : SUBSET Channels,
           enabled : SUBSET Channels]

ASSUME IpcAssumption ==
  /\ IPC_CONF_NUM \in Nat \ {0}
  /\ Configs \subseteq Config /\ Configs # {}
  /\ NULL # LibHandler

VARIABLES
  handler,   \* m_ipc_cb.handler
  phase,     \* how far the library is in setting the driver up or down
  conf,      \* the p_config of the last nrfx_ipc_config_load
  i,         \* loop index of nrfx_ipc_config_load and nrfx_ipc_uninit
  sendOn,    \* channels with a send task configured
  recvOn,    \* channels with a receive event configured
  inten,     \* INTEN
  events,    \* channels whose EVENTS_RECEIVE register is set
  isr,       \* where the interrupt is
  pending,   \* its snapshot of INTPEND, less the channels it is through with
  call,      \* the running call of the handler: channel and first argument
  due        \* history: raised, and the handler not called since

libVars == <<handler, phase, conf, i, sendOn>>
isrVars == <<isr, pending, call>>
vars    == <<libVars, recvOn, inten, events, isrVars, due>>

NoCall == [channel |-> NULL, arg |-> NULL]

(* A thread runs only while the interrupt does not. *)
InIsr == isr # "out"

-----------------------------------------------------------------------------
(* The modem core *)

(* It triggers channel c.  Without a receive configuration nothing happens. *)
Raise(c) ==
  /\ c \in recvOn
  /\ events' = events \cup {c}
  /\ due' = due \cup {c}
  /\ UNCHANGED <<libVars, recvOn, inten, isrVars>>

-----------------------------------------------------------------------------
(* Calls of the modem library, in thread context *)

nrfx_ipc_init ==
  /\ phase = "down" /\ ~InIsr
  /\ handler' = LibHandler
  /\ phase' = "inited"
  /\ UNCHANGED <<conf, i, sendOn, recvOn, inten, events, isrVars, due>>

(* nrfx_ipc_config_load: the loop over the send tasks, which the interrupt *)
(* cannot see, ...                                                         *)
(* Mutant: the interrupts are enabled first.                               *)
config_load_enables_first(p_config) ==
  /\ phase = "inited" /\ ~InIsr
  /\ conf' = p_config /\ sendOn' = p_config.send
  /\ i' = 0 /\ phase' = "load"
  /\ inten' = inten \cup p_config.enabled
  /\ UNCHANGED <<handler, recvOn, events, isrVars, due>>
nrfx_ipc_config_load(p_config) ==
  /\ phase = "inited" /\ ~InIsr
  /\ conf' = p_config
  /\ sendOn' = p_config.send
  /\ i' = 0
  /\ phase' = "load"
  /\ UNCHANGED <<handler, recvOn, inten, events, isrVars, due>>

(* ... the loop over the receive events, ...                               *)
ConfigureRecv ==
  /\ phase = "load" /\ ~InIsr /\ i < IPC_CONF_NUM
  /\ recvOn' = IF i \in conf.recv THEN recvOn \cup {i} ELSE recvOn \ {i}
  /\ i' = i + 1
  /\ UNCHANGED <<handler, phase, conf, sendOn, inten, events, isrVars, due>>

(* ... and the interrupts last.                                            *)
EnableConfigured ==
  /\ phase = "load" /\ ~InIsr /\ i = IPC_CONF_NUM
  /\ inten' = inten \cup conf.enabled
  /\ phase' = "running"
  /\ UNCHANGED <<handler, conf, i, sendOn, recvOn, events, isrVars, due>>

(* By a thread of the library while it runs, or by its handler. *)
MaySwitch == isr = "handler" \/ (~InIsr /\ phase = "running")

nrfx_ipc_receive_event_enable(c) ==
  /\ MaySwitch
  /\ inten' = inten \cup {c}
  /\ UNCHANGED <<libVars, recvOn, events, isrVars, due>>

nrfx_ipc_receive_event_disable(c) ==
  /\ MaySwitch
  /\ inten' = inten \ {c}
  /\ UNCHANGED <<libVars, recvOn, events, isrVars, due>>

(* Mutant: the handler is taken away first, as nrfx_ipc_init set it first. *)
uninit_drops_handler ==
  /\ phase = "running" /\ ~InIsr
  /\ handler' = NULL
  /\ sendOn' = {} /\ i' = 0 /\ phase' = "unload"
  /\ UNCHANGED <<conf, recvOn, inten, events, isrVars, due>>
nrfx_ipc_uninit ==
  /\ phase = "running" /\ ~InIsr
  /\ sendOn' = {}
  /\ i' = 0
  /\ phase' = "unload"
  /\ UNCHANGED <<handler, conf, recvOn, inten, events, isrVars, due>>

DeconfigureRecv ==
  /\ phase = "unload" /\ ~InIsr /\ i < IPC_CONF_NUM
  /\ recvOn' = recvOn \ {i}
  /\ i' = i + 1
  /\ UNCHANGED <<handler, phase, conf, sendOn, inten, events, isrVars, due>>

(* Mutant: only the events of the loaded configuration are masked.         *)
MaskConfigured ==
  /\ phase = "unload" /\ ~InIsr /\ i = IPC_CONF_NUM
  /\ inten' = inten \ conf.enabled
  /\ phase' = "down"
  /\ UNCHANGED <<handler, conf, i, sendOn, recvOn, events, isrVars, due>>
MaskAll ==
  /\ phase = "unload" /\ ~InIsr /\ i = IPC_CONF_NUM
  /\ inten' = {}
  /\ phase' = "down"
  /\ UNCHANGED <<handler, conf, i, sendOn, recvOn, events, isrVars, due>>

-----------------------------------------------------------------------------
(* ipc_intr, which is nrfx_ipc_irq_handler *)

INTPEND == events \cap inten

IrqEnter ==
  /\ ~InIsr /\ INTPEND # {}
  /\ pending' = INTPEND
  /\ isr' = "scan"
  /\ UNCHANGED <<libVars, recvOn, inten, events, call, due>>

(* The lowest channel left in the snapshot: its event is cleared, ...      *)
Lowest(c) == c \in pending /\ \A d \in pending : c <= d

ClearEvent(c) ==
  /\ isr = "scan" /\ Lowest(c)
  /\ events' = events \ {c}
  /\ isr' = "cleared"
  /\ UNCHANGED <<libVars, recvOn, inten, pending, call, due>>

(* ... then the handler is called with its index.                          *)
CallHandler(c) ==
  /\ isr = "cleared" /\ Lowest(c)
  /\ call' = [channel |-> c, arg |-> c]
  /\ due' = due \ {c}
  /\ isr' = "handler"
  /\ UNCHANGED <<libVars, recvOn, inten, events, pending>>

(* Mutants: the event is (also) cleared when the handler is through with   *)
(* it; the interrupt serves one channel and leaves; it serves the same one *)
(* again.                                                                  *)
HandlerReturnStays ==
  /\ isr = "handler"
  /\ call' = NoCall /\ isr' = "scan"
  /\ UNCHANGED <<libVars, recvOn, inten, events, pending, due>>
HandlerReturnClears ==
  /\ isr = "handler"
  /\ events' = events \ {call.channel}
  /\ pending' = pending \ {call.channel}
  /\ call' = NoCall /\ isr' = "scan"
  /\ UNCHANGED <<libVars, recvOn, inten, due>>
HandlerReturnLeaves ==
  /\ isr = "handler"
  /\ pending' = {}
  /\ call' = NoCall /\ isr' = "scan"
  /\ UNCHANGED <<libVars, recvOn, inten, events, due>>
HandlerReturn ==
  /\ isr = "handler"
  /\ pending' = pending \ {call.channel}
  /\ call' = NoCall
  /\ isr' = "scan"
  /\ UNCHANGED <<libVars, recvOn, inten, events, due>>

IrqExit ==
  /\ isr = "scan" /\ pending = {}
  /\ isr' = "out"
  /\ UNCHANGED <<libVars, recvOn, inten, events, pending, call, due>>

(* What the driver's own interrupt would have passed through cb, the       *)
(* callback that nrfx_ipc_config_load registers with it.                   *)
cb(ev_id) == 2 ^ ev_id

-----------------------------------------------------------------------------
Init ==
  /\ handler = NULL /\ phase = "down"
  /\ conf \in Configs
  /\ i = 0
  /\ sendOn = {} /\ recvOn = {} /\ inten = {} /\ events = {}
  /\ isr = "out" /\ pending = {} /\ call = NoCall
  /\ due = {}

Library ==
  \/ nrfx_ipc_init
  \/ \E p_config \in Configs : nrfx_ipc_config_load(p_config)
  \/ ConfigureRecv
  \/ EnableConfigured
  \/ \E c \in Channels : nrfx_ipc_receive_event_enable(c)
  \/ \E c \in Channels : nrfx_ipc_receive_event_disable(c)
  \/ nrfx_ipc_uninit
  \/ DeconfigureRecv
  \/ MaskAll

Irq ==
  \/ IrqEnter
  \/ \E c \in Channels : ClearEvent(c)
  \/ \E c \in Channels : CallHandler(c)
  \/ HandlerReturn
  \/ IrqExit

Next ==
  \/ \E c \in Channels : Raise(c)
  \/ Library
  \/ Irq

Spec == Init /\ [][Next]_vars

(* A pending interrupt is taken and its handler returns.  Nothing obliges  *)
(* the modem or the library to do anything.                                *)
FairSpec == Spec /\ WF_vars(Irq)

-----------------------------------------------------------------------------
(* Properties *)

(* Types: the registers and the loops of nrfx_ipc.c stay within the        *)
(* channels, and a handler call is always for one of them.                 *)
TypeOK ==
  /\ handler \in {NULL, LibHandler}
  /\ phase \in {"down", "inited", "load", "running", "unload"}
  /\ conf \in Config
  /\ i \in 0 .. IPC_CONF_NUM
  /\ sendOn \subseteq Channels /\ recvOn \subseteq Channels
  /\ inten \subseteq Channels /\ events \subseteq Channels
  /\ isr \in {"out", "scan", "cleared", "handler"}
  /\ pending \subseteq Channels
  /\ call.channel \in Channels \cup {NULL}
  /\ isr = "handler" => call.channel \in Channels
  /\ due \subseteq Channels

(* nrfx_ipc_irq_handler loses no event: one raised after its channel's     *)
(* last handler call is still in the EVENTS register, or is the one just   *)
(* cleared for the call about to be made.  The modem raises it at any      *)
(* moment, and across uninit and init.                                     *)
NoEventLost ==
  \A c \in due : c \in events \/ (isr = "cleared" /\ Lowest(c))

(* m_ipc_cb.handler is never called while it is NULL: not before           *)
(* nrfx_ipc_init has set it, nor while nrfx_ipc_uninit takes the           *)
(* configuration down under interrupts that are still enabled.             *)
NoNullCall == InIsr => handler # NULL

(* When nrfx_ipc_uninit has returned the driver is silent, also if the     *)
(* handler switched an event on while uninit ran: nothing is configured,   *)
(* nothing enabled, and no call of the handler is under way.               *)
QuietWhenDown ==
  phase = "down" => recvOn = {} /\ sendOn = {} /\ inten = {} /\ ~InIsr

(* Every event that is raised reaches the handler, unless its channel is   *)
(* disabled meanwhile: no channel starves behind busier ones               *)
(* (the loop of nrfx_ipc_irq_handler serves the whole snapshot).           *)
EventServed ==
  \A c \in Channels : c \in due ~> (c \notin due \/ c \notin inten)

(* The typedef of the handler names its first parameter event_mask, and cb *)
(* passes one; nrfx_ipc_irq_handler passes the index.                      *)
HandlerGetsEventMask ==
  isr = "handler" => call.arg = cb(call.channel)

(* The inductive invariant behind the theorems of NrfxIpcProofs: how far   *)
(* nrfx_ipc_config_load and nrfx_ipc_uninit are says what can be enabled.  *)
IpcInv ==
  /\ TypeOK /\ NoEventLost /\ QuietWhenDown
  /\ phase # "down" => handler = LibHandler
  /\ phase \in {"down", "inited", "load"} => inten = {} /\ ~InIsr
  /\ phase = "inited" => recvOn = {} /\ sendOn = {}
  /\ phase = "unload" => sendOn = {} /\ \A c \in recvOn : c >= i
  /\ isr = "handler" => Lowest(call.channel)
  /\ isr = "cleared" => \E c \in Channels : Lowest(c)

=============================================================================
