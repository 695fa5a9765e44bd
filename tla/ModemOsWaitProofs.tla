------------------------- MODULE ModemOsWaitProofs -------------------------
(***************************************************************************)
(* Theorems about ModemOsWait, for any number of threads, any timeouts and *)
(* any number of shutdowns and re-initializations.  WaitInv is inductive;  *)
(* each of its parts is shown to be preserved in a lemma of its own, and   *)
(* the theorems follow.                                                    *)
(***************************************************************************)
EXTENDS ModemOsWaitRefines, TLAPS

(* A product stored in an int is an integer. *)
LEMMA Int32Type == ASSUME NEW x \in Int PROVE Int32(x) \in Int
  BY WaitAssumption DEF Int32

(* Tmout, the conversion of a timeout to microseconds, yields an int. *)
LEMMA TmoutType == ASSUME NEW v \in Timeouts PROVE Tmout(v) \in Int
<1>1. v \in Int /\ UsPerMs \in Int /\ CapUs \in Int
  BY WaitAssumption
<1>2. v * UsPerMs \in Int
  BY <1>1
<1> QED
  BY <1>1, <1>2, Int32Type DEF Tmout

(* NoFrame is no frame: a semaphore never counts below zero. *)
LEMMA FrameNotNoFrame == NoFrame \notin Td
<1>1. \A f \in Td : f.sem \in Nat
  BY DEF Td
<1>2. NoFrame.sem = -1
  BY DEF NoFrame
<1> QED
  BY <1>1, <1>2

(* A frame after mdx_sem_post; b says whether its thread is still waiting. *)
Posted(f, b) == [f EXCEPT !.sem = @ + 1, !.posted = @ \/ b]

(* A post leaves a frame a frame and records itself in it. *)
LEMMA PostedType ==
  ASSUME NEW f \in Td, NEW b \in BOOLEAN
  PROVE  /\ Posted(f, b) \in Td
         /\ Posted(f, b).sem = f.sem + 1 /\ Posted(f, b).err = f.err
         /\ Posted(f, b).val = f.val /\ Posted(f, b).context = f.context
         /\ Posted(f, b).posted <=> (f.posted \/ b)
<1> DEFINE G(p) == [f EXCEPT !.sem = f.sem + 1, !.posted = p]
<1>1. G(TRUE) \in Td /\ G(FALSE) \in Td
  <2>1. f.sem + 1 \in Nat
    BY DEF Td
  <2> QED
    BY <2>1, Zenon DEF Td
<1>2. ASSUME NEW p \in BOOLEAN
      PROVE  /\ G(p).sem = f.sem + 1 /\ G(p).err = f.err /\ G(p).val = f.val
             /\ G(p).context = f.context /\ G(p).posted = p
  BY Zenon DEF Td
<1>3. Posted(f, b) = G(f.posted \/ b)
  BY Zenon DEF Posted
<1>4. (f.posted \/ b) \in BOOLEAN
  OBVIOUS
<1> HIDE DEF G
<1> QED
  BY <1>1, <1>2, <1>3, <1>4, Zenon

(* The body of either walk's loop leaves frames frames and NoFrame alone.  *)
LEMMA PostType ==
  ASSUME TypeOK, NEW w, walk[w].cur \in Threads, Post(w)
  PROVE  /\ td' \in [Threads -> Td \cup {NoFrame}]
         /\ \A t \in Threads : pc[t] # "idle" <=> td'[t] \in Td
<1> USE DEF TypeOK
<1> DEFINE n == walk[w].cur
           b == pc[n] \in {"ready", "queued"}
<1>1. CASE td' = td
  BY <1>1
<1>2. CASE pc[n] # "idle" /\ mdx_sem_post(n)
  <2>1. td[n] \in Td
    BY <1>2
  <2>2. td' = [td EXCEPT ![n] = Posted(td[n], b)]
    BY <1>2 DEF mdx_sem_post, Posted
  <2>3. Posted(td[n], b) \in Td
    <3>1. b \in BOOLEAN
      OBVIOUS
    <3> QED
      BY <2>1, <3>1, PostedType, Zenon
  <2> QED
    BY <1>2, <2>2, <2>3
<1> QED
  BY <1>1, <1>2 DEF Post

(* In the initial state nobody is in nrf_modem_os_timedwait, so all parts  *)
(* of the invariant hold.                                                  *)
LEMMA InitInv == Init => WaitInv
<1> SUFFICES ASSUME Init PROVE WaitInv
  OBVIOUS
<1>1. TypeOK
  BY FrameNotNoFrame, WaitAssumption
  DEF Init, TypeOK, Nodes, Walkers, Cursor
<1> QED
  BY <1>1, WaitAssumption
  DEF Init, WaitInv, SetUp, NoDangling, LinksAgree, IsrWalkSafe, PostedAgrees,
      InIsr, Walkers, Ring, Linked, ListWhole, IsrOnList

(* Every action keeps the types, and a frame with every thread inside      *)
(* nrf_modem_os_timedwait.                                                 *)
LEMMA TypeStep == TypeOK /\ [Next]_vars => TypeOK'
<1> SUFFICES ASSUME TypeOK, [Next]_vars PROVE TypeOK'
  OBVIOUS
<1> USE DEF TypeOK
<1>1. CASE nrf_modem_os_init
  BY <1>1, WaitAssumption DEF nrf_modem_os_init, list_init, Nodes
<1>2. CASE ModemInitDone
  BY <1>2 DEF ModemInitDone
<1>3. CASE nrf_modem_os_shutdown
  <2>1. td_first \in Threads \cup {NULL}
    BY WaitAssumption DEF td_first, Nodes
  <2>2. walk' \in [Walkers -> Cursor]
    BY <1>3, <2>1, WaitAssumption DEF nrf_modem_os_shutdown, Cursor
  <2> QED
    BY <1>3, <2>2 DEF nrf_modem_os_shutdown
<1>4. ASSUME NEW c \in Contexts, nrf_modem_os_event_notify(c)
      PROVE  TypeOK'
  <2>1. td_first \in Threads \cup {NULL}
    BY WaitAssumption DEF td_first, Nodes
  <2>2. walk' \in [Walkers -> Cursor]
    BY <1>4, <2>1 DEF nrf_modem_os_event_notify, Cursor
  <2> QED
    BY <1>4, <2>2 DEF nrf_modem_os_event_notify
<1>a. "isr" \in Walkers /\ "shutdown" \in Walkers
  BY DEF Walkers
<1>b. \A n \in Threads : Successors(n) \subseteq Threads \cup {NULL}
  BY WaitAssumption DEF Successors, td_next, Nodes
<1>5. CASE NotifyTurn
  <2> DEFINE n == walk["isr"].cur
  <2>1. n \in Threads
    BY <1>5, <1>a DEF NotifyTurn, InIsr, Cursor
  <2>2. PICK m \in Successors(n) : walk' = [walk EXCEPT !["isr"].cur = m]
    BY <1>5 DEF NotifyTurn
  <2>3. walk' \in [Walkers -> Cursor]
    BY <1>a, <1>b, <2>1, <2>2 DEF Cursor
  <2>4. td' \in [Threads -> Td \cup {NoFrame}]
        /\ \A t \in Threads : pc[t] # "idle" <=> td'[t] \in Td
    BY <1>5, <2>1, PostType DEF NotifyTurn
  <2> QED
    BY <1>5, <2>3, <2>4 DEF NotifyTurn
<1>8. CASE ShutdownPost
  <2>1. walk["shutdown"].cur \in Threads
    BY <1>8, <1>a DEF ShutdownPost, Cursor
  <2>2. walk' \in [Walkers -> Cursor]
    BY <1>8, <1>a DEF ShutdownPost, Cursor
  <2>3. td' \in [Threads -> Td \cup {NoFrame}]
        /\ \A t \in Threads : pc[t] # "idle" <=> td'[t] \in Td
    BY <1>8, <2>1, PostType DEF ShutdownPost
  <2> QED
    BY <1>8, <2>2, <2>3 DEF ShutdownPost
<1>9. CASE ShutdownNext
  <2> DEFINE n == walk["shutdown"].cur
  <2>1. n \in Threads
    BY <1>9, <1>a DEF ShutdownNext, Cursor
  <2>2. PICK m \in Successors(n) :
          walk' = [walk EXCEPT !["shutdown"].cur = m, !["shutdown"].posted = FALSE]
    BY <1>9 DEF ShutdownNext
  <2> DEFINE s == [walk["shutdown"] EXCEPT !.cur = m, !.posted = FALSE]
  <2>3. walk' = [walk EXCEPT !["shutdown"] = s]
    BY <2>2
  <2>4. s \in Cursor
    BY <1>a, <1>b, <2>1 DEF Cursor
  <2>5. walk' \in [Walkers -> Cursor]
    BY <1>a, <2>3, <2>4
  <2> QED
    BY <1>9, <2>5 DEF ShutdownNext
<1>6. ASSUME NEW t \in Threads, Timedwait(t)
      PROVE  TypeOK'
  <2>1. CASE Refuse(t) \/ Poll(t)
    BY <2>1 DEF Refuse, Poll
  <2>2. ASSUME NEW c \in Contexts, NEW v \in Timeouts, Prepare(t, c, v)
        PROVE  TypeOK'
    <3>1. [sem |-> 0, context |-> c, val |-> v, tmout |-> Tmout(v),
           err |-> 0, posted |-> FALSE] \in Td
      BY TmoutType DEF Td
    <3> QED
      BY <2>2, <3>1 DEF Prepare, Nodes
  <2>3. CASE Enqueue(t)
    BY <2>3 DEF Enqueue, list_append, Nodes
  <2>4. CASE SemTake(t)
    <3>a. td[t] \in Td /\ td[t].sem - 1 \in Nat
      BY <2>4 DEF SemTake, Td
    <3>1. [td[t] EXCEPT !.sem = td[t].sem - 1, !.err = 1] \in Td
      BY <3>a DEF Td
    <3>2. td' = [td EXCEPT ![t] = [td[t] EXCEPT !.sem = td[t].sem - 1, !.err = 1]]
      BY <2>4 DEF SemTake
    <3> QED
      BY <2>4, <3>1, <3>2 DEF SemTake
  <2>5. CASE SemTimeout(t)
    <3>1. [td[t] EXCEPT !.err = 0] \in Td
      BY <2>5 DEF SemTimeout, Td
    <3> QED
      BY <2>5, <3>1 DEF SemTimeout
  <2>6. CASE Dequeue(t)
    BY <2>6 DEF Dequeue, list_remove, Nodes
  <2>7. CASE Return(t)
    <3>1. Result(td[t]) \in {OK, EAGAIN, ESHUTDOWN}
      BY DEF Result
    <3> QED
      BY <2>7, <3>1, FrameNotNoFrame DEF Return, Nodes
  <2> QED
    BY <1>6, <2>1, <2>2, <2>3, <2>4, <2>5, <2>6, <2>7 DEF Timedwait
<1>7. CASE UNCHANGED vars
  BY <1>7 DEF vars
<1> QED
  BY <1>1, <1>2, <1>3, <1>4, <1>5, <1>6, <1>7, <1>8, <1>9 DEF Next

(* nrf_modem_os_init has run before the modem is up, so before any thread  *)
(* gets past the first test of nrf_modem_os_timedwait; and it does not run *)
(* while nrf_modem_os_shutdown walks.                                      *)
LEMMA SetUpStep == TypeOK /\ SetUp /\ [Next]_vars => SetUp'
<1> SUFFICES ASSUME TypeOK, SetUp, [Next]_vars PROVE SetUp'
  OBVIOUS
<1> USE DEF SetUp, TypeOK
<1>1. CASE nrf_modem_os_init
  BY <1>1 DEF nrf_modem_os_init
<1>2. CASE ModemInitDone
  BY <1>2 DEF ModemInitDone
<1>3. CASE nrf_modem_os_shutdown
  BY <1>3 DEF nrf_modem_os_shutdown
<1>4. ASSUME NEW c \in Contexts, nrf_modem_os_event_notify(c) PROVE SetUp'
  <2>1. walk'["shutdown"] = walk["shutdown"]
    BY <1>4 DEF nrf_modem_os_event_notify, Walkers
  <2> QED
    BY <1>4, <2>1 DEF nrf_modem_os_event_notify
<1>5. CASE NotifyTurn
  <2>1. walk'["shutdown"] = walk["shutdown"]
    BY <1>5 DEF NotifyTurn, Walkers
  <2> QED
    BY <1>5, <2>1 DEF NotifyTurn
<1>8. CASE ShutdownPost
  <2>1. walk'["shutdown"].context = walk["shutdown"].context
    BY <1>8 DEF ShutdownPost, Walkers, Cursor
  <2> QED
    BY <1>8, <2>1 DEF ShutdownPost
<1>9. CASE ShutdownNext
  <2>1. PICK m : walk' = [walk EXCEPT !["shutdown"] =
                            [walk["shutdown"] EXCEPT !.cur = m, !.posted = FALSE]]
    BY <1>9 DEF ShutdownNext
  <2>2. walk'["shutdown"] = [walk["shutdown"] EXCEPT !.cur = m, !.posted = FALSE]
    BY <2>1 DEF Walkers
  <2>3. walk'["shutdown"].context = walk["shutdown"].context
    BY <2>2 DEF Walkers, Cursor
  <2> QED
    BY <1>9, <2>3 DEF ShutdownNext
<1>6. ASSUME NEW t \in Threads, Timedwait(t) PROVE SetUp'
  BY <1>6 DEF Timedwait, Refuse, Poll, Prepare, Enqueue, SemTake, SemTimeout,
              Dequeue, Return, nrf_modem_is_initialized
<1>7. CASE UNCHANGED vars
  BY <1>7 DEF vars
<1> QED
  BY <1>1, <1>2, <1>3, <1>4, <1>5, <1>6, <1>7, <1>8, <1>9 DEF Next

(* list_append on a closed ring with agreeing links yields another one.    *)
LEMMA AppendKeepsRing ==
  ASSUME TypeOK, SetUp, NoDangling, LinksAgree, NEW t \in Threads, Enqueue(t)
  PROVE  NoDangling' /\ LinksAgree'
<1> DEFINE p == prv[Head]
<1>1. Ring' = Ring \cup {t} /\ t \notin Ring /\ Head \in Ring
  BY WaitAssumption DEF Enqueue, TypeOK, Ring, Linked
<1>2. inits > 0 /\ Ring \subseteq Nodes /\ p \in Ring
  BY <1>1 DEF Enqueue, TypeOK, SetUp, NoDangling, Ring, Nodes
<1>3. /\ nxt' = [nxt EXCEPT ![t] = Head, ![p] = t]
      /\ prv' = [prv EXCEPT ![t] = p, ![Head] = t]
  BY DEF Enqueue, list_append
<1>4. /\ nxt'[t] = Head /\ nxt'[p] = t
      /\ prv'[t] = p /\ prv'[Head] = t
      /\ \A n \in Ring \ {p} : nxt'[n] = nxt[n]
      /\ \A n \in Ring \ {Head} : prv'[n] = prv[n]
  BY <1>1, <1>2, <1>3, WaitAssumption DEF TypeOK, Nodes
<1>5. \A n \in Ring : nxt[n] \in Ring /\ prv[n] \in Ring
  BY <1>2 DEF NoDangling
<1>6. NoDangling'
  BY <1>1, <1>2, <1>4, <1>5 DEF NoDangling
<1>7. \A n \in Ring, s \in Ring \ {Head} :
        (nxt[n] = s => prv[s] = n) /\ (prv[n] = s => nxt[s] = n)
  BY <1>2 DEF LinksAgree, Ring
<1>8. \A n \in Ring', s \in Ring' \ {Head} :
        (nxt'[n] = s => prv'[s] = n) /\ (prv'[n] = s => nxt'[s] = n)
  BY <1>1, <1>2, <1>4, <1>5, <1>7
<1> QED
  BY <1>6, <1>8, WaitAssumption DEF LinksAgree, Ring

(* So does list_remove, of any linked node, even of one that a second      *)
(* nrf_modem_os_init has cut off from the head.                            *)
LEMMA RemoveKeepsRing ==
  ASSUME TypeOK, SetUp, NoDangling, LinksAgree, NEW t \in Threads, Dequeue(t)
  PROVE  NoDangling' /\ LinksAgree'
<1> DEFINE p == prv[t]
           q == nxt[t]
<1>1. Ring' = Ring \ {t} /\ t \in Ring /\ Head # t
  BY WaitAssumption DEF Dequeue, TypeOK, Ring, Linked
<1>2. inits > 0 /\ Ring \subseteq Nodes /\ p \in Ring /\ q \in Ring
  BY <1>1 DEF Dequeue, TypeOK, SetUp, NoDangling, Ring, Nodes
<1>3. nxt' = [nxt EXCEPT ![p] = q] /\ prv' = [prv EXCEPT ![q] = p]
  BY DEF Dequeue, list_remove
<1>4. /\ nxt'[p] = q /\ prv'[q] = p
      /\ \A n \in Ring \ {p} : nxt'[n] = nxt[n]
      /\ \A n \in Ring \ {q} : prv'[n] = prv[n]
  BY <1>2, <1>3 DEF TypeOK
<1>5. \A n \in Ring : nxt[n] \in Ring /\ prv[n] \in Ring
  BY <1>2 DEF NoDangling
<1>6. \A n \in Ring, s \in Ring \ {Head} :
        (nxt[n] = s => prv[s] = n) /\ (prv[n] = s => nxt[s] = n)
  BY <1>2 DEF LinksAgree, Ring
<1>7. NoDangling'
  BY <1>1, <1>2, <1>4, <1>5, <1>6 DEF NoDangling
<1>8. \A n \in Ring', s \in Ring' \ {Head} :
        (nxt'[n] = s => prv'[s] = n) /\ (prv'[n] = s => nxt'[s] = n)
  BY <1>1, <1>2, <1>4, <1>5, <1>6
<1> QED
  BY <1>7, <1>8, WaitAssumption DEF LinksAgree, Ring

(* Every action keeps the ring closed and its links in agreement.          *)
LEMMA RingStep ==
  TypeOK /\ SetUp /\ NoDangling /\ LinksAgree /\ [Next]_vars
    => NoDangling' /\ LinksAgree'
<1> SUFFICES ASSUME TypeOK, SetUp, NoDangling, LinksAgree, [Next]_vars
             PROVE  NoDangling' /\ LinksAgree'
  OBVIOUS
<1>1. CASE nrf_modem_os_init
  <2>1. nxt' = [nxt EXCEPT ![Head] = Head] /\ prv' = [prv EXCEPT ![Head] = Head]
        /\ pc' = pc
    BY <1>1 DEF nrf_modem_os_init, list_init
  <2>2. Ring' = Ring /\ Head \in Ring /\ Ring \subseteq Nodes
    BY <2>1 DEF Ring, Linked, Nodes
  <2>3. nxt'[Head] = Head /\ prv'[Head] = Head
        /\ \A n \in Ring \ {Head} : nxt'[n] = nxt[n] /\ prv'[n] = prv[n]
    BY <2>1, <2>2 DEF TypeOK, Nodes
  <2>4. \A n \in Ring \ {Head} : inits > 0
    BY DEF Ring, Linked, SetUp
  <2>5. NoDangling'
    BY <2>2, <2>3, <2>4 DEF NoDangling
  <2>6. LinksAgree'
    BY <2>1, <2>2, <2>3, <2>4, WaitAssumption DEF LinksAgree, Ring, Linked
  <2> QED
    BY <2>5, <2>6
<1>2. CASE ModemInitDone \/ nrf_modem_os_shutdown
  BY <1>2 DEF ModemInitDone, nrf_modem_os_shutdown, NoDangling, LinksAgree,
              Ring, Linked
<1>3. ASSUME NEW c \in Contexts, nrf_modem_os_event_notify(c)
      PROVE  NoDangling' /\ LinksAgree'
  BY <1>3 DEF nrf_modem_os_event_notify, NoDangling, LinksAgree, Ring, Linked
<1>4. CASE NotifyTurn \/ ShutdownPost \/ ShutdownNext
  BY <1>4 DEF NotifyTurn, ShutdownPost, ShutdownNext, NoDangling, LinksAgree,
              Ring, Linked
<1>5. ASSUME NEW t \in Threads, Timedwait(t)
      PROVE  NoDangling' /\ LinksAgree'
  <2>1. CASE Refuse(t) \/ Poll(t)
    BY <2>1 DEF Refuse, Poll, NoDangling, LinksAgree, Ring, Linked
  <2>2. CASE Return(t) \/ \E c \in Contexts, v \in Timeouts : Prepare(t, c, v)
    <3>1. Ring' = Ring /\ t \notin Ring /\ inits' = inits
      BY <2>2, WaitAssumption DEF Prepare, Return, TypeOK, Ring, Linked
    <3>2. \A n \in Ring : nxt'[n] = nxt[n] /\ prv'[n] = prv[n]
      BY <2>2, <3>1 DEF Prepare, Return, TypeOK, Nodes, Ring
    <3> QED
      BY <3>1, <3>2, WaitAssumption DEF NoDangling, LinksAgree, Ring
  <2>3. CASE Enqueue(t)
    BY <2>3, AppendKeepsRing
  <2>4. CASE SemTake(t) \/ SemTimeout(t)
    <3>1. Ring' = Ring /\ UNCHANGED <<nxt, prv, inits>>
      BY <2>4 DEF SemTake, SemTimeout, TypeOK, Ring, Linked
    <3> QED
      BY <3>1, WaitAssumption DEF NoDangling, LinksAgree, Ring
  <2>5. CASE Dequeue(t)
    BY <2>5, RemoveKeepsRing
  <2> QED
    BY <1>5, <2>1, <2>2, <2>3, <2>4, <2>5 DEF Timedwait
<1>6. CASE UNCHANGED vars
  BY <1>6 DEF vars, NoDangling, LinksAgree, Ring, Linked
<1> QED
  BY <1>1, <1>2, <1>3, <1>4, <1>5, <1>6 DEF Next

(* The interrupt's walk starts and goes on at linked nodes, and nothing    *)
(* unlinks one while it runs.                                              *)
LEMMA IsrWalkStep ==
  TypeOK /\ NoDangling /\ IsrWalkSafe /\ SetUp /\ [Next]_vars => IsrWalkSafe'
<1> SUFFICES ASSUME TypeOK, NoDangling, IsrWalkSafe, SetUp, [Next]_vars
             PROVE  IsrWalkSafe'
  OBVIOUS
<1> USE DEF IsrWalkSafe, InIsr
<1>a. "isr" \in Walkers /\ "shutdown" \in Walkers
  BY DEF Walkers
<1>1. CASE nrf_modem_os_init \/ ModemInitDone
  BY <1>1 DEF nrf_modem_os_init, ModemInitDone, Linked
<1>2. CASE nrf_modem_os_shutdown
  BY <1>2, <1>a DEF nrf_modem_os_shutdown, TypeOK
<1>3. ASSUME NEW c \in Contexts, nrf_modem_os_event_notify(c)
      PROVE  IsrWalkSafe'
  <2>1. nxt[Head] \in Ring /\ nxt[Head] # Head /\ td_first = nxt[Head]
    BY <1>3 DEF nrf_modem_os_event_notify, td_first, NoDangling, Ring, TypeOK
  <2>2. walk'["isr"].cur = nxt[Head] /\ pc' = pc
    BY <1>3, <1>a, <2>1 DEF nrf_modem_os_event_notify, TypeOK
  <2> QED
    BY <2>1, <2>2 DEF Ring, Linked
<1>4. CASE NotifyTurn
  <2> DEFINE n == walk["isr"].cur
  <2>1. n \in Threads /\ Linked(n) /\ pc[n] # "idle"
    BY <1>4, <1>a DEF NotifyTurn, TypeOK, Cursor, Linked
  <2>2. walk'["isr"].cur = td_next(n) /\ pc' = pc
    BY <1>4, <1>a, <2>1 DEF NotifyTurn, Successors, TypeOK, Cursor
  <2>3. inits > 0 /\ n \in Ring
    BY <2>1 DEF SetUp, Ring
  <2>4. nxt[n] \in Ring
    BY <2>3 DEF NoDangling
  <2> QED
    BY <2>2, <2>4 DEF td_next, Ring, Linked
<1>7. CASE ShutdownPost \/ ShutdownNext
  BY <1>7, <1>a DEF ShutdownPost, ShutdownNext, TypeOK
<1>5. ASSUME NEW t \in Threads, Timedwait(t) PROVE IsrWalkSafe'
  BY <1>5 DEF Timedwait, Refuse, Poll, Prepare, Enqueue, SemTake, SemTimeout,
              Dequeue, Return
<1>6. CASE UNCHANGED vars
  BY <1>6 DEF vars, Linked
<1> QED
  BY <1>1, <1>2, <1>3, <1>4, <1>5, <1>6, <1>7 DEF Next

(* posted follows the semaphore while the thread waits, and err after.     *)
LEMMA PostedStep == TypeOK /\ PostedAgrees /\ [Next]_vars => PostedAgrees'
<1> SUFFICES ASSUME TypeOK, PostedAgrees, [Next]_vars PROVE PostedAgrees'
  OBVIOUS
<1> DEFINE P(t) ==
      /\ pc[t] \in {"ready", "queued"} => (td[t].posted <=> td[t].sem > 0)
      /\ pc[t] \in {"awake", "unlinked"} => (td[t].posted <=> td[t].err = 1)
      /\ pc[t] # "idle" => td[t].val # 0
<1>1. CASE UNCHANGED <<pc, td>>
  BY <1>1 DEF PostedAgrees
<1>2. CASE NotifyTurn \/ ShutdownPost
  <2>0. PICK n \in Threads : td' = td \/ (pc[n] # "idle" /\ mdx_sem_post(n))
    BY <1>2 DEF NotifyTurn, ShutdownPost, Post, InIsr, TypeOK, Cursor, Walkers
  <2>1. CASE td' = td
    BY <1>1, <1>2, <2>1 DEF NotifyTurn, ShutdownPost
  <2>2. CASE pc[n] # "idle" /\ mdx_sem_post(n)
    <3> DEFINE b == pc[n] \in {"ready", "queued"}
    <3>1. n \in Threads /\ td[n] \in Td /\ pc' = pc
      BY <1>2, <2>2 DEF NotifyTurn, ShutdownPost, TypeOK
    <3>2. td' = [td EXCEPT ![n] = Posted(td[n], b)]
      BY <3>1, <2>2 DEF mdx_sem_post, Posted
    <3>3. td'[n] = Posted(td[n], b) /\ \A t \in Threads \ {n} : td'[t] = td[t]
      BY <3>1, <3>2 DEF TypeOK
    <3>4. \A t \in Threads \ {n} : P(t)'
      BY <3>1, <3>3 DEF PostedAgrees
    <3>5. P(n)'
      <4>1. b \in BOOLEAN
        OBVIOUS
      <4> HIDE DEF b
      <4>2. /\ td'[n].sem = td[n].sem + 1 /\ td'[n].err = td[n].err
            /\ td'[n].val = td[n].val
            /\ td'[n].posted <=> (td[n].posted \/ b)
        <5>1. td[n] \in Td /\ td'[n] = Posted(td[n], b)
          BY <3>1, <3>3
        <5>2. /\ Posted(td[n], b).sem = td[n].sem + 1
              /\ Posted(td[n], b).err = td[n].err
              /\ Posted(td[n], b).val = td[n].val
              /\ Posted(td[n], b).posted <=> (td[n].posted \/ b)
          BY <5>1, <4>1, PostedType
        <5> QED
          BY <5>1, <5>2
      <4>3. td[n].sem \in Nat
        BY <3>1 DEF Td
      <4> QED
        BY <3>1, <4>2, <4>3 DEF PostedAgrees, b
    <3> QED
      BY <3>4, <3>5 DEF PostedAgrees
  <2> QED
    BY <2>0, <2>1, <2>2
<1>3. ASSUME NEW t \in Threads, Timedwait(t) PROVE PostedAgrees'
  <2>1. CASE Refuse(t) \/ Poll(t)
    BY <1>1, <2>1 DEF Refuse, Poll
  <2>2. ASSUME NEW c \in Contexts, NEW v \in Timeouts, Prepare(t, c, v)
        PROVE  PostedAgrees'
    BY <2>2 DEF Prepare, PostedAgrees, TypeOK
  <2>3. CASE Enqueue(t) \/ Dequeue(t)
    BY <2>3 DEF Enqueue, Dequeue, PostedAgrees, TypeOK
  <2>4. CASE SemTake(t)
    BY <2>4 DEF SemTake, PostedAgrees, TypeOK, Td
  <2>5. CASE SemTimeout(t)
    BY <2>5 DEF SemTimeout, PostedAgrees, TypeOK, Td
  <2>6. CASE Return(t)
    BY <2>6 DEF Return, PostedAgrees, TypeOK
  <2> QED
    BY <1>3, <2>1, <2>2, <2>3, <2>4, <2>5, <2>6 DEF Timedwait
<1> QED
  BY <1>1, <1>2, <1>3 DEF Next, vars, nrf_modem_os_init, ModemInitDone,
     nrf_modem_os_shutdown, nrf_modem_os_event_notify, ShutdownNext

(* list_append puts the new node behind all others of the ring.            *)
LEMMA AppendKeepsWhole ==
  ASSUME TypeOK, SetUp, NoDangling, ListWhole, NEW t \in Threads, Enqueue(t)
  PROVE  ListWhole'
<1> DEFINE p == prv[Head]
<1>1. Ring' = Ring \cup {t} /\ t \notin Ring /\ Head \in Ring /\ inits' = inits
  BY WaitAssumption DEF Enqueue, TypeOK, Ring, Linked
<1>2. inits > 0 /\ Ring \subseteq Nodes /\ p \in Ring
  BY <1>1 DEF Enqueue, TypeOK, SetUp, NoDangling, Ring, Nodes
<1>3. /\ nxt' = [nxt EXCEPT ![t] = Head, ![p] = t]
      /\ prv' = [prv EXCEPT ![t] = p, ![Head] = t]
  BY DEF Enqueue, list_append
<1>4. /\ nxt'[t] = Head /\ nxt'[p] = t
      /\ prv'[t] = p /\ prv'[Head] = t
      /\ \A n \in Ring \ {p} : nxt'[n] = nxt[n]
      /\ \A n \in Ring \ {Head} : prv'[n] = prv[n]
  BY <1>1, <1>2, <1>3, WaitAssumption DEF TypeOK, Nodes
<1>5. \A n \in Ring : nxt[n] \in Ring /\ prv[n] \in Ring
  BY <1>2 DEF NoDangling
<1> SUFFICES ASSUME inits = 1
             PROVE  /\ \A n \in Ring' : prv'[nxt'[n]] = n /\ nxt'[prv'[n]] = n
                    /\ \A S \in SUBSET Ring' : Head \in S /\ Closed(S)' => S = Ring'
  BY <1>1 DEF ListWhole
<1>6. /\ \A n \in Ring : prv[nxt[n]] = n /\ nxt[prv[n]] = n
      /\ \A S \in SUBSET Ring : Head \in S /\ Closed(S) => S = Ring
  BY DEF ListWhole
<1>7. \A n \in Ring' : prv'[nxt'[n]] = n /\ nxt'[prv'[n]] = n
  BY <1>1, <1>2, <1>4, <1>5, <1>6
<1>8. ASSUME NEW S \in SUBSET Ring', Head \in S, Closed(S)' PROVE S = Ring'
  <2> DEFINE R == S \ {t}
  <2>1. R \in SUBSET Ring /\ Head \in R
    BY <1>1, <1>8
  <2>2. \A n \in S : nxt'[n] \in S
    BY <1>8 DEF Closed
  <2>3. \A n \in R : nxt[n] \in R
    BY <1>1, <1>2, <1>4, <1>5, <1>6, <2>1, <2>2
  <2>4. R = Ring
    <3> HIDE DEF R
    <3> QED
      BY <2>1, <2>3, <1>6 DEF Closed
  <2>5. t \in S
    BY <1>2, <1>4, <2>2, <2>4
  <2> QED
    BY <1>1, <2>4, <2>5
<1> QED
  BY <1>7, <1>8

(* list_remove takes one node out of the ring and leaves the others in.    *)
LEMMA RemoveKeepsWhole ==
  ASSUME TypeOK, SetUp, NoDangling, ListWhole, NEW t \in Threads, Dequeue(t)
  PROVE  ListWhole'
<1> DEFINE p == prv[t]
           q == nxt[t]
<1>1. Ring' = Ring \ {t} /\ t \in Ring /\ Head # t /\ Head \in Ring /\ inits' = inits
  BY WaitAssumption DEF Dequeue, TypeOK, Ring, Linked
<1>2. inits > 0 /\ Ring \subseteq Nodes /\ p \in Ring /\ q \in Ring
  BY <1>1 DEF Dequeue, TypeOK, SetUp, NoDangling, Ring, Nodes
<1>3. nxt' = [nxt EXCEPT ![p] = q] /\ prv' = [prv EXCEPT ![q] = p]
  BY DEF Dequeue, list_remove
<1>4. /\ nxt'[p] = q /\ prv'[q] = p
      /\ \A n \in Ring \ {p} : nxt'[n] = nxt[n]
      /\ \A n \in Ring \ {q} : prv'[n] = prv[n]
  BY <1>2, <1>3 DEF TypeOK
<1>5. \A n \in Ring : nxt[n] \in Ring /\ prv[n] \in Ring
  BY <1>2 DEF NoDangling
<1> SUFFICES ASSUME inits = 1
             PROVE  /\ \A n \in Ring' : prv'[nxt'[n]] = n /\ nxt'[prv'[n]] = n
                    /\ \A S \in SUBSET Ring' : Head \in S /\ Closed(S)' => S = Ring'
  BY <1>1 DEF ListWhole
<1>6. /\ \A n \in Ring : prv[nxt[n]] = n /\ nxt[prv[n]] = n
      /\ \A S \in SUBSET Ring : Head \in S /\ Closed(S) => S = Ring
  BY DEF ListWhole
<1>7. p # t
  <2> SUFFICES ASSUME p = t PROVE FALSE
    OBVIOUS
  <2> DEFINE R == Ring \ {t}
  <2>1. R \in SUBSET Ring /\ Head \in R /\ R # Ring
    BY <1>1
  <2>2. \A n \in R : nxt[n] \in R
    BY <1>5, <1>6
  <2> HIDE DEF R
  <2> QED
    BY <2>1, <2>2, <1>6 DEF Closed
<1>8. \A n \in Ring' : prv'[nxt'[n]] = n /\ nxt'[prv'[n]] = n
  BY <1>1, <1>2, <1>4, <1>5, <1>6, <1>7
<1>9. ASSUME NEW S \in SUBSET Ring', Head \in S, Closed(S)' PROVE S = Ring'
  <2>1. \A n \in S : nxt'[n] \in S /\ n \in Ring /\ n # t
    BY <1>1, <1>9 DEF Closed
  <2>2. CASE p \in S
    <3> DEFINE R == S \cup {t}
    <3>1. R \in SUBSET Ring /\ Head \in R
      BY <1>1, <1>9
    <3>2. \A n \in R : nxt[n] \in R
      BY <1>4, <1>6, <1>1, <2>1, <2>2
    <3> HIDE DEF R
    <3>3. R = Ring
      BY <3>1, <3>2, <1>6 DEF Closed
    <3> QED
      BY <1>1, <3>3, <2>1 DEF R
  <2>3. CASE p \notin S
    <3>1. \A n \in S : nxt[n] \in S
      BY <1>4, <2>1, <2>3
    <3>2. S = Ring
      BY <3>1, <1>1, <1>6, <1>9 DEF Closed
    <3> QED
      BY <2>1, <3>2, <1>1
  <2> QED
    BY <2>2, <2>3
<1> QED
  BY <1>8, <1>9

(* Nothing but a second nrf_modem_os_init breaks the ring up.              *)
LEMMA WholeStep ==
  TypeOK /\ SetUp /\ NoDangling /\ ListWhole /\ [Next]_vars => ListWhole'
<1> SUFFICES ASSUME TypeOK, SetUp, NoDangling, ListWhole, [Next]_vars
             PROVE  ListWhole'
  OBVIOUS
<1>1. ASSUME Ring' = Ring, inits' = inits,
             \A n \in Ring : nxt'[n] = nxt[n] /\ prv'[n] = prv[n]
      PROVE  ListWhole'
  <2> SUFFICES ASSUME inits = 1
               PROVE  /\ \A n \in Ring : prv'[nxt'[n]] = n /\ nxt'[prv'[n]] = n
                      /\ \A S \in SUBSET Ring : Head \in S /\ Closed(S)' => S = Ring
    BY <1>1 DEF ListWhole
  <2>1. \A n \in Ring : nxt[n] \in Ring /\ prv[n] \in Ring
    BY DEF NoDangling
  <2>2. \A S \in SUBSET Ring : Closed(S)' => Closed(S)
    BY <1>1 DEF Closed
  <2> QED
    BY <1>1, <2>1, <2>2 DEF ListWhole
<1>2. CASE nrf_modem_os_init
  <2> SUFFICES ASSUME inits' = 1 PROVE ListWhole'
    BY DEF ListWhole
  <2>1. inits = 0
    BY <1>2, WaitAssumption DEF nrf_modem_os_init, TypeOK
  <2>2. Ring' = {Head}
    BY <1>2, <2>1 DEF nrf_modem_os_init, SetUp, Ring, Linked
  <2>3. nxt'[Head] = Head /\ prv'[Head] = Head
    BY <1>2 DEF nrf_modem_os_init, list_init, TypeOK, Nodes
  <2> QED
    BY <2>2, <2>3 DEF ListWhole
<1>3. CASE ModemInitDone \/ nrf_modem_os_shutdown
             \/ \E c \in Contexts : nrf_modem_os_event_notify(c)
  BY <1>1, <1>3 DEF ModemInitDone, nrf_modem_os_shutdown,
                    nrf_modem_os_event_notify, Ring, Linked
<1>4. CASE NotifyTurn \/ ShutdownPost \/ ShutdownNext
  BY <1>1, <1>4 DEF NotifyTurn, ShutdownPost, ShutdownNext, Ring, Linked
<1>5. ASSUME NEW t \in Threads, Timedwait(t) PROVE ListWhole'
  <2>1. CASE Refuse(t) \/ Poll(t)
    BY <1>1, <2>1 DEF Refuse, Poll, Ring, Linked
  <2>2. CASE Return(t) \/ \E c \in Contexts, v \in Timeouts : Prepare(t, c, v)
    <3>1. Ring' = Ring /\ t \notin Ring /\ inits' = inits
      BY <2>2, WaitAssumption DEF Prepare, Return, TypeOK, Ring, Linked
    <3>2. \A n \in Ring : nxt'[n] = nxt[n] /\ prv'[n] = prv[n]
      BY <2>2, <3>1 DEF Prepare, Return, TypeOK, Nodes, Ring
    <3> QED
      BY <1>1, <3>1, <3>2
  <2>3. CASE Enqueue(t)
    BY <2>3, AppendKeepsWhole
  <2>4. CASE SemTake(t) \/ SemTimeout(t)
    <3>1. Ring' = Ring /\ UNCHANGED <<nxt, prv, inits>>
      BY <2>4 DEF SemTake, SemTimeout, TypeOK, Ring, Linked
    <3> QED
      BY <1>1, <3>1
  <2>5. CASE Dequeue(t)
    BY <2>5, RemoveKeepsWhole
  <2> QED
    BY <1>5, <2>1, <2>2, <2>3, <2>4, <2>5 DEF Timedwait
<1>6. CASE UNCHANGED vars
  BY <1>1, <1>6 DEF vars, Ring, Linked
<1> QED
  BY <1>2, <1>3, <1>4, <1>5, <1>6 DEF Next

(* The interrupt's walk starts at the head's successor and follows next.   *)
LEMMA OnListStep ==
  TypeOK /\ IsrWalkSafe /\ IsrOnList /\ [Next]_vars => IsrOnList'
<1> SUFFICES ASSUME TypeOK, IsrWalkSafe, IsrOnList, [Next]_vars PROVE IsrOnList'
  OBVIOUS
<1>a. "isr" \in Walkers /\ "shutdown" \in Walkers
  BY DEF Walkers
<1>1. CASE InIsr' => UNCHANGED <<pc, nxt, walk>>
  BY <1>1 DEF IsrOnList, InIsr, Ring, Linked, Closed
<1>2. ASSUME NEW c \in Contexts, nrf_modem_os_event_notify(c) PROVE IsrOnList'
  <2>1. walk'["isr"].cur = nxt[Head] /\ UNCHANGED <<pc, nxt>>
    BY <1>2, <1>a DEF nrf_modem_os_event_notify, td_first, TypeOK
  <2> QED
    BY <2>1 DEF IsrOnList, Closed
<1>3. CASE NotifyTurn
  <2> DEFINE n == walk["isr"].cur
  <2>1. n \in Threads /\ pc[n] # "idle" /\ InIsr
    BY <1>3, <1>a DEF NotifyTurn, TypeOK, Cursor, Linked, IsrWalkSafe, InIsr
  <2>2. walk'["isr"].cur = td_next(n) /\ UNCHANGED <<pc, nxt>>
    BY <1>3, <1>a, <2>1 DEF NotifyTurn, Successors, TypeOK, Cursor
  <2>3. CASE nxt[n] = Head
    BY <2>2, <2>3 DEF td_next, IsrOnList, InIsr
  <2>4. CASE nxt[n] # Head
    <3>1. walk'["isr"].cur = nxt[n] /\ Ring' = Ring
      BY <2>2, <2>4 DEF td_next, Ring, Linked
    <3> QED
      BY <2>1, <2>2, <3>1 DEF IsrOnList, Closed
  <2> QED
    BY <2>3, <2>4
<1>4. CASE ShutdownPost \/ ShutdownNext
  <2>1. walk'["isr"] = walk["isr"] /\ ~InIsr
    BY <1>4, <1>a DEF ShutdownPost, ShutdownNext, TypeOK
  <2> QED
    BY <2>1 DEF IsrOnList, InIsr
<1>5. CASE nrf_modem_os_shutdown
  <2>1. walk'["isr"] = walk["isr"] /\ ~InIsr
    BY <1>5, <1>a DEF nrf_modem_os_shutdown, TypeOK
  <2> QED
    BY <2>1 DEF IsrOnList, InIsr
<1>6. CASE nrf_modem_os_init \/ ModemInitDone \/ \E t \in Threads : Timedwait(t)
  BY <1>1, <1>6 DEF nrf_modem_os_init, ModemInitDone, Timedwait, Refuse, Poll,
     Prepare, Enqueue, SemTake, SemTimeout, Dequeue, Return, InIsr
<1>7. CASE UNCHANGED vars
  BY <1>1, <1>7 DEF vars
<1> QED
  BY <1>2, <1>3, <1>4, <1>5, <1>6, <1>7 DEF Next, Walkers

(* Every step keeps the whole of WaitInv. *)
LEMMA WaitStep == WaitInv /\ [Next]_vars => WaitInv'
  BY TypeStep, SetUpStep, RingStep, IsrWalkStep, PostedStep, WholeStep, OnListStep
  DEF WaitInv

(* WaitInv is an invariant of the port, whatever interleaving of waits,    *)
(* notifications, shutdowns and re-initializations the application and the *)
(* modem produce.                                                          *)
THEOREM Inductive == Spec => []WaitInv
  BY InitInv, WaitStep, PTL DEF Spec

(* The state of nrf_modem.c keeps its types, and a frame exists exactly    *)
(* while its thread is inside nrf_modem_os_timedwait.                      *)
THEOREM TypeCorrect == Spec => []TypeOK
<1>1. WaitInv => TypeOK
  BY DEF WaitInv
<1> QED
  BY Inductive, <1>1, PTL

(* No link of the sleeping list leads to a frame that is gone, not even    *)
(* when nrf_modem_os_init empties the list under sleeping threads.         *)
THEOREM NoDanglingLinks == Spec => []NoDangling
<1>1. WaitInv => NoDangling
  BY DEF WaitInv
<1> QED
  BY Inductive, <1>1, PTL

(* nrf_modem_os_event_notify, in the interrupt, posts only to semaphores   *)
(* of frames that exist.                                                   *)
THEOREM NotifySafe == Spec => []IsrWalkSafe
<1>1. WaitInv => IsrWalkSafe
  BY DEF WaitInv
<1> QED
  BY Inductive, <1>1, PTL

(* nrf_modem_os_timedwait never reports a wake-up that did not come nor    *)
(* hides one that did.                                                     *)
THEOREM ResultsSound == Spec => ResultSound
<1> DEFINE R(t) ==
      pc[t] = "unlinked" /\ pc'[t] = "idle" =>
         /\ ret'[t] = OK => td[t].posted \/ td[t].val < 0
         /\ ret'[t] = EAGAIN => ~td[t].posted /\ td[t].val > 0
         /\ ret'[t] = ESHUTDOWN => modem # "on"
<1>1. WaitInv /\ [Next]_vars => [\A t \in Threads : R(t)]_vars
  <2> SUFFICES ASSUME WaitInv, Next, NEW t \in Threads,
                      pc[t] = "unlinked", pc'[t] = "idle"
               PROVE  R(t)
    OBVIOUS
  <2>1. Return(t)
    <3>1. PICK s \in Threads : Timedwait(s)
      BY DEF Next, nrf_modem_os_init, ModemInitDone, nrf_modem_os_shutdown,
             nrf_modem_os_event_notify, NotifyTurn, ShutdownPost, ShutdownNext
    <3>2. s = t
      BY <3>1 DEF Timedwait, Refuse, Poll, Prepare, Enqueue, SemTake,
                  SemTimeout, Dequeue, Return, WaitInv, TypeOK
    <3> QED
      BY <3>1, <3>2 DEF Timedwait, Refuse, Poll, Prepare, Enqueue, SemTake,
                  SemTimeout, Dequeue, WaitInv, TypeOK
  <2>2. ret'[t] = Result(td[t])
    BY <2>1 DEF Return, WaitInv, TypeOK
  <2>3. td[t] \in Td
    BY DEF WaitInv, TypeOK
  <2>4. td[t].val \in Int /\ td[t].err \in {0, 1}
    BY <2>3, WaitAssumption DEF Td
  <2>5. (td[t].posted <=> td[t].err = 1) /\ td[t].val # 0
    BY DEF WaitInv, PostedAgrees
  <2> QED
    BY <2>2, <2>4, <2>5
    DEF Result, nrf_modem_is_initialized, OK, EAGAIN, ESHUTDOWN
<1> QED
  BY Inductive, <1>1, PTL DEF Spec, ResultSound

-----------------------------------------------------------------------------
(* What lies ahead of the walk *)

(* From(n) is a set of threads with n, td_next does not leave it, and it   *)
(* is the least one.                                                       *)
LEMMA FromIs ==
  ASSUME TypeOK, NEW n \in Threads
  PROVE  /\ From(n) \subseteq Threads /\ n \in From(n)
         /\ \A m \in From(n) : td_next(m) \in From(n) \cup {NULL}
         /\ \A S \in SUBSET Threads :
              n \in S /\ (\A m \in S : td_next(m) \in S \cup {NULL}) => From(n) \subseteq S
<1>1. From(n) \subseteq Threads /\ n \in From(n)
  BY DEF From
<1>2. ASSUME NEW m \in From(n), td_next(m) # NULL PROVE td_next(m) \in From(n)
  <2>1. td_next(m) \in Threads
    BY <1>1, <1>2, WaitAssumption DEF td_next, TypeOK, Nodes
  <2>2. ASSUME NEW S \in SUBSET Threads, n \in S,
               \A k \in S : td_next(k) \in S \cup {NULL}
        PROVE  td_next(m) \in S
    <3>1. m \in S
      BY <2>2 DEF From
    <3> QED
      BY <1>2, <2>2, <3>1
  <2> QED
    BY <2>1, <2>2 DEF From
<1>3. \A S \in SUBSET Threads :
        n \in S /\ (\A m \in S : td_next(m) \in S \cup {NULL}) => From(n) \subseteq S
  BY DEF From
<1> QED
  BY <1>1, <1>2, <1>3

(* A turn of the loop: what lies ahead of a node is the node and what lies *)
(* ahead of the next one.                                                  *)
LEMMA FromNext ==
  ASSUME TypeOK, NEW n \in Threads
  PROVE  /\ td_next(n) = NULL => From(n) = {n}
         /\ td_next(n) # NULL => /\ td_next(n) \in Threads
                                 /\ From(n) = {n} \cup From(td_next(n))
<1>0. NULL \notin Threads
  BY WaitAssumption
<1>1. ASSUME td_next(n) = NULL PROVE From(n) = {n}
  <2> DEFINE U == {n}
  <2>1. U \in SUBSET Threads /\ n \in U /\ \A m \in U : td_next(m) \in U \cup {NULL}
    BY <1>1
  <2>2. From(n) \subseteq U
    <3> HIDE DEF U
    <3> QED
      BY <2>1, FromIs
  <2> QED
    BY <2>2, FromIs
<1>2. ASSUME td_next(n) # NULL
      PROVE  td_next(n) \in Threads /\ From(n) = {n} \cup From(td_next(n))
  <2> DEFINE m == td_next(n)
             U == {n} \cup From(m)
  <2>1. m \in Threads
    BY <1>2, WaitAssumption DEF td_next, TypeOK, Nodes
  <2>2. /\ From(m) \subseteq Threads /\ m \in From(m)
        /\ \A k \in From(m) : td_next(k) \in From(m) \cup {NULL}
        /\ \A S \in SUBSET Threads :
             m \in S /\ (\A k \in S : td_next(k) \in S \cup {NULL}) => From(m) \subseteq S
    BY <2>1, FromIs
  <2>3. /\ From(n) \subseteq Threads /\ n \in From(n)
        /\ \A k \in From(n) : td_next(k) \in From(n) \cup {NULL}
        /\ \A S \in SUBSET Threads :
             n \in S /\ (\A k \in S : td_next(k) \in S \cup {NULL}) => From(n) \subseteq S
    BY FromIs
  <2>4. From(n) \subseteq U
    <3>1. U \in SUBSET Threads /\ n \in U /\ \A k \in U : td_next(k) \in U \cup {NULL}
      BY <2>2
    <3> HIDE DEF U
    <3> QED
      BY <2>3, <3>1
  <2>5. From(m) \subseteq From(n)
    <3>1. m \in From(n)
      BY <1>2, <2>3
    <3> QED
      BY <2>2, <2>3, <3>1
  <2> QED
    BY <2>1, <2>3, <2>4, <2>5
<1> QED
  BY <1>1, <1>2

(* The only step while the interrupt walks is the next turn of its loop.   *)
LEMMA IsrTurn ==
  ASSUME TypeOK, IsrWalkSafe, InIsr, Next
  PROVE  /\ NotifyTurn /\ walk["isr"].cur \in Threads
         /\ walk'["isr"].cur = td_next(walk["isr"].cur)
         /\ UNCHANGED <<pc, nxt, prv, ret, modem, inits>>
<1>1. "isr" \in Walkers /\ "shutdown" \in Walkers
  BY DEF Walkers
<1>2. NotifyTurn
  BY DEF Next, nrf_modem_os_init, ModemInitDone, nrf_modem_os_shutdown,
     nrf_modem_os_event_notify, ShutdownPost, ShutdownNext, Timedwait, Refuse,
     Poll, Prepare, Enqueue, SemTake, SemTimeout, Dequeue, Return
<1>3. walk["isr"].cur \in Threads /\ pc[walk["isr"].cur] # "idle"
  BY <1>1 DEF TypeOK, Cursor, Linked, IsrWalkSafe, InIsr
<1> QED
  BY <1>1, <1>2, <1>3 DEF NotifyTurn, Successors, TypeOK, Cursor

(* The list does not lead back to a node that the head led to: what lies   *)
(* ahead of a node and leads back to it would be a ring of its own, which  *)
(* the head cannot have led into, since each node has one predecessor.     *)
LEMMA NeverBack ==
  ASSUME WaitInv, InIsr, td_next(walk["isr"].cur) # NULL
  PROVE  walk["isr"].cur \notin From(td_next(walk["isr"].cur))
<1> DEFINE n == walk["isr"].cur
           m == td_next(n)
           A == From(m)
           R == Ring \ A
<1> SUFFICES ASSUME n \in A PROVE FALSE
  OBVIOUS
<1>0. /\ TypeOK /\ NoDangling /\ LinksAgree /\ IsrOnList /\ Linked(n) /\ inits > 0
      /\ n \in Threads /\ NULL \notin Threads /\ Head \notin Threads
  BY WaitAssumption
  DEF WaitInv, IsrWalkSafe, TypeOK, Cursor, Walkers, InIsr, SetUp, Linked
<1>1. m \in Threads /\ nxt[n] = m
  BY <1>0, FromNext DEF td_next
<1>2. /\ A \subseteq Threads /\ m \in A
      /\ \A k \in A : td_next(k) \in A \cup {NULL}
      /\ \A S \in SUBSET Threads :
           m \in S /\ (\A k \in S : td_next(k) \in S \cup {NULL}) => A \subseteq S
  BY <1>0, <1>1, FromIs
<1> HIDE DEF A
<1>3. \A r \in Ring : nxt[r] \in Ring
  BY <1>0 DEF NoDangling
<1>4. A \subseteq Ring
  <2> DEFINE L == Ring \ {Head}
  <2>1. L \in SUBSET Threads /\ m \in L
    BY <1>0, <1>1, <1>3 DEF Ring
  <2>2. \A k \in L : td_next(k) \in L \cup {NULL}
    BY <1>3 DEF td_next
  <2> HIDE DEF L
  <2>3. A \subseteq L
    BY <1>2, <2>1, <2>2
  <2> QED
    BY <2>3 DEF L
<1>5. \A r \in Ring, s \in A : nxt[r] = s => prv[s] = r
  BY <1>0, <1>2, <1>4 DEF LinksAgree, Ring
<1>6. ASSUME NEW s \in A PROVE prv[s] \in A
  <2>1. CASE s = m
    BY <1>0, <1>1, <1>5, <2>1 DEF Ring
  <2>2. CASE s # m
    <3> DEFINE B == A \ {s}
    <3>1. B \in SUBSET Threads /\ m \in B /\ ~(A \subseteq B)
      BY <1>2, <2>2
    <3>2. PICK k \in B : td_next(k) \notin B \cup {NULL}
      <4> HIDE DEF B
      <4> QED
        BY <1>2, <3>1
    <3>3. k \in A /\ td_next(k) = s
      BY <1>2, <3>2
    <3>4. nxt[k] = s
      BY <1>0, <1>2, <3>3 DEF td_next
    <3> QED
      BY <1>4, <1>5, <3>3, <3>4
  <2> QED
    BY <2>1, <2>2
<1>7. R \in SUBSET Ring /\ Head \in R /\ Closed(R)
  <2>1. Head \in R
    BY <1>0, <1>2 DEF Ring
  <2>2. ASSUME NEW r \in R PROVE nxt[r] \in R
    <3>1. nxt[r] \in Ring
      BY <1>3
    <3>2. nxt[r] \notin A
      BY <1>5, <1>6
    <3> QED
      BY <3>1, <3>2
  <2> QED
    BY <2>1, <2>2 DEF Closed
<1>8. n \in R
  <2> HIDE DEF R
  <2> QED
    BY <1>0, <1>7 DEF IsrOnList
<1> QED
  BY <1>8

(* The walk of nrf_modem_os_event_notify never comes back to a node, not   *)
(* even on a list that nrf_modem_os_init has cut while threads slept in    *)
(* it: in the interrupt it ends.                                           *)
THEOREM WalkEnds == Spec => WalkAdvances
<1> DEFINE Advances == InIsr => Ahead' \subseteq Ahead \ {walk["isr"].cur}
<1>1. WaitInv /\ [Next]_vars => [Advances]_vars
  <2> SUFFICES ASSUME WaitInv, Next, InIsr
               PROVE  Ahead' \subseteq Ahead \ {walk["isr"].cur}
    OBVIOUS
  <2> DEFINE n == walk["isr"].cur
  <2>1. /\ TypeOK /\ n \in Threads /\ walk'["isr"].cur = td_next(n)
        /\ nxt' = nxt
    BY IsrTurn DEF WaitInv
  <2>2. CASE td_next(n) = NULL
    BY <2>1, <2>2 DEF Ahead, InIsr
  <2>3. CASE td_next(n) # NULL
    <3>1. Ahead' = From(td_next(n)) /\ Ahead = From(n)
      BY <2>1, <2>3 DEF Ahead, InIsr, From, td_next
    <3>2. From(n) = {n} \cup From(td_next(n)) /\ n \notin From(td_next(n))
      BY <2>1, <2>3, FromNext, NeverBack
    <3> QED
      BY <3>1, <3>2
  <2> QED
    BY <2>2, <2>3
<1> QED
  BY Inductive, <1>1, PTL DEF Spec, WalkAdvances

(* As long as nrf_modem_os_init has run once, the list holds every thread  *)
(* that sleeps, linked both ways.                                          *)
THEOREM WholeList == Spec => []ListWhole
<1>1. WaitInv => ListWhole
  BY DEF WaitInv
<1> QED
  BY Inductive, <1>1, PTL

-----------------------------------------------------------------------------
(* The refinement of WaitNotify *)

(* Whether a thread counts as woken, while no interrupt walks, is what its *)
(* frame says.                                                             *)
LEMMA WokenOutside ==
  ASSUME TypeOK, ~InIsr, NEW t \in Threads
  PROVE  AbstractWoken(t) = (IF pc[t] = "idle" THEN FALSE ELSE td[t].posted)
<1>1. Ahead = {}
  BY DEF Ahead
<1>2. pc[t] # "idle" => td[t].posted \in BOOLEAN
  BY DEF TypeOK, Td
<1> QED
  BY <1>1, <1>2 DEF AbstractWoken

(* The same after a step. *)
LEMMA WokenOutsideNext ==
  ASSUME TypeOK', ~InIsr', NEW t \in Threads
  PROVE  AbstractWoken(t)' = (IF pc'[t] = "idle" THEN FALSE ELSE td'[t].posted)
<1>1. Ahead' = {}
  BY DEF Ahead
<1>2. pc'[t] # "idle" => td'[t].posted \in BOOLEAN
  BY DEF TypeOK, Td
<1> QED
  BY <1>1, <1>2 DEF AbstractWoken

(* A step that leaves the mapped state of every thread alone is none of    *)
(* WaitNotify.                                                             *)
LEMMA MapsToNothing ==
  ASSUME \A t \in Threads : /\ AbstractAt(t)' = AbstractAt(t)
                            /\ AbstractWant(t)' = AbstractWant(t)
                            /\ AbstractWoken(t)' = AbstractWoken(t),
         ret' = ret, nrf_modem_is_initialized' = nrf_modem_is_initialized
  PROVE  UNCHANGED Abstract!vars
<1>1. /\ [t \in Threads |-> AbstractAt(t)]' = [t \in Threads |-> AbstractAt(t)]
      /\ [t \in Threads |-> AbstractWant(t)]' = [t \in Threads |-> AbstractWant(t)]
      /\ [t \in Threads |-> AbstractWoken(t)]' = [t \in Threads |-> AbstractWoken(t)]
  OBVIOUS
<1> QED
  BY <1>1 DEF Abstract!vars

(* A step of thread t outside the interrupt changes the mapped state of t  *)
(* alone.                                                                  *)
LEMMA OthersStay ==
  ASSUME WaitInv, WaitInv', NEW t \in Threads, Timedwait(t)
  PROVE  /\ ~InIsr /\ ~InIsr' /\ UNCHANGED <<modem, inits, walk>>
         /\ \A s \in Threads \ {t} : /\ pc'[s] = pc[s] /\ td'[s] = td[s]
                                     /\ AbstractAt(s)' = AbstractAt(s)
                                     /\ AbstractWant(s)' = AbstractWant(s)
                                     /\ AbstractWoken(s)' = AbstractWoken(s)
<1>1. TypeOK /\ TypeOK'
  BY DEF WaitInv
<1>2. ~InIsr /\ UNCHANGED <<modem, inits, walk>>
  BY DEF Timedwait, Refuse, Poll, Prepare, Enqueue, SemTake, SemTimeout, Dequeue,
         Return
<1>3. ~InIsr'
  BY <1>2 DEF InIsr
<1>4. \A s \in Threads \ {t} : pc'[s] = pc[s] /\ td'[s] = td[s]
  BY <1>1 DEF Timedwait, Refuse, Poll, Prepare, Enqueue, SemTake, SemTimeout,
              Dequeue, Return, TypeOK
<1>5. ASSUME NEW s \in Threads \ {t}
      PROVE  /\ AbstractAt(s)' = AbstractAt(s) /\ AbstractWant(s)' = AbstractWant(s)
             /\ AbstractWoken(s)' = AbstractWoken(s)
  <2>1. pc'[s] = pc[s] /\ td'[s] = td[s]
    BY <1>4
  <2>2. AbstractWoken(s)' = AbstractWoken(s)
    BY <1>1, <1>2, <1>3, <2>1, WokenOutside, WokenOutsideNext
  <2> QED
    BY <2>1, <2>2 DEF AbstractAt, AbstractWant
<1> QED
  BY <1>2, <1>3, <1>4, <1>5

(* Every step of nrf_modem_os_timedwait is one of the abstract wait, or    *)
(* nothing.                                                                *)
LEMMA TimedwaitMaps ==
  ASSUME WaitInv, WaitInv', NEW t \in Threads, Timedwait(t)
  PROVE  [Abstract!Next]_(Abstract!vars)
<1> DEFINE at   == [s \in Threads |-> AbstractAt(s)]
           want == [s \in Threads |-> AbstractWant(s)]
           wok  == [s \in Threads |-> AbstractWoken(s)]
<1>0. /\ TypeOK /\ TypeOK' /\ ~InIsr /\ ~InIsr' /\ UNCHANGED <<modem, inits, walk>>
      /\ nrf_modem_is_initialized' = nrf_modem_is_initialized
  BY OthersStay DEF WaitInv, nrf_modem_is_initialized
<1>1. /\ at' = [at EXCEPT ![t] = AbstractAt(t)']
      /\ want' = [want EXCEPT ![t] = AbstractWant(t)']
      /\ wok' = [wok EXCEPT ![t] = AbstractWoken(t)']
  <2>1. \A s \in Threads \ {t} : /\ AbstractAt(s)' = AbstractAt(s)
                                 /\ AbstractWant(s)' = AbstractWant(s)
                                 /\ AbstractWoken(s)' = AbstractWoken(s)
    BY OthersStay
  <2> QED
    BY <2>1
<1>2. /\ at[t] = AbstractAt(t) /\ want[t] = AbstractWant(t)
      /\ wok[t] = AbstractWoken(t)
      /\ (AbstractAt(t)' = AbstractAt(t)) => at' = at
      /\ (AbstractWant(t)' = AbstractWant(t)) => want' = want
      /\ (AbstractWoken(t)' = AbstractWoken(t)) => wok' = wok
  BY <1>1
<1>3. /\ AbstractWoken(t) = (IF pc[t] = "idle" THEN FALSE ELSE td[t].posted)
      /\ AbstractWoken(t)' = (IF pc'[t] = "idle" THEN FALSE ELSE td'[t].posted)
  BY <1>0, WokenOutside, WokenOutsideNext
<1>4. CASE Refuse(t)
  <2>1. UNCHANGED <<pc, td>> /\ AbstractAt(t) = "out"
    BY <1>4 DEF Refuse, AbstractAt
  <2>2. at' = at /\ want' = want /\ wok' = wok
    BY <1>2, <1>3, <2>1 DEF AbstractAt, AbstractWant
  <2>3. Abstract!Refuse(t)
    BY <1>0, <1>2, <1>4, <2>1, <2>2
    DEF Refuse, Abstract!Refuse, Abstract!ESHUTDOWN, ESHUTDOWN
  <2> QED
    BY <2>3 DEF Abstract!Next
<1>5. CASE Poll(t)
  <2>1. UNCHANGED <<pc, td>> /\ AbstractAt(t) = "out"
    BY <1>5 DEF Poll, AbstractAt
  <2>2. at' = at /\ want' = want /\ wok' = wok
    BY <1>2, <1>3, <2>1 DEF AbstractAt, AbstractWant
  <2>3. Abstract!Poll(t)
    BY <1>0, <1>2, <1>5, <2>1, <2>2 DEF Poll, Abstract!Poll, Abstract!EAGAIN, EAGAIN
  <2> QED
    BY <2>3 DEF Abstract!Next
<1>6. ASSUME NEW c \in Contexts, NEW v \in Timeouts, Prepare(t, c, v)
      PROVE  [Abstract!Next]_(Abstract!vars)
  <2>1. /\ pc[t] = "idle" /\ pc'[t] = "ready"
        /\ td'[t].posted = FALSE /\ td'[t].context = c /\ td'[t].val = v
    BY <1>0, <1>6 DEF Prepare, TypeOK
  <2>2. /\ AbstractAt(t) = "out" /\ AbstractAt(t)' = "entering" /\ wok' = wok
        /\ AbstractWant(t)' = [context |-> c, timeout |-> v]
    BY <1>2, <1>3, <2>1 DEF AbstractAt, AbstractWant
  <2>3. Abstract!Enter(t, c, v)
    BY <1>0, <1>1, <1>2, <1>6, <2>2 DEF Prepare, Abstract!Enter
  <2> QED
    BY <2>3 DEF Abstract!Next
<1>7. CASE Enqueue(t)
  <2>1. pc[t] = "ready" /\ pc'[t] = "queued" /\ td' = td /\ ret' = ret
    BY <1>0, <1>7 DEF Enqueue, TypeOK
  <2>2. /\ AbstractAt(t) = "entering" /\ AbstractAt(t)' = "asleep" /\ wok' = wok
        /\ want' = want
    BY <1>2, <1>3, <2>1 DEF AbstractAt, AbstractWant
  <2>3. Abstract!FallAsleep(t)
    BY <1>0, <1>1, <1>2, <2>1, <2>2 DEF Abstract!FallAsleep
  <2> QED
    BY <2>3 DEF Abstract!Next
<1>8. CASE SemTake(t) \/ SemTimeout(t)
  <2>1. /\ pc[t] = "queued" /\ pc'[t] = "awake" /\ ret' = ret
        /\ td'[t].posted = td[t].posted /\ td'[t].context = td[t].context
        /\ td'[t].val = td[t].val
    BY <1>0, <1>8 DEF SemTake, SemTimeout, TypeOK, Td
  <2>2. /\ AbstractAt(t) = "asleep" /\ AbstractAt(t)' = "leaving" /\ wok' = wok
        /\ want' = want
    BY <1>2, <1>3, <2>1 DEF AbstractAt, AbstractWant
  <2>3. Abstract!WakeUp(t)
    BY <1>0, <1>1, <1>2, <2>1, <2>2 DEF Abstract!WakeUp
  <2> QED
    BY <2>3 DEF Abstract!Next
<1>9. CASE Dequeue(t)
  <2>1. pc[t] = "awake" /\ pc'[t] = "unlinked" /\ td' = td /\ ret' = ret
    BY <1>0, <1>9 DEF Dequeue, TypeOK
  <2>2. at' = at /\ want' = want /\ wok' = wok
    BY <1>2, <1>3, <2>1 DEF AbstractAt, AbstractWant
  <2> QED
    BY <1>0, <2>1, <2>2 DEF Abstract!vars
<1>10. CASE Return(t)
  <2>1. /\ pc[t] = "unlinked" /\ pc'[t] = "idle" /\ td[t] \in Td
        /\ ret' = [ret EXCEPT ![t] = Result(td[t])]
    BY <1>0, <1>10 DEF Return, TypeOK
  <2>2. /\ AbstractAt(t) = "leaving" /\ AbstractAt(t)' = "out"
        /\ AbstractWant(t)' = [context |-> 0, timeout |-> 0]
        /\ AbstractWoken(t) = td[t].posted /\ AbstractWoken(t)' = FALSE
        /\ AbstractWant(t).timeout = td[t].val
    BY <1>3, <2>1 DEF AbstractAt, AbstractWant
  <2>3. (td[t].posted <=> td[t].err = 1) /\ td[t].val # 0
    BY <2>1 DEF WaitInv, PostedAgrees
  <2>4. td[t].err \in {0, 1} /\ td[t].val \in Int
    BY <2>1, WaitAssumption DEF Td
  <2>5. Result(td[t]) = IF ~nrf_modem_is_initialized THEN Abstract!ESHUTDOWN
                        ELSE IF wok[t] \/ want[t].timeout < 0 THEN Abstract!OK
                        ELSE Abstract!EAGAIN
    BY <1>2, <2>2, <2>3, <2>4
    DEF Result, OK, EAGAIN, ESHUTDOWN, Abstract!OK, Abstract!EAGAIN, Abstract!ESHUTDOWN
  <2>6. Abstract!Leave(t)
    BY <1>0, <1>1, <1>2, <2>1, <2>2, <2>5 DEF Abstract!Leave, Abstract!NoWait
  <2> QED
    BY <2>6 DEF Abstract!Next
<1> QED
  BY <1>4, <1>5, <1>6, <1>7, <1>8, <1>9, <1>10 DEF Timedwait

(* The body of either walk posts to at most one frame, and that changes    *)
(* nothing that WaitNotify sees but whether its thread was woken while it  *)
(* was on its way to sleep or asleep.                                      *)
LEMMA TurnPosts ==
  ASSUME TypeOK, NEW w, walk[w].cur \in Threads, Post(w)
  PROVE  LET n == walk[w].cur IN
         /\ \A t \in Threads \ {n} : td'[t] = td[t]
         /\ \/ td' = td /\ ~(pc[n] # "idle" /\ Matches(n, walk[w].context))
            \/ /\ pc[n] # "idle" /\ Matches(n, walk[w].context)
               /\ td[n] \in Td /\ td'[n] \in Td
               /\ td'[n].val = td[n].val /\ td'[n].context = td[n].context
               /\ td'[n].posted <=> (td[n].posted \/ pc[n] \in {"ready", "queued"})
<1> DEFINE n == walk[w].cur
           b == pc[n] \in {"ready", "queued"}
<1>1. TypeOK /\ n \in Threads
  OBVIOUS
<1>2. CASE ~(pc[n] # "idle" /\ Matches(n, walk[w].context))
  BY <1>1, <1>2 DEF Post
<1>3. CASE pc[n] # "idle" /\ Matches(n, walk[w].context)
  <2>1. td[n] \in Td
    BY <1>1, <1>3 DEF TypeOK
  <2>2. td' = [td EXCEPT ![n] = Posted(td[n], b)]
    BY <1>1, <1>3 DEF Post, mdx_sem_post, Posted
  <2>3. td'[n] = Posted(td[n], b) /\ \A t \in Threads \ {n} : td'[t] = td[t]
    BY <1>1, <2>2 DEF TypeOK
  <2>4. /\ Posted(td[n], b) \in Td /\ Posted(td[n], b).val = td[n].val
        /\ Posted(td[n], b).context = td[n].context
        /\ Posted(td[n], b).posted <=> (td[n].posted \/ b)
    <3>1. b \in BOOLEAN
      OBVIOUS
    <3> HIDE DEF b
    <3> QED
      BY <2>1, <3>1, PostedType
  <2> QED
    BY <1>1, <1>3, <2>1, <2>3, <2>4
<1> QED
  BY <1>2, <1>3

(* A turn of the interrupt's walk changes nothing: the thread it posts to  *)
(* counted as woken when the walk began.                                   *)
LEMMA IsrTurnMaps ==
  ASSUME WaitInv, InIsr, Next
  PROVE  UNCHANGED Abstract!vars
<1>0. PICK n \in Threads : n = walk["isr"].cur
  BY IsrTurn DEF WaitInv
<1> DEFINE c == walk["isr"].context
<1>1. /\ TypeOK /\ NotifyTurn /\ walk'["isr"].cur = td_next(n)
      /\ UNCHANGED <<pc, nxt, ret, modem>>
  BY <1>0, IsrTurn DEF WaitInv
<1>2. walk'["isr"].context = c
  BY <1>1 DEF NotifyTurn, TypeOK, Walkers, Cursor
<1>3. Ahead = From(n) /\ n \in Ahead
  BY <1>0, <1>1, FromIs DEF Ahead
<1>4. \A t \in Threads \ {n} : t \in Ahead' <=> t \in Ahead
  <2>1. CASE td_next(n) = NULL
    <3>1. Ahead' = {} /\ From(n) = {n}
      BY <1>1, <2>1, FromNext DEF Ahead, InIsr
    <3> QED
      BY <1>3, <3>1
  <2>2. CASE td_next(n) # NULL
    <3>1. Ahead' = From(td_next(n))
      BY <1>1, <2>2 DEF Ahead, InIsr, From, td_next
    <3>2. From(n) = {n} \cup From(td_next(n))
      BY <1>1, <2>2, FromNext
    <3> QED
      BY <1>3, <3>1, <3>2
  <2> QED
    BY <2>1, <2>2
<1>5. /\ \A t \in Threads \ {n} : td'[t] = td[t]
      /\ \/ td' = td /\ ~(pc[n] # "idle" /\ Matches(n, c))
         \/ /\ pc[n] # "idle" /\ Matches(n, c)
            /\ td[n] \in Td /\ td'[n] \in Td
            /\ td'[n].val = td[n].val /\ td'[n].context = td[n].context
            /\ td'[n].posted <=> (td[n].posted \/ pc[n] \in {"ready", "queued"})
  BY <1>0, <1>1, TurnPosts DEF NotifyTurn
<1>6. \A t \in Threads : pc[t] # "idle" => td[t].posted \in BOOLEAN
  BY <1>1 DEF TypeOK, Td
<1>7. ASSUME NEW t \in Threads
      PROVE  /\ AbstractAt(t)' = AbstractAt(t) /\ AbstractWant(t)' = AbstractWant(t)
             /\ AbstractWoken(t)' = AbstractWoken(t)
  <2>1. AbstractAt(t)' = AbstractAt(t)
    BY <1>1 DEF AbstractAt
  <2>2. AbstractWant(t)' = AbstractWant(t)
    BY <1>1, <1>5 DEF AbstractWant
  <2>3. CASE t # n
    <3>1. Matches(t, walk["isr"].context)' <=> Matches(t, walk["isr"].context)
      BY <1>2, <1>5, <2>3 DEF Matches
    <3> QED
      BY <1>1, <1>4, <1>5, <1>6, <2>1, <2>2, <2>3, <3>1 DEF AbstractWoken
  <2>4. CASE t = n
    <3>1. CASE td' = td /\ ~(pc[n] # "idle" /\ Matches(n, c))
      <4>1. ~(pc[n] # "idle" /\ Matches(n, walk["isr"].context)')
        BY <1>2, <3>1 DEF Matches
      <4> QED
        BY <1>1, <1>6, <2>1, <2>2, <2>4, <3>1, <4>1 DEF AbstractWoken
    <3>2. CASE /\ pc[n] # "idle" /\ Matches(n, c)
               /\ td[n] \in Td /\ td'[n] \in Td
               /\ td'[n].posted <=> (td[n].posted \/ pc[n] \in {"ready", "queued"})
      <4>1. td[n].posted \in BOOLEAN /\ td'[n].posted \in BOOLEAN
        BY <3>2 DEF Td
      <4>2. Linked(n)
        BY <1>0 DEF WaitInv, IsrWalkSafe
      <4>3. CASE pc[n] = "queued"
        <5>1. td'[n].posted
          BY <3>2, <4>3
        <5>2. AbstractWoken(n) = TRUE
          BY <1>3, <3>2, <4>3 DEF AbstractWoken
        <5>3. AbstractWoken(n)' = TRUE
          BY <1>1, <5>1, <4>3 DEF AbstractWoken
        <5> QED
          BY <2>1, <2>2, <2>4, <5>2, <5>3
      <4>4. CASE pc[n] = "awake"
        <5>1. td'[n].posted = td[n].posted
          BY <3>2, <4>1, <4>4
        <5> QED
          BY <1>1, <2>1, <2>2, <2>4, <4>4, <5>1 DEF AbstractWoken
      <4> QED
        BY <4>2, <4>3, <4>4 DEF Linked
    <3> QED
      BY <1>5, <3>1, <3>2
  <2> QED
    BY <2>3, <2>4
<1> QED
  BY <1>1, <1>7, MapsToNothing DEF nrf_modem_is_initialized

(* Following the list from its first node leads to every thread that       *)
(* sleeps, as long as nrf_modem_os_init has run once.                      *)
LEMMA AllAhead ==
  ASSUME WaitInv, inits = 1, NEW t \in Threads, Linked(t)
  PROVE  nxt[Head] \in Threads /\ t \in From(nxt[Head])
<1>0. /\ TypeOK /\ NoDangling /\ NULL \notin Threads /\ Head \notin Threads /\ Head # NULL
      /\ \A S \in SUBSET Ring : Head \in S /\ Closed(S) => S = Ring
  BY WaitAssumption DEF WaitInv, ListWhole
<1>1. \A r \in Ring : nxt[r] \in Ring
  BY <1>0 DEF NoDangling
<1>2. Head \in Ring /\ t \in Ring /\ t # Head
  BY <1>0 DEF Ring
<1>3. nxt[Head] # Head
  <2> SUFFICES ASSUME nxt[Head] = Head PROVE FALSE
    OBVIOUS
  <2> DEFINE R == {Head}
  <2>1. R \in SUBSET Ring /\ Head \in R /\ Closed(R) /\ R # Ring
    BY <1>2 DEF Closed
  <2> HIDE DEF R
  <2> QED
    BY <1>0, <2>1
<1>4. nxt[Head] \in Threads
  BY <1>1, <1>2, <1>3 DEF Ring
<1> DEFINE F == From(nxt[Head])
           R == (F \cap Ring) \cup {Head}
<1>5. F \subseteq Threads /\ nxt[Head] \in F /\ \A m \in F : td_next(m) \in F \cup {NULL}
  BY <1>0, <1>4, FromIs
<1> HIDE DEF F
<1>6. R \in SUBSET Ring /\ Head \in R
  BY <1>2
<1>7. ASSUME NEW r \in R PROVE nxt[r] \in R
  <2>1. CASE r = Head
    BY <1>1, <1>2, <1>5, <2>1
  <2>2. CASE r \in F \cap Ring /\ nxt[r] # Head
    <3>1. td_next(r) = nxt[r] /\ nxt[r] \in Ring /\ nxt[r] # NULL
      BY <1>0, <1>1, <2>2 DEF td_next, Ring
    <3> QED
      BY <1>5, <2>2, <3>1
  <2> QED
    BY <2>1, <2>2
<1>8. R = Ring
  <2> HIDE DEF R
  <2> QED
    BY <1>0, <1>6, <1>7 DEF Closed
<1>9. t \in F
  BY <1>2, <1>8
<1> QED
  BY <1>4, <1>9 DEF F

(* The list is one cycle: a set of its nodes that next does not leave is   *)
(* all of it.                                                              *)
LEMMA OneCycle ==
  ASSUME WaitInv, inits = 1, NEW S \in SUBSET Ring, S # {}, Closed(S)
  PROVE  S = Ring
<1>0. /\ NoDangling /\ Head \in Ring
      /\ \A n \in Ring : prv[nxt[n]] = n /\ nxt[prv[n]] = n
      /\ \A U \in SUBSET Ring : Head \in U /\ Closed(U) => U = Ring
  BY DEF WaitInv, ListWhole, Ring
<1>1. \A n \in Ring : nxt[n] \in Ring /\ prv[n] \in Ring
  BY <1>0 DEF NoDangling
<1> DEFINE T == {m \in Ring : \A U \in SUBSET Ring : m \in U /\ Closed(U) => Head \in U}
<1>2. ASSUME NEW m \in T PROVE nxt[m] \in T
  <2> SUFFICES ASSUME NEW U \in SUBSET Ring, nxt[m] \in U, Closed(U)
               PROVE  Head \in U
    BY <1>1
  <2> DEFINE V == U \cup {m}
  <2>1. V \in SUBSET Ring /\ m \in V /\ Closed(V)
    BY DEF Closed
  <2>2. CASE m # Head
    <3>1. Head \in V
      <4> HIDE DEF V
      <4> QED
        BY <2>1
    <3> QED
      BY <2>2, <3>1
  <2>3. CASE m = Head
    <3>1. V = Ring
      <4> HIDE DEF V
      <4> QED
        BY <1>0, <2>1, <2>3
    <3>2. prv[Head] \in V /\ nxt[prv[Head]] = Head
      BY <1>0, <1>1, <3>1
    <3> QED
      BY <2>3, <3>2 DEF Closed
  <2> QED
    BY <2>2, <2>3
<1>3. T \in SUBSET Ring /\ Head \in T /\ Closed(T)
  <2>1. T \in SUBSET Ring /\ Head \in T
    BY <1>0
  <2> HIDE DEF T
  <2> QED
    BY <1>2, <2>1 DEF Closed
<1>4. T = Ring
  <2> HIDE DEF T
  <2> QED
    BY <1>0, <1>3
<1>5. Head \in S
  BY <1>4
<1> QED
  BY <1>0, <1>5

(* td_next stays among the linked nodes.                                   *)
LEMMA NextLinked ==
  ASSUME WaitInv, inits = 1, NEW r \in Ring
  PROVE  td_next(r) \in (Ring \cap Threads) \cup {NULL}
<1>1. nxt[r] \in Ring
  BY DEF WaitInv, NoDangling
<1> QED
  BY <1>1 DEF td_next, Ring

(* From anywhere in the list, td_next leads to the last node.              *)
LEMMA LastAhead ==
  ASSUME WaitInv, inits = 1, NEW n \in Threads, Linked(n)
  PROVE  prv[Head] \in From(n)
<1> DEFINE F == From(n)
           L == Ring \cap Threads
<1> SUFFICES ASSUME prv[Head] \notin F PROVE FALSE
  OBVIOUS
<1>0. /\ TypeOK /\ Head \notin Threads /\ Head # NULL /\ NULL \notin Threads
      /\ \A r \in Ring : prv[nxt[r]] = r
  BY WaitAssumption DEF WaitInv, ListWhole
<1>1. /\ n \in F /\ F \subseteq Threads
      /\ \A m \in F : td_next(m) \in F \cup {NULL}
      /\ \A S \in SUBSET Threads :
           n \in S /\ (\A m \in S : td_next(m) \in S \cup {NULL}) => F \subseteq S
  BY <1>0, FromIs
<1> HIDE DEF F
<1>2. F \subseteq L
  <2>1. L \in SUBSET Threads /\ n \in L
    BY DEF Ring
  <2>2. \A m \in L : td_next(m) \in L \cup {NULL}
    BY NextLinked
  <2> HIDE DEF L
  <2> QED
    BY <1>1, <2>1, <2>2
<1>3. ASSUME NEW m \in F PROVE nxt[m] \in F
  <2>1. nxt[m] # Head
    BY <1>0, <1>2
  <2>2. nxt[m] \in Ring
    BY <1>2 DEF WaitInv, NoDangling
  <2> QED
    BY <1>0, <1>1, <2>1, <2>2 DEF td_next, Ring
<1>4. F = Ring
  BY <1>1, <1>2, <1>3, OneCycle DEF Closed
<1> QED
  BY <1>0, <1>1, <1>4 DEF Ring

(* What lies ahead of a linked node stays ahead of it when its links are   *)
(* changed so that every set closed under the new ones holds it.           *)
LEMMA StaysAhead ==
  ASSUME TypeOK, NEW n \in Threads, NEW t \in From(n),
         \A S \in SUBSET Threads :
           n \in S /\ (\A m \in S : td_next(m)' \in S \cup {NULL})
             => \E U \in SUBSET Threads :
                  /\ n \in U /\ \A m \in U : td_next(m) \in U \cup {NULL}
                  /\ t \in U => t \in S
  PROVE  t \in From(n)'
<1>1. t \in Threads
  BY DEF From
<1>2. ASSUME NEW S \in SUBSET Threads, n \in S,
             \A m \in S : td_next(m)' \in S \cup {NULL}
      PROVE  t \in S
  <2>1. PICK U \in SUBSET Threads :
                  /\ n \in U /\ \A m \in U : td_next(m) \in U \cup {NULL}
                  /\ t \in U => t \in S
    BY <1>2
  <2>2. t \in U
    BY <2>1 DEF From
  <2> QED
    BY <2>1, <2>2
<1> QED
  BY <1>1, <1>2 DEF From

(* Threads that enter or leave nrf_modem_os_timedwait touch no link of the *)
(* list.                                                                   *)
LEMMA OutsideKeepsAhead ==
  ASSUME WaitInv, inits = 1, NEW n \in Threads, Linked(n),
         \A r \in Ring : nxt'[r] = nxt[r]
  PROVE  From(n) \subseteq From(n)'
<1> SUFFICES ASSUME NEW t \in From(n) PROVE t \in From(n)'
  OBVIOUS
<1>1. \A r \in Ring : td_next(r)' = td_next(r)
  BY DEF td_next
<1>2. ASSUME NEW S \in SUBSET Threads, n \in S,
             \A m \in S : td_next(m)' \in S \cup {NULL}
      PROVE  \E U \in SUBSET Threads :
                  /\ n \in U /\ \A m \in U : td_next(m) \in U \cup {NULL}
                  /\ t \in U => t \in S
  <2> DEFINE U == S \cap Ring
  <2>1. n \in U /\ \A m \in U : td_next(m) \in U \cup {NULL}
    BY <1>1, <1>2, NextLinked DEF Ring
  <2> QED
    BY <2>1
<1> QED
  BY <1>2, StaysAhead DEF WaitInv

(* list_append puts the new node ahead of every other.                     *)
LEMMA AppendKeepsAhead ==
  ASSUME WaitInv, inits = 1, NEW n \in Threads, Linked(n),
         NEW u \in Threads, Enqueue(u)
  PROVE  From(n) \cup {u} \subseteq From(n)'
<1>0. TypeOK /\ Head \notin Threads /\ Head # NULL /\ NULL \notin Threads
  BY WaitAssumption DEF WaitInv
<1>p. PICK p \in Ring : p = prv[Head]
  BY DEF WaitInv, NoDangling, Ring
<1>1. p \in From(n) /\ p \in Threads /\ u \notin Ring /\ n \in Ring
  <2>1. p \in From(n)
    BY <1>p, LastAhead
  <2> QED
    BY <2>1, <1>0 DEF From, Enqueue, Ring, Linked
<1>2. nxt[p] = Head
  BY <1>p DEF WaitInv, ListWhole, Ring
<1>3. nxt'[p] = u /\ \A r \in Ring \ {p} : nxt'[r] = nxt[r]
  BY <1>0, <1>p, <1>1 DEF Enqueue, list_append, TypeOK, Nodes, Ring
<1>4. ASSUME NEW S \in SUBSET Threads, n \in S,
             \A m \in S : td_next(m)' \in S \cup {NULL}
      PROVE  /\ n \in S \cap Ring
             /\ \A m \in S \cap Ring : td_next(m) \in (S \cap Ring) \cup {NULL}
  <2>1. ASSUME NEW m \in S \cap Ring PROVE td_next(m) \in (S \cap Ring) \cup {NULL}
    <3>1. CASE m = p
      BY <1>2, <3>1 DEF td_next
    <3>2. CASE m # p
      <4>1. td_next(m)' = td_next(m)
        BY <1>3, <3>2 DEF td_next
      <4> QED
        BY <1>4, <4>1, NextLinked
    <3> QED
      BY <3>1, <3>2
  <2> QED
    BY <1>1, <1>4, <2>1
<1>5. ASSUME NEW t \in From(n) PROVE t \in From(n)'
  <2>1. ASSUME NEW S \in SUBSET Threads, n \in S,
               \A m \in S : td_next(m)' \in S \cup {NULL}
        PROVE  \E U \in SUBSET Threads :
                  /\ n \in U /\ \A m \in U : td_next(m) \in U \cup {NULL}
                  /\ t \in U => t \in S
    <3> DEFINE U == S \cap Ring
    <3>1. n \in U /\ \A m \in U : td_next(m) \in U \cup {NULL}
      BY <1>4, <2>1
    <3> QED
      BY <3>1
  <2> QED
    BY <1>0, <2>1, StaysAhead
<1>6. u \in From(n)'
  <2>1. ASSUME NEW S \in SUBSET Threads, n \in S,
               \A m \in S : td_next(m)' \in S \cup {NULL}
        PROVE  u \in S
    <3>1. p \in S
      <4>1. p \in From(n)'
        BY <1>1, <1>5
      <4> QED
        BY <2>1, <4>1 DEF From
    <3>2. td_next(p)' = u
      BY <1>0, <1>3 DEF td_next
    <3> QED
      BY <1>0, <2>1, <3>1, <3>2
  <2> QED
    BY <2>1 DEF From
<1> QED
  BY <1>5, <1>6

(* list_remove of u, be it the node n itself, takes at most u from what    *)
(* lies ahead of n.                                                        *)
LEMMA RemoveKeepsAhead ==
  ASSUME WaitInv, inits = 1, NEW n \in Threads, Linked(n),
         NEW u \in Threads, Dequeue(u)
  PROVE  From(n) \ {u} \subseteq From(n)'
<1> SUFFICES ASSUME NEW t \in From(n), t # u PROVE t \in From(n)'
  OBVIOUS
<1>0. TypeOK /\ Head \notin Threads /\ Head # NULL /\ NULL \notin Threads
  BY WaitAssumption DEF WaitInv
<1>1. u \in Ring /\ n \in Ring
  BY DEF Dequeue, Ring, Linked
<1>p. PICK p \in Ring : p = prv[u]
  BY <1>1 DEF WaitInv, NoDangling
<1>2. nxt[p] = u
  BY <1>1, <1>p DEF WaitInv, ListWhole
<1>3. nxt'[p] = nxt[u] /\ \A r \in Ring \ {p} : nxt'[r] = nxt[r]
  <2>1. nxt' = [nxt EXCEPT ![p] = nxt[u]]
    BY <1>p DEF Dequeue, list_remove
  <2>2. Ring \subseteq Nodes
    BY DEF Ring, Nodes
  <2> QED
    BY <1>0, <2>1, <2>2 DEF TypeOK
<1>4. ASSUME NEW S \in SUBSET Threads, n \in S,
             \A m \in S : td_next(m)' \in S \cup {NULL}
      PROVE  \E U \in SUBSET Threads :
                  /\ n \in U /\ \A m \in U : td_next(m) \in U \cup {NULL}
                  /\ t \in U => t \in S
  <2> DEFINE U == (S \cap Ring) \cup {s \in {u} : p \in S}
  <2>1. ASSUME NEW m \in U PROVE td_next(m) \in U \cup {NULL}
    <3>0. m \in Ring /\ td_next(m) \in (Ring \cap Threads) \cup {NULL}
      BY <1>1, NextLinked
    <3>1. CASE m \in S /\ m = p
      BY <1>0, <1>2, <3>1 DEF td_next
    <3>2. CASE m \in S /\ m # p
      <4>1. td_next(m)' = td_next(m)
        BY <1>3, <3>0, <3>2 DEF td_next
      <4> QED
        BY <1>4, <3>0, <3>2, <4>1
    <3>3. CASE m = u /\ p \in S
      <4>1. td_next(p)' = td_next(u)
        BY <1>3 DEF td_next
      <4> QED
        BY <1>4, <3>0, <3>3, <4>1
    <3> QED
      BY <3>1, <3>2, <3>3
  <2>2. U \in SUBSET Threads /\ n \in U /\ (t \in U => t \in S)
    BY <1>1, <1>4
  <2> HIDE DEF U
  <2> QED
    BY <2>1, <2>2
<1> QED
  BY <1>0, <1>4, StaysAhead

(* The threads, the one the shutdown stands on included: what it has yet   *)
(* to post is still to be posted after their steps, so no sleeper falls    *)
(* behind.                                                                 *)
LEMMA OthersPassNobody ==
  ASSUME WaitInv, inits = 1, NEW n \in Threads, n = walk["shutdown"].cur,
         Linked(n), NEW u \in Threads, Timedwait(u)
  PROVE  PassedOver' \subseteq PassedOver
<1>0. TypeOK /\ n # NULL /\ n \in Ring
  BY WaitAssumption DEF WaitInv, Ring
<1>1. walk' = walk
  BY DEF Timedwait, Refuse, Poll, Prepare, Enqueue, SemTake, SemTimeout, Dequeue,
         Return
<1>2. \A t \in Threads \ {u} : pc'[t] = pc[t] /\ td'[t] = td[t]
  BY <1>0 DEF Timedwait, Refuse, Poll, Prepare, Enqueue, SemTake, SemTimeout,
              Dequeue, Return, TypeOK
<1>3. /\ ToPost = From(n) \ {t \in {n} : walk["shutdown"].posted}
      /\ ToPost' = From(n)' \ {t \in {n} : walk["shutdown"].posted}
  BY <1>0, <1>1 DEF ToPost
<1> SUFFICES ASSUME NEW t \in Threads, pc'[t] = "queued", td'[t].sem = 0,
                    t \notin ToPost'
             PROVE  pc[t] = "queued" /\ td[t].sem = 0 /\ t \notin ToPost
  BY DEF PassedOver
<1>4. CASE Refuse(u) \/ Poll(u)
  <2>1. UNCHANGED <<pc, td, nxt>>
    BY <1>4 DEF Refuse, Poll
  <2>2. From(n)' = From(n)
    BY <2>1 DEF From, td_next
  <2> QED
    BY <1>3, <2>1, <2>2
<1>5. CASE Return(u) \/ \E c \in Contexts, v \in Timeouts : Prepare(u, c, v)
  <2>1. u \notin Ring /\ pc'[u] # "queued"
    BY <1>0, <1>5, WaitAssumption DEF Return, Prepare, Ring, Linked, TypeOK
  <2>2. \A r \in Ring : nxt'[r] = nxt[r]
    BY <1>0, <1>5, <2>1 DEF Return, Prepare, TypeOK, Nodes, Ring
  <2>3. From(n) \subseteq From(n)'
    BY <2>2, OutsideKeepsAhead
  <2> QED
    BY <1>2, <1>3, <2>1, <2>3
<1>6. CASE Enqueue(u)
  <2>1. From(n) \cup {u} \subseteq From(n)'
    BY <1>6, AppendKeepsAhead
  <2>2. u # n
    BY <1>6 DEF Enqueue, Linked
  <2> QED
    BY <1>2, <1>3, <2>1, <2>2
<1>7. CASE SemTake(u) \/ SemTimeout(u)
  <2>1. nxt' = nxt /\ pc'[u] # "queued"
    BY <1>0, <1>7 DEF SemTake, SemTimeout, TypeOK
  <2>2. From(n)' = From(n)
    BY <2>1 DEF From, td_next
  <2> QED
    BY <1>2, <1>3, <2>1, <2>2
<1>8. CASE Dequeue(u)
  <2>1. From(n) \ {u} \subseteq From(n)'
    BY <1>8, RemoveKeepsAhead
  <2>2. pc'[u] # "queued"
    BY <1>0, <1>8 DEF Dequeue, TypeOK
  <2> QED
    BY <1>2, <1>3, <2>1, <2>2
<1> QED
  BY <1>4, <1>5, <1>6, <1>7, <1>8 DEF Timedwait

(* Nor does one fall behind by a step of the shutdown or of the interrupt. *)
LEMMA WalkersPassNobody ==
  ASSUME WaitInv, inits = 1, NEW n \in Threads, n = walk["shutdown"].cur,
         Linked(n), NotifyTurn \/ ShutdownPost \/ ShutdownNext
  PROVE  PassedOver' \subseteq PassedOver
<1>0. /\ TypeOK /\ n # NULL /\ pc[n] # "idle" /\ walk["shutdown"].context = 0
      /\ "isr" \in Walkers /\ "shutdown" \in Walkers
  BY WaitAssumption DEF WaitInv, Linked, Walkers, SetUp
<1>1. pc' = pc /\ nxt' = nxt
  BY DEF NotifyTurn, ShutdownPost, ShutdownNext
<1>2. \A m : From(m)' = From(m)
  BY <1>1 DEF From, td_next
<1>3. ToPost = From(n) \ {t \in {n} : walk["shutdown"].posted}
  BY <1>0 DEF ToPost
<1> SUFFICES ASSUME NEW t \in Threads, pc[t] = "queued", td'[t].sem = 0,
                    t \notin ToPost'
             PROVE  td[t].sem = 0 /\ t \notin ToPost
  BY <1>1 DEF PassedOver
<1>4. td[t] \in Td /\ td[t].sem \in Nat
  BY <1>0 DEF TypeOK, Td
<1>5. ASSUME NEW w, NEW k \in Threads, k = walk[w].cur, Post(w)
      PROVE  /\ td[t].sem = 0
             /\ t = k => ~Matches(k, walk[w].context)
  <2>1. CASE td' = td /\ ~(pc[k] # "idle" /\ Matches(k, walk[w].context))
    BY <2>1
  <2>2. CASE mdx_sem_post(k)
    <3>1. td' = [td EXCEPT ![k] = Posted(td[k], pc[k] \in {"ready", "queued"})]
      BY <2>2 DEF mdx_sem_post, Posted
    <3>2. t # k => td'[t] = td[t]
      BY <1>0, <3>1 DEF TypeOK
    <3>3. t = k => td'[t].sem = td[t].sem + 1
      <4>1. td'[k] = Posted(td[k], pc[k] \in {"ready", "queued"})
        BY <1>0, <3>1 DEF TypeOK
      <4>2. (pc[k] \in {"ready", "queued"}) \in BOOLEAN
        OBVIOUS
      <4>3. ASSUME NEW b \in BOOLEAN, t = k PROVE Posted(td[k], b).sem = td[k].sem + 1
        BY <1>4, <4>3, PostedType
      <4> QED
        BY <4>1, <4>2, <4>3
    <3> QED
      BY <1>4, <3>2, <3>3
  <2> QED
    BY <1>5, <2>1, <2>2 DEF Post
<1>6. CASE NotifyTurn
  <2>1. walk["isr"].cur \in Threads /\ walk'["shutdown"] = walk["shutdown"]
    BY <1>0, <1>6 DEF NotifyTurn, InIsr, TypeOK, Cursor
  <2>2. td[t].sem = 0
    BY <1>5, <1>6, <2>1 DEF NotifyTurn
  <2>3. ToPost' = ToPost
    BY <1>0, <1>2, <1>3, <2>1 DEF ToPost
  <2> QED
    BY <2>2, <2>3
<1>7. CASE ShutdownPost
  <2>1. walk' = [walk EXCEPT !["shutdown"] = [walk["shutdown"] EXCEPT !.posted = TRUE]]
    BY <1>7 DEF ShutdownPost
  <2>2. walk'["shutdown"].cur = n /\ walk'["shutdown"].posted = TRUE
    BY <1>0, <2>1 DEF TypeOK, Cursor
  <2>3. ToPost' = From(n) \ {n}
    BY <1>0, <1>2, <2>2 DEF ToPost
  <2>4. td[t].sem = 0 /\ t # n
    BY <1>0, <1>5, <1>7 DEF ShutdownPost, Matches
  <2> QED
    BY <1>3, <2>3, <2>4
<1>8. CASE ShutdownNext
  <2>1. /\ td' = td /\ walk["shutdown"].posted
        /\ walk' = [walk EXCEPT !["shutdown"] =
                      [walk["shutdown"] EXCEPT !.cur = td_next(n), !.posted = FALSE]]
    BY <1>0, <1>8 DEF ShutdownNext, Successors
  <2>2. walk'["shutdown"] = [walk["shutdown"] EXCEPT !.cur = td_next(n), !.posted = FALSE]
    BY <1>0, <2>1 DEF TypeOK
  <2>3. walk'["shutdown"].cur = td_next(n) /\ walk'["shutdown"].posted = FALSE
    BY <1>0, <2>2 DEF TypeOK, Cursor
  <2>4. ToPost = From(n) \ {n}
    BY <1>3, <2>1
  <2>5. CASE td_next(n) = NULL
    BY <1>0, <2>1, <2>4, <2>5, FromNext
  <2>6. CASE td_next(n) # NULL
    <3>1. PICK m \in Threads : m = td_next(n)
      BY <1>0, <2>6, FromNext
    <3>2. ToPost' = From(m)
      BY <1>2, <2>3, <2>6, <3>1 DEF ToPost
    <3>3. From(n) = {n} \cup From(m)
      BY <1>0, <2>6, <3>1, FromNext
    <3> QED
      BY <2>1, <2>4, <3>2, <3>3
  <2> QED
    BY <2>5, <2>6
<1> QED
  BY <1>6, <1>7, <1>8

(* nrf_modem_os_shutdown has every sleeper ahead of it when it starts, and *)
(* while the thread it stands on keeps its node linked nobody falls behind *)
(* it unposted: for any number of threads that time out, leave and enter   *)
(* the list while it walks.                                                *)
THEOREM ShutdownReachesAll == Spec => ShutdownPassesNobody
<1> DEFINE n == walk["shutdown"].cur
           Passes == inits = 1 =>
             /\ modem = "on" /\ modem' = "off" => PassedOver' = {}
             /\ n # NULL /\ Linked(n) => PassedOver' \subseteq PassedOver
<1>1. ASSUME WaitInv, Next, inits = 1, modem = "on", modem' = "off"
      PROVE  PassedOver' = {}
  <2>1. nrf_modem_os_shutdown
    BY <1>1 DEF Next, nrf_modem_os_init, ModemInitDone, nrf_modem_os_event_notify,
       NotifyTurn, ShutdownPost, ShutdownNext, Timedwait, Refuse, Poll, Prepare,
       Enqueue, SemTake, SemTimeout, Dequeue, Return
  <2>2. /\ UNCHANGED <<pc, td, nxt>>
        /\ walk'["shutdown"] = [cur |-> td_first, context |-> 0, posted |-> FALSE]
    BY <1>1, <2>1 DEF nrf_modem_os_shutdown, WaitInv, TypeOK, Walkers
  <2>3. \A m : From(m)' = From(m)
    BY <2>2 DEF From, td_next
  <2>4. ASSUME NEW t \in Threads, pc[t] = "queued" PROVE t \in ToPost'
    <3>1. PICK m \in Threads : m = nxt[Head] /\ t \in From(m)
      BY <1>1, <2>4, AllAhead DEF Linked
    <3>2. td_first = m /\ m # NULL
      BY <3>1, WaitAssumption DEF td_first
    <3>3. ToPost' = From(m)
      BY <2>2, <2>3, <3>2 DEF ToPost
    <3> QED
      BY <3>1, <3>3
  <2> QED
    BY <2>2, <2>4 DEF PassedOver
<1>2. ASSUME WaitInv, Next, inits = 1, n # NULL, Linked(n)
      PROVE  PassedOver' \subseteq PassedOver
  <2>0. /\ n \in Threads /\ modem = "off" /\ TypeOK
        /\ "isr" \in Walkers /\ "shutdown" \in Walkers
    BY <1>2 DEF WaitInv, TypeOK, Cursor, Walkers, SetUp
  <2>1. CASE \E u \in Threads : Timedwait(u)
    BY <1>2, <2>0, <2>1, OthersPassNobody
  <2>2. CASE NotifyTurn \/ ShutdownPost \/ ShutdownNext
    BY <1>2, <2>0, <2>2, WalkersPassNobody
  <2>3. ASSUME NEW c \in Contexts, nrf_modem_os_event_notify(c)
        PROVE  PassedOver' \subseteq PassedOver
    <3>1. UNCHANGED <<pc, td, nxt>> /\ walk'["shutdown"] = walk["shutdown"]
      BY <2>0, <2>3 DEF nrf_modem_os_event_notify, TypeOK
    <3>2. \A m : From(m)' = From(m)
      BY <3>1 DEF From, td_next
    <3> QED
      BY <3>1, <3>2 DEF PassedOver, ToPost
  <2> QED
    BY <1>2, <2>0, <2>1, <2>2, <2>3
    DEF Next, nrf_modem_os_init, ModemInitDone, nrf_modem_os_shutdown
<1>3. WaitInv /\ [Next]_vars => [Passes]_vars
  BY <1>1, <1>2
<1> QED
  BY Inductive, <1>3, PTL DEF Spec, ShutdownPassesNobody

(* The entry of the walk is the abstract notification: all it will wake    *)
(* count as woken at once.                                                 *)
LEMMA NotifyMaps ==
  ASSUME WaitInv, inits = 1, NEW c \in Contexts, nrf_modem_os_event_notify(c)
  PROVE  Abstract!Notify(c)
<1>1. /\ TypeOK /\ ~InIsr /\ UNCHANGED <<pc, td, nxt, ret, modem>>
      /\ td_first # NULL /\ td_first = nxt[Head]
      /\ walk'["isr"].cur = td_first /\ walk'["isr"].context = c
  BY DEF nrf_modem_os_event_notify, WaitInv, TypeOK, Walkers, td_first
<1>2. \A t \in Threads : pc[t] # "idle" => td[t].posted \in BOOLEAN
  BY <1>1 DEF TypeOK, Td
<1>3. Ahead' = From(nxt[Head])
  BY <1>1 DEF Ahead, InIsr, From, td_next
<1>4. ASSUME NEW t \in Threads
      PROVE  /\ AbstractAt(t)' = AbstractAt(t) /\ AbstractWant(t)' = AbstractWant(t)
             /\ AbstractWoken(t)' = (AbstractWoken(t)
                  \/ (AbstractAt(t) = "asleep" /\ c \in {0, AbstractWant(t).context}))
  <2>1. AbstractAt(t)' = AbstractAt(t) /\ AbstractWant(t)' = AbstractWant(t)
    BY <1>1 DEF AbstractAt, AbstractWant
  <2>2. AbstractWoken(t) = (IF pc[t] = "idle" THEN FALSE ELSE td[t].posted)
    BY <1>1, WokenOutside
  <2>3. CASE pc[t] = "queued"
    <3>1. t \in Ahead'
      BY <1>3, <2>3, AllAhead DEF Linked
    <3>2. AbstractWoken(t)' = (td[t].posted \/ Matches(t, walk["isr"].context)')
      BY <1>1, <2>3, <3>1 DEF AbstractWoken
    <3>3. Matches(t, walk["isr"].context)' = (c \in {0, td[t].context})
      BY <1>1 DEF Matches
    <3>4. AbstractAt(t) = "asleep" /\ AbstractWant(t).context = td[t].context
      BY <2>3 DEF AbstractAt, AbstractWant
    <3>5. AbstractWoken(t) = td[t].posted
      BY <2>2, <2>3
    <3> QED
      BY <2>1, <3>2, <3>3, <3>4, <3>5
  <2>4. CASE pc[t] # "queued"
    <3>1. AbstractAt(t) # "asleep" /\ AbstractWoken(t)' = AbstractWoken(t)
      BY <1>1, <1>2, <2>4 DEF AbstractAt, AbstractWoken, TypeOK
    <3>2. AbstractWoken(t) \in BOOLEAN
      BY <1>2, <2>2
    <3> QED
      BY <2>1, <3>1, <3>2
  <2> QED
    BY <2>3, <2>4
<1>5. /\ [t \in Threads |-> AbstractAt(t)]' = [t \in Threads |-> AbstractAt(t)]
      /\ [t \in Threads |-> AbstractWant(t)]' = [t \in Threads |-> AbstractWant(t)]
      /\ [t \in Threads |-> AbstractWoken(t)]' =
           [t \in Threads |-> AbstractWoken(t)
              \/ (AbstractAt(t) = "asleep" /\ c \in {0, AbstractWant(t).context})]
  BY <1>4
<1>6. \A t \in Threads :
        /\ [s \in Threads |-> AbstractAt(s)][t] = AbstractAt(t)
        /\ [s \in Threads |-> AbstractWant(s)][t] = AbstractWant(t)
        /\ [s \in Threads |-> AbstractWoken(s)][t] = AbstractWoken(t)
  OBVIOUS
<1> QED
  BY <1>1, <1>5, <1>6 DEF Abstract!Notify, nrf_modem_is_initialized

(* A post of the walk of nrf_modem_os_shutdown wakes one thread, with the  *)
(* modem off, or nobody.                                                   *)
LEMMA ShutdownPostMaps ==
  ASSUME WaitInv, WaitInv', ShutdownPost
  PROVE  [Abstract!Next]_(Abstract!vars)
<1> DEFINE wok == [s \in Threads |-> AbstractWoken(s)]
<1>0. PICK n \in Threads : n = walk["shutdown"].cur
  BY DEF ShutdownPost, WaitInv, TypeOK, Cursor, Walkers
<1>1. /\ TypeOK /\ TypeOK' /\ ~InIsr /\ walk'["isr"] = walk["isr"] /\ n # NULL
  BY <1>0 DEF ShutdownPost, WaitInv, TypeOK, Walkers
<1>2. ~InIsr' /\ modem = "off"
  BY <1>0, <1>1 DEF InIsr, WaitInv, SetUp
<1>3. /\ UNCHANGED <<pc, nxt, ret, modem>>
      /\ \A t \in Threads \ {n} : td'[t] = td[t]
      /\ \/ td' = td /\ ~(pc[n] # "idle" /\ Matches(n, walk["shutdown"].context))
         \/ /\ pc[n] # "idle" /\ Matches(n, walk["shutdown"].context)
            /\ td[n] \in Td /\ td'[n] \in Td
            /\ td'[n].val = td[n].val /\ td'[n].context = td[n].context
            /\ td'[n].posted <=> (td[n].posted \/ pc[n] \in {"ready", "queued"})
  BY <1>0, <1>1, TurnPosts DEF ShutdownPost
<1>4. \A t \in Threads :
        /\ AbstractWoken(t) = (IF pc[t] = "idle" THEN FALSE ELSE td[t].posted)
        /\ AbstractWoken(t)' = (IF pc'[t] = "idle" THEN FALSE ELSE td'[t].posted)
  BY <1>1, <1>2, WokenOutside, WokenOutsideNext
<1>5. \A t \in Threads :
        /\ AbstractAt(t)' = AbstractAt(t) /\ AbstractWant(t)' = AbstractWant(t)
        /\ t # n => AbstractWoken(t)' = AbstractWoken(t)
  BY <1>3, <1>4 DEF AbstractAt, AbstractWant
<1>6. CASE AbstractWoken(n)' = AbstractWoken(n)
  BY <1>3, <1>5, <1>6, MapsToNothing DEF nrf_modem_is_initialized
<1>7. CASE AbstractWoken(n)' # AbstractWoken(n)
  <2>1. /\ pc[n] # "idle" /\ td[n].posted \in BOOLEAN /\ td'[n].posted \in BOOLEAN
        /\ td'[n].posted <=> (td[n].posted \/ pc[n] \in {"ready", "queued"})
    BY <1>3, <1>4, <1>7 DEF Td
  <2>2. AbstractWoken(n)' = TRUE /\ pc[n] \in {"ready", "queued"}
    BY <1>3, <1>4, <1>7, <2>1
  <2>3. AbstractAt(n) \in {"entering", "asleep"}
    BY <2>2 DEF AbstractAt
  <2>4. wok' = [wok EXCEPT ![n] = TRUE]
    BY <1>3, <1>5, <2>2
  <2>5. /\ [t \in Threads |-> AbstractAt(t)]' = [t \in Threads |-> AbstractAt(t)]
        /\ [t \in Threads |-> AbstractWant(t)]' = [t \in Threads |-> AbstractWant(t)]
        /\ [t \in Threads |-> AbstractAt(t)][n] = AbstractAt(n)
    BY <1>3, <1>5
  <2>6. Abstract!ShutdownWakes(n)
    BY <1>2, <1>3, <2>3, <2>4, <2>5 DEF Abstract!ShutdownWakes, nrf_modem_is_initialized
  <2> QED
    BY <2>6 DEF Abstract!Next
<1> QED
  BY <1>6, <1>7

(* Every step of the port is one of WaitNotify, or nothing. *)
LEMMA WaitMaps ==
  ASSUME MaxInits = 1, WaitInv, WaitInv', [Next]_vars
  PROVE  [Abstract!Next]_(Abstract!vars)
<1>0. TypeOK /\ TypeOK' /\ inits \in 0 .. 1
  BY DEF WaitInv, TypeOK
<1>1. CASE UNCHANGED vars
  <2>1. \A t \in Threads : AbstractAt(t)' = AbstractAt(t) /\ AbstractWant(t)' = AbstractWant(t)
    BY <1>1 DEF vars, AbstractAt, AbstractWant
  <2>2. Ahead' = Ahead
    BY <1>1 DEF vars, Ahead, InIsr, From, td_next
  <2>3. \A t \in Threads : AbstractWoken(t)' = AbstractWoken(t)
    BY <1>1, <2>2 DEF vars, AbstractWoken, Matches
  <2> QED
    BY <1>1, <2>1, <2>3, MapsToNothing DEF vars, nrf_modem_is_initialized
<1>2. CASE Next /\ InIsr
  BY <1>2, IsrTurnMaps
<1>3. ASSUME ~InIsr, ~InIsr', UNCHANGED <<pc, td, ret>>
      PROVE  \A t \in Threads : /\ AbstractAt(t)' = AbstractAt(t)
                                /\ AbstractWant(t)' = AbstractWant(t)
                                /\ AbstractWoken(t)' = AbstractWoken(t)
  <2>1. \A t \in Threads : AbstractWoken(t)' = AbstractWoken(t)
    BY <1>0, <1>3, WokenOutside, WokenOutsideNext
  <2> QED
    BY <1>3, <2>1 DEF AbstractAt, AbstractWant
<1>4. CASE nrf_modem_os_init
  <2>1. ~InIsr /\ ~InIsr' /\ UNCHANGED <<pc, td, ret>> /\ modem # "on" /\ modem' # "on"
    BY <1>4 DEF nrf_modem_os_init, InIsr
  <2> QED
    BY <1>3, <2>1, MapsToNothing DEF nrf_modem_is_initialized
<1>5. CASE ModemInitDone \/ nrf_modem_os_shutdown
  <2>1. /\ ~InIsr /\ ~InIsr' /\ UNCHANGED <<pc, td, ret>>
        /\ nrf_modem_is_initialized' = ~nrf_modem_is_initialized
    BY <1>0, <1>5
    DEF ModemInitDone, nrf_modem_os_shutdown, InIsr, TypeOK, Walkers,
        nrf_modem_is_initialized
  <2>2. /\ [t \in Threads |-> AbstractAt(t)]' = [t \in Threads |-> AbstractAt(t)]
        /\ [t \in Threads |-> AbstractWant(t)]' = [t \in Threads |-> AbstractWant(t)]
        /\ [t \in Threads |-> AbstractWoken(t)]' = [t \in Threads |-> AbstractWoken(t)]
    BY <1>3, <2>1
  <2>3. Abstract!Switch
    BY <2>1, <2>2 DEF Abstract!Switch
  <2> QED
    BY <2>3 DEF Abstract!Next
<1>6. ASSUME NEW c \in Contexts, nrf_modem_os_event_notify(c)
      PROVE  [Abstract!Next]_(Abstract!vars)
  <2>1. inits = 1
    BY <1>0, <1>6 DEF nrf_modem_os_event_notify
  <2>2. Abstract!Notify(c)
    BY <1>6, <2>1, NotifyMaps
  <2> QED
    BY <2>2 DEF Abstract!Next
<1>7. CASE ShutdownPost
  BY <1>7, ShutdownPostMaps
<1>10. CASE ShutdownNext
  <2>1. /\ ~InIsr /\ ~InIsr' /\ UNCHANGED <<pc, td, ret, modem>>
    BY <1>0, <1>10 DEF ShutdownNext, InIsr, TypeOK, Walkers
  <2> QED
    BY <1>3, <2>1, MapsToNothing DEF nrf_modem_is_initialized
<1>8. ASSUME NEW t \in Threads, Timedwait(t)
      PROVE  [Abstract!Next]_(Abstract!vars)
  BY <1>8, TimedwaitMaps
<1>9. ~InIsr => ~NotifyTurn
  BY DEF NotifyTurn
<1> QED
  BY <1>1, <1>2, <1>4, <1>5, <1>6, <1>7, <1>8, <1>9, <1>10 DEF Next

(* The list, the walks, the frames and the semaphores of nrf_modem.c       *)
(* implement an atomic broadcast, for any number of threads, with and      *)
(* without a shutdown, if the list is set up once.                         *)
THEOREM ListUnseen == MaxInits = 1 /\ Spec => ImplementsWaitNotify
<1> SUFFICES ASSUME MaxInits = 1 PROVE Spec => ImplementsWaitNotify
  OBVIOUS
<1>1. Init => Abstract!Init
  <2> SUFFICES ASSUME Init PROVE Abstract!Init
    OBVIOUS
  <2>1. \A t \in Threads : /\ AbstractAt(t) = "out" /\ AbstractWoken(t) = FALSE
                           /\ AbstractWant(t) = [context |-> 0, timeout |-> 0]
    BY DEF Init, AbstractAt, AbstractWoken, AbstractWant
  <2> QED
    BY <2>1 DEF Init, Abstract!Init, Abstract!NoWait, nrf_modem_is_initialized
<1>2. WaitInv /\ WaitInv' /\ [Next]_vars => [Abstract!Next]_(Abstract!vars)
  BY WaitMaps
<1> QED
  BY <1>1, <1>2, Inductive, PTL DEF Spec, ImplementsWaitNotify, Abstract!Spec

=============================================================================
