---------------------------- MODULE ModemOsWait ----------------------------
(***************************************************************************)
(* The sleeping side of the modem library's OS port (src/src/nrf_modem.c): *)
(* the list of sleeping threads, nrf_modem_os_timedwait, which links a     *)
(* node of its own stack frame into that list and sleeps on a semaphore in *)
(* it, and nrf_modem_os_event_notify / nrf_modem_os_shutdown, which walk   *)
(* the list and post the semaphores.                                       *)
(*                                                                         *)
(* One core runs everything.  Threads interleave at every step outside a   *)
(* critical section; the IPC interrupt (which leads to event_notify) may   *)
(* come at any such point and, once taken, runs to its end before a thread *)
(* runs again.  nrf_modem_os_shutdown is called by a thread, so its walk   *)
(* of the list interleaves with the other threads.                         *)
(***************************************************************************)
EXTENDS Integers

CONSTANTS
  Threads,       \* threads that may call into the modem library
  Contexts,      \* values of the context argument
  Timeouts,      \* values of *p_timeout, in ms
  IntMax,        \* largest int (2^31 - 1 on this target)
  UsPerMs,       \* 1000
  CapUs,         \* 500000: the period an endless wait is cut into
  MaxPosts,      \* bound: posts a semaphore may hold before a walk adds one
  MaxInits,      \* bound: number of nrf_modem_init calls
  MayShutdown,   \* whether the application ever calls nrf_modem_shutdown
  Head,          \* &sleeping_thread_list
  NULL

ASSUME WaitAssumption ==
  /\ Head \notin Threads /\ NULL \notin Threads /\ Head # NULL
  /\ Contexts \subseteq Nat /\ 0 \in Contexts
  /\ Timeouts \subseteq Int
  /\ IntMax \in Nat \ {0} /\ UsPerMs \in Nat \ {0} /\ CapUs \in 1 .. IntMax
  /\ MaxPosts \in Nat \ {0} /\ MaxInits \in Nat \ {0}
  /\ MayShutdown \in BOOLEAN

VARIABLES
  pc,      \* where each thread is in nrf_modem_os_timedwait
  td,      \* its stack frame there (struct sleeping_thread and locals)
  nxt,     \* node.next of the list head and of every thread's node
  prv,     \* node.prev
  ret,     \* what its nrf_modem_os_timedwait returned, NULL before it does
  modem,   \* state behind nrf_modem_is_initialized()
  inits,   \* nrf_modem_init calls so far
  walk     \* the cursor of each walker of the list; posted: it has posted
           \* the node it is at and has yet to read the node's next

vars == <<pc, td, nxt, prv, ret, modem, inits, walk>>

-----------------------------------------------------------------------------
(* Values *)

Nodes   == Threads \cup {Head}
Walkers == {"isr", "shutdown"}

OK        == "0"
EAGAIN    == "-NRF_EAGAIN"
ESHUTDOWN == "-NRF_ESHUTDOWN"

(* struct sleeping_thread with the locals of nrf_modem_os_timedwait.  err  *)
(* is the result of mdx_sem_timedwait (0: it timed out); posted is         *)
(* history: a walker posted this semaphore before the wait on it ended.    *)
Td == [sem : Nat, context : Contexts, val : Timeouts, tmout : Int,
       err : {0, 1}, posted : BOOLEAN]

NoFrame == [sem |-> -1]   \* the thread is not in the function

nrf_modem_is_initialized == modem = "on"

(* The signed int a product is stored in. *)
Int32(x) == ((x + IntMax + 1) % (2 * (IntMax + 1))) - (IntMax + 1)

(* Mutants of Tmout: an endless wait without the 500 ms cut.               *)
TmoutUncut(v) == IF v < 0 THEN 0 ELSE Int32(v * UsPerMs)
Tmout(v) == IF v < 0 THEN CapUs ELSE Int32(v * UsPerMs)

(* A thread's node is linked from list_append to list_remove. *)
Linked(t) == pc[t] \in {"queued", "awake"}

InIsr == walk["isr"].cur # NULL

-----------------------------------------------------------------------------
(* The list (sys/list.h of MDEPX: circular and doubly linked). *)

list_init ==
  /\ nxt' = [nxt EXCEPT ![Head] = Head]
  /\ prv' = [prv EXCEPT ![Head] = Head]

(* Mutant: the node is put first.                                          *)
list_prepend(n) ==
  /\ nxt' = [nxt EXCEPT ![n] = nxt[Head], ![Head] = n]
  /\ prv' = [prv EXCEPT ![n] = Head, ![nxt[Head]] = n]
list_append(n) ==
  /\ nxt' = [nxt EXCEPT ![n] = Head, ![prv[Head]] = n]
  /\ prv' = [prv EXCEPT ![n] = prv[Head], ![Head] = n]

list_remove(n) ==
  /\ nxt' = [nxt EXCEPT ![prv[n]] = nxt[n]]
  /\ prv' = [prv EXCEPT ![nxt[n]] = prv[n]]

td_first == IF nxt[Head] = Head THEN NULL ELSE nxt[Head]

(* Mutant: the walk stops at the last node instead of after it.            *)
td_next_short(n) ==
  IF nxt[n] \in {Head, prv[Head]} THEN NULL ELSE nxt[n]
(* Or it goes round, past the head.                                        *)
td_next_round(n) == IF nxt[n] = Head THEN nxt[Head] ELSE nxt[n]
td_next(n) == IF nxt[n] = Head THEN NULL ELSE nxt[n]

(* What td_next may yield: the frame of a thread that has returned holds   *)
(* whatever was written there since.                                       *)
Successors(n) ==
  IF pc[n] = "idle" THEN Threads \cup {NULL} ELSE {td_next(n)}

-----------------------------------------------------------------------------
(* nrf_modem_init and nrf_modem_shutdown, and the hooks they call *)

nrf_modem_os_init ==
  /\ modem = "off" /\ inits < MaxInits
  /\ ~InIsr /\ walk["shutdown"].cur = NULL
  /\ modem' = "starting" /\ inits' = inits + 1
  /\ list_init
  /\ UNCHANGED <<pc, td, ret, walk>>

ModemInitDone ==
  /\ modem = "starting" /\ ~InIsr
  /\ modem' = "on"
  /\ UNCHANGED <<pc, td, nxt, prv, ret, inits, walk>>

nrf_modem_os_shutdown ==
  /\ MayShutdown /\ modem = "on" /\ ~InIsr
  /\ modem' = "off"
  /\ walk' = [walk EXCEPT !["shutdown"] =
                [cur |-> td_first, context |-> 0, posted |-> FALSE]]
  /\ UNCHANGED <<pc, td, nxt, prv, ret, inits>>

-----------------------------------------------------------------------------
(* Walking the list *)

Matches(n, c) == td[n].context = c \/ c = 0

mdx_sem_post(n) ==
  td' = [td EXCEPT ![n].sem = @ + 1,
                   ![n].posted = @ \/ pc[n] \in {"ready", "queued"}]

(* The IPC interrupt's handler notifies context c.  On an empty list the   *)
(* loop does nothing.                                                      *)
nrf_modem_os_event_notify(c) ==
  /\ inits > 0 /\ ~InIsr
  /\ \A t \in Threads : td[t].sem < MaxPosts
  /\ td_first # NULL
  /\ walk' = [walk EXCEPT !["isr"] =
                [cur |-> td_first, context |-> c, posted |-> FALSE]]
  /\ UNCHANGED <<pc, td, nxt, prv, ret, modem, inits>>

(* The loop's body; the shutdown's is the notification's with context 0.   *)
(* What a post into the frame of a thread that has returned does to        *)
(* whatever lies there now is outside the model: it changes no frame the   *)
(* model tracks.                                                           *)
Post(w) ==
  LET n == walk[w].cur IN
  IF pc[n] # "idle" /\ Matches(n, walk[w].context)
    THEN mdx_sem_post(n) ELSE td' = td

(* One iteration in the interrupt, where nothing comes between the post    *)
(* and td_next.                                                            *)
NotifyTurn ==
  /\ InIsr
  /\ Post("isr")
  /\ \E m \in Successors(walk["isr"].cur) : walk' = [walk EXCEPT !["isr"].cur = m]
  /\ UNCHANGED <<pc, nxt, prv, ret, modem, inits>>

(* One iteration of the shutdown is two steps: the thread it posts may     *)
(* return before it reads the node's next, and the thread it stands on may *)
(* time out and return before it posts.                                    *)
ShutdownPost ==
  LET s == walk["shutdown"] IN
  /\ s.cur # NULL /\ ~s.posted /\ ~InIsr
  /\ td[s.cur].sem <= MaxPosts
  /\ Post("shutdown")
  /\ walk' = [walk EXCEPT !["shutdown"].posted = TRUE]
  /\ UNCHANGED <<pc, nxt, prv, ret, modem, inits>>

ShutdownNext ==
  LET s == walk["shutdown"] IN
  /\ s.cur # NULL /\ s.posted /\ ~InIsr
  /\ \E m \in Successors(s.cur) :
       walk' = [walk EXCEPT !["shutdown"].cur = m, !["shutdown"].posted = FALSE]
  /\ UNCHANGED <<pc, td, nxt, prv, ret, modem, inits>>

-----------------------------------------------------------------------------
(* nrf_modem_os_timedwait, by thread t *)

(* The two early returns. *)
Refuse(t) ==
  /\ pc[t] = "idle" /\ ~InIsr /\ ~nrf_modem_is_initialized
  /\ ret' = [ret EXCEPT ![t] = ESHUTDOWN]
  /\ UNCHANGED <<pc, td, nxt, prv, modem, inits, walk>>

Poll(t) ==
  /\ pc[t] = "idle" /\ ~InIsr /\ nrf_modem_is_initialized
  /\ 0 \in Timeouts
  /\ ret' = [ret EXCEPT ![t] = EAGAIN]
  /\ UNCHANGED <<pc, td, nxt, prv, modem, inits, walk>>

(* The frame is cleared and its semaphore created. *)
(* Mutant: nobody asks whether the modem is initialized.                   *)
PrepareUnchecked(t, c, v) ==
  /\ pc[t] = "idle" /\ ~InIsr /\ v # 0
  /\ td' = [td EXCEPT ![t] = [sem |-> 0, context |-> c, val |-> v,
                              tmout |-> Tmout(v), err |-> 0,
                              posted |-> FALSE]]
  /\ nxt' = [nxt EXCEPT ![t] = NULL] /\ prv' = [prv EXCEPT ![t] = NULL]
  /\ ret' = [ret EXCEPT ![t] = NULL]
  /\ pc' = [pc EXCEPT ![t] = "ready"]
  /\ UNCHANGED <<modem, inits, walk>>
Prepare(t, c, v) ==
  /\ pc[t] = "idle" /\ ~InIsr /\ nrf_modem_is_initialized /\ v # 0
  /\ td' = [td EXCEPT ![t] = [sem |-> 0, context |-> c, val |-> v,
                              tmout |-> Tmout(v), err |-> 0,
                              posted |-> FALSE]]
  /\ nxt' = [nxt EXCEPT ![t] = NULL]
  /\ prv' = [prv EXCEPT ![t] = NULL]
  /\ ret' = [ret EXCEPT ![t] = NULL]
  /\ pc' = [pc EXCEPT ![t] = "ready"]
  /\ UNCHANGED <<modem, inits, walk>>

Enqueue(t) ==
  /\ pc[t] = "ready" /\ ~InIsr
  /\ list_append(t)
  /\ pc' = [pc EXCEPT ![t] = "queued"]
  /\ UNCHANGED <<td, ret, modem, inits, walk>>

(* mdx_sem_timedwait: it takes a post, or its time runs out with none      *)
(* there.  A time of 0 sets no timer.                                      *)
SemTake(t) ==
  /\ pc[t] = "queued" /\ ~InIsr /\ td[t].sem > 0
  /\ td' = [td EXCEPT ![t].sem = @ - 1, ![t].err = 1]
  /\ pc' = [pc EXCEPT ![t] = "awake"]
  /\ UNCHANGED <<nxt, prv, ret, modem, inits, walk>>

SemTimeout(t) ==
  /\ pc[t] = "queued" /\ ~InIsr /\ td[t].sem = 0 /\ td[t].tmout # 0
  /\ td' = [td EXCEPT ![t].err = 0]
  /\ pc' = [pc EXCEPT ![t] = "awake"]
  /\ UNCHANGED <<nxt, prv, ret, modem, inits, walk>>

(* Mutant: the node is removed only after a timeout.                       *)
DequeueIfTimedOut(t) ==
  /\ pc[t] = "awake" /\ ~InIsr
  /\ IF td[t].err = 0 THEN list_remove(t) ELSE UNCHANGED <<nxt, prv>>
  /\ pc' = [pc EXCEPT ![t] = "unlinked"]
  /\ UNCHANGED <<td, ret, modem, inits, walk>>
Dequeue(t) ==
  /\ pc[t] = "awake" /\ ~InIsr
  /\ list_remove(t)
  /\ pc' = [pc EXCEPT ![t] = "unlinked"]
  /\ UNCHANGED <<td, ret, modem, inits, walk>>

(* Mutant: a timeout is reported as a wake-up.                             *)
ResultIgnoringErr(f) ==
  IF ~nrf_modem_is_initialized THEN ESHUTDOWN ELSE OK
Result(f) ==
  IF ~nrf_modem_is_initialized THEN ESHUTDOWN
  ELSE IF f.err = 0 /\ f.val >= 0 THEN EAGAIN ELSE OK

(* The function returns: its frame, node included, is gone.  The links of  *)
(* the node are unspecified from here on (see Successors); NULL stands     *)
(* for that.                                                               *)
Return(t) ==
  /\ pc[t] = "unlinked" /\ ~InIsr
  /\ ret' = [ret EXCEPT ![t] = Result(td[t])]
  /\ td' = [td EXCEPT ![t] = NoFrame]
  /\ nxt' = [nxt EXCEPT ![t] = NULL]
  /\ prv' = [prv EXCEPT ![t] = NULL]
  /\ pc' = [pc EXCEPT ![t] = "idle"]
  /\ UNCHANGED <<modem, inits, walk>>

-----------------------------------------------------------------------------
Init ==
  /\ pc = [t \in Threads |-> "idle"]
  /\ td = [t \in Threads |-> NoFrame]
  /\ nxt = [n \in Nodes |-> NULL]
  /\ prv = [n \in Nodes |-> NULL]
  /\ ret = [t \in Threads |-> NULL]
  /\ modem = "off" /\ inits = 0
  /\ walk = [w \in Walkers |-> [cur |-> NULL, context |-> 0, posted |-> FALSE]]

Timedwait(t) ==
  \/ Refuse(t)
  \/ Poll(t)
  \/ \E c \in Contexts, v \in Timeouts : Prepare(t, c, v)
  \/ Enqueue(t)
  \/ SemTake(t)
  \/ SemTimeout(t)
  \/ Dequeue(t)
  \/ Return(t)

Next ==
  \/ nrf_modem_os_init
  \/ ModemInitDone
  \/ nrf_modem_os_shutdown
  \/ \E c \in Contexts : nrf_modem_os_event_notify(c)
  \/ NotifyTurn
  \/ ShutdownPost
  \/ ShutdownNext
  \/ \E t \in Threads : Timedwait(t)

(* The scheduler runs every ready thread even though interrupts keep       *)
(* coming, a timer that was set expires, and a walk goes on.  Nothing      *)
(* obliges the modem to send an event or a thread to make a call.          *)
Progress(t) ==
  \/ Enqueue(t)
  \/ SemTake(t)
  \/ SemTimeout(t) /\ td[t].tmout > 0
  \/ Dequeue(t)
  \/ Return(t)

Fairness ==
  /\ WF_vars(NotifyTurn)
  /\ SF_vars(ShutdownPost \/ ShutdownNext)
  /\ \A t \in Threads : SF_vars(Progress(t))

Spec == Init /\ [][Next]_vars

FairSpec == Spec /\ Fairness

-----------------------------------------------------------------------------
(* Properties *)

Cursor == [cur : Threads \cup {NULL}, context : Contexts, posted : BOOLEAN]

(* Types, and the frame of a thread exists exactly while it is in          *)
(* nrf_modem_os_timedwait past the early returns.                          *)
TypeOK ==
  /\ pc \in [Threads -> {"idle", "ready", "queued", "awake", "unlinked"}]
  /\ td \in [Threads -> Td \cup {NoFrame}]
  /\ \A t \in Threads : pc[t] # "idle" <=> td[t] \in Td
  /\ nxt \in [Nodes -> Nodes \cup {NULL}]
  /\ prv \in [Nodes -> Nodes \cup {NULL}]
  /\ ret \in [Threads -> {OK, EAGAIN, ESHUTDOWN, NULL}]
  /\ modem \in {"off", "starting", "on"}
  /\ inits \in 0 .. MaxInits
  /\ walk \in [Walkers -> Cursor]

Ring == {Head} \cup {t \in Threads : Linked(t)}

(* No link leads to a stack frame that is gone: once nrf_modem_os_init has *)
(* run, the links of the list head and of every linked node lead to the    *)
(* head or to the node of a thread still inside nrf_modem_os_timedwait.    *)
(* Holds even when nrf_modem_os_init empties the list under threads that   *)
(* still sleep in it.                                                      *)
NoDangling ==
  inits > 0 => \A n \in Ring : nxt[n] \in Ring /\ prv[n] \in Ring

(* Two links that meet at a thread's node agree.  Nothing is said of links *)
(* to the head: after a second nrf_modem_os_init the threads that already  *)
(* slept still point to it, and it no longer points back.                  *)
LinksAgree ==
  inits > 0 =>
    \A n \in Ring, t \in Threads :
      Linked(t) => /\ nxt[n] = t => prv[t] = n
                   /\ prv[n] = t => nxt[t] = n

Closed(S) == \A n \in S : nxt[n] \in S

(* As long as nrf_modem_os_init has run once only, the list is one ring    *)
(* through the head: links agree in both directions, and following next    *)
(* from the head leads to every thread that sleeps, so a notification      *)
(* passes over nobody.  A second nrf_modem_os_init can break both.         *)
ListWhole ==
  inits = 1 =>
    /\ \A n \in Ring : prv[nxt[n]] = n /\ nxt[prv[n]] = n
    /\ \A S \in SUBSET Ring : Head \in S /\ Closed(S) => S = Ring

(* The interrupt walks on nodes that the head leads to. *)
IsrOnList ==
  InIsr =>
    \A S \in SUBSET Ring : Head \in S /\ Closed(S) => walk["isr"].cur \in S

(* The list head is set up before anyone can use it, and the shutdown      *)
(* walks with the modem off and posts to every context.                    *)
SetUp ==
  /\ modem # "off" => inits > 0
  /\ \A t \in Threads : pc[t] # "idle" => inits > 0
  /\ walk["shutdown"].cur # NULL => modem = "off"
  /\ walk["shutdown"].context = 0

(* posted says what the semaphore and err say of it. *)
PostedAgrees ==
  \A t \in Threads :
    /\ pc[t] \in {"ready", "queued"} => (td[t].posted <=> td[t].sem > 0)
    /\ pc[t] \in {"awake", "unlinked"} => (td[t].posted <=> td[t].err = 1)
    /\ pc[t] # "idle" => td[t].val # 0

(* nrf_modem_os_event_notify in the interrupt dereferences only nodes that *)
(* are linked, so only frames that exist.                                  *)
IsrWalkSafe == InIsr => Linked(walk["isr"].cur)

(* The inductive invariant behind the theorems of ModemOsWaitProofs: no    *)
(* link of the list dangles, links agree, the walk is safe and the result  *)
(* of a wait is what the walkers of nrf_modem.c made it.                   *)
WaitInv ==
  /\ TypeOK /\ SetUp /\ NoDangling /\ LinksAgree /\ IsrWalkSafe /\ PostedAgrees
  /\ ListWhole /\ IsrOnList

(* nrf_modem_os_timedwait's result tells the truth about the wait: 0 after *)
(* a post to this very call or an endless wait, -NRF_EAGAIN only if the    *)
(* wait was limited and no post had come before it ended, -NRF_ESHUTDOWN   *)
(* only if the modem is not initialized.                                   *)
ResultSound ==
  [][\A t \in Threads :
       pc[t] = "unlinked" /\ pc'[t] = "idle" =>
         /\ ret'[t] = OK => td[t].posted \/ td[t].val < 0
         /\ ret'[t] = EAGAIN => ~td[t].posted /\ td[t].val > 0
         /\ ret'[t] = ESHUTDOWN => modem # "on"]_vars

(* The comment above nrf_modem_os_timedwait: "0 The thread is woken before *)
(* the timeout expired."  Not so for a negative timeout, whose wait is cut *)
(* after 500 ms and then returns 0 though nobody woke the thread.          *)
ZeroMeansWoken ==
  [][\A t \in Threads :
       pc[t] = "unlinked" /\ pc'[t] = "idle" /\ ret'[t] = OK
         => td[t].posted]_vars

(* The nodes that td_next leads to from n: the least set with n that it    *)
(* does not leave.                                                         *)
From(n) ==
  {t \in Threads :
     \A S \in SUBSET Threads :
       n \in S /\ (\A m \in S : td_next(m) \in S \cup {NULL}) => t \in S}

(* What the interrupt's walk has yet to visit. *)
Ahead == IF InIsr THEN From(walk["isr"].cur) ELSE {}

(* The interrupt walks the list of sleepers in one direction: each turn of *)
(* the loop of nrf_modem_os_event_notify leaves a node behind for good, so *)
(* it ends after as many turns as there are threads.  Holds even when a    *)
(* second nrf_modem_os_init and later removals have mixed up the links.    *)
WalkAdvances ==
  [][InIsr => Ahead' \subseteq Ahead \ {walk["isr"].cur}]_vars

(* The threads that the shutdown's walk has yet to post, from where it     *)
(* stands, and the sleepers it will not wake: not posted and not ahead.    *)
ToPost ==
  LET s == walk["shutdown"] IN
  IF s.cur = NULL THEN {} ELSE From(s.cur) \ {t \in {s.cur} : s.posted}

PassedOver == {t \in Threads : pc[t] = "queued" /\ td[t].sem = 0} \ ToPost

(* nrf_modem_os_shutdown walks without a critical section while threads    *)
(* time out, unlink their nodes, return and append new ones.  When it      *)
(* starts it has every sleeper ahead of it, and no sleeper falls behind it *)
(* unposted, neither by its own steps nor by those of the others, as long  *)
(* as the thread it stands on has not unlinked its node.  Nothing is said  *)
(* of the walk once that thread has (between the post of line 115 and the  *)
(* td_next of line 114, or before the post, by a timeout): it then reads a *)
(* stale next or a frame that is gone.                                     *)
ShutdownPassesNobody ==
  [][inits = 1 =>
       LET n == walk["shutdown"].cur IN
       /\ modem = "on" /\ modem' = "off" => PassedOver' = {}
       /\ n # NULL /\ Linked(n) => PassedOver' \subseteq PassedOver]_vars

(* Every wait ends, notified or not, lost notification or not: the 500 ms  *)
(* cut bounds the endless ones (line 167), the caller's timeout the others *)
(* provided it fits the int it is converted in (line 169).                 *)
Fits(v) == v < 0 \/ v * UsPerMs <= IntMax
WaitReturns ==
  \A t \in Threads :
    pc[t] # "idle" /\ Fits(td[t].val) ~> pc[t] = "idle"

=============================================================================
