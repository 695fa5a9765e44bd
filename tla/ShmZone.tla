------------------------------ MODULE ShmZone ------------------------------
(***************************************************************************)
(* The memory shared with the modem: the zone that board_init adds and     *)
(* that shm_alloc and shm_free (src/src/board.c) manage inside critical    *)
(* sections, called through nrf_modem_os_shm_tx_alloc and _free            *)
(* (src/src/nrf_modem.c) by threads and by the IPC interrupt, among the    *)
(* regions that main.c gives to the modem and the ldscript to the program. *)
(*                                                                         *)
(* mdx_fl_malloc and mdx_fl_free are external: each reads the free list    *)
(* and writes it back.  Addresses are in units of 0x800 from 0x20000000.   *)
(***************************************************************************)
EXTENDS Integers, FiniteSets

CONSTANTS
  Callers,    \* threads and the interrupt
  Sizes,      \* sizes asked for
  MaxChunks   \* bound: chunks in use

VARIABLES
  booted,     \* board_init is over
  free,       \* the free list of mdx_fl_shm_tx_zone, as a set of units
  chunks,     \* what callers hold: [owner, units]
  critnest,   \* depth of critical sections
  job         \* what each caller does inside: [op, size, units, seen]

shmVars == <<booted, free, chunks, critnest, job>>

ShmAssumption == Sizes \subseteq Nat /\ MaxChunks \in Nat

-----------------------------------------------------------------------------
Region(base, size) == base .. base + size - 1

SHMEM_CTRL == Region(32, 2)
SHMEM_TX   == Region(34, 7)
SHMEM_RX   == Region(49, 15)
SRAM_MODEM == Region(32, 32)   \* sram1, the end of the first 128K

(* The region board_init adds. *)
ShmTxZone  == Region(41, 8)

Outside == [op |-> "none", size |-> 0, units |-> {}, seen |-> {}]

Init ==
  /\ booted = FALSE /\ free = {} /\ chunks = {} /\ critnest = 0
  /\ job = [c \in Callers |-> Outside]

(* Runs before there are threads. *)
board_init ==
  /\ ~booted /\ booted' = TRUE
  /\ free' = ShmTxZone
  /\ UNCHANGED <<chunks, critnest, job>>

(* Inside a critical section nobody else runs.  Mutant: none is entered.   *)
MayEnterAnyTime == TRUE
MayEnter == critnest = 0

Enter(c, j) ==
  /\ booted /\ MayEnter /\ job[c] = Outside
  /\ critnest' = critnest + 1
  /\ job' = [job EXCEPT ![c] = j]

(* shm_alloc and shm_free up to the allocator's look at its list ... *)
shm_alloc(c, size) ==
  /\ Cardinality(chunks) < MaxChunks
  /\ Enter(c, [op |-> "alloc", size |-> size, units |-> {}, seen |-> free])
  /\ UNCHANGED <<booted, free, chunks>>

shm_free(c, chunk) ==
  /\ Enter(c, [op |-> "free", size |-> 0, units |-> chunk.units, seen |-> free])
  /\ chunks' = chunks \ {chunk}
  /\ UNCHANGED <<booted, free>>

Gaps(list, size) == {Region(b, size) : b \in {b \in list : Region(b, size) \subseteq list}}

Exit(c) == critnest' = critnest - 1 /\ job' = [job EXCEPT ![c] = Outside]

(* ... and from there to their end.  mdx_fl_malloc returns NULL when no    *)
(* gap is long enough.                                                     *)
AllocEnds(c) ==
  /\ job[c].op = "alloc"
  /\ LET gaps == Gaps(job[c].seen, job[c].size) IN
     IF gaps = {} THEN UNCHANGED <<free, chunks>>
     ELSE \E g \in gaps :
            /\ free' = job[c].seen \ g
            /\ chunks' = chunks \cup {[owner |-> c, units |-> g]}
  /\ Exit(c)
  /\ UNCHANGED booted

FreeEnds(c) ==
  /\ job[c].op = "free"
  /\ free' = job[c].seen \cup job[c].units
  /\ Exit(c)
  /\ UNCHANGED <<booted, chunks>>

Next ==
  \/ board_init
  \/ \E c \in Callers :
       \/ \E size \in Sizes : shm_alloc(c, size)
       \/ \E chunk \in chunks : shm_free(c, chunk)
       \/ AllocEnds(c)
       \/ FreeEnds(c)

Spec == Init /\ [][Next]_shmVars

-----------------------------------------------------------------------------
(* Properties *)

Held == UNION {k.units : k \in chunks}
Inside == {c \in Callers : job[c] # Outside}

TypeOK ==
  /\ booted \in BOOLEAN /\ free \subseteq SRAM_MODEM /\ critnest \in Nat
  /\ chunks \subseteq [owner : Callers, units : SUBSET SRAM_MODEM]
  /\ IsFiniteSet(chunks) /\ Cardinality(chunks) <= MaxChunks
  /\ job \in [Callers -> [op : {"none", "alloc", "free"}, size : Sizes \cup {0},
                         units : SUBSET SRAM_MODEM, seen : SUBSET SRAM_MODEM]]

(* No two callers of shm_alloc hold the same memory, what they hold is not *)
(* on the free list, and between calls nothing of the zone has gone        *)
(* astray: their critical sections keep threads and interrupt out of each  *)
(* other's updates.                                                        *)
ChunksApart ==
  /\ \A k, l \in chunks : k # l => k.units \cap l.units = {}
  /\ free \cap Held = {}
  /\ booted /\ Inside = {} => free \cup Held = ShmTxZone

(* Every chunk lies in the first 128K and outside the regions that         *)
(* init_params gives to the modem.                                         *)
ChunksPlaced ==
  /\ Held \subseteq SRAM_MODEM
  /\ Held \cap (SHMEM_CTRL \cup SHMEM_TX \cup SHMEM_RX) = {}

(* shm_alloc and shm_free leave the critical section they have entered on  *)
(* every way out: the next caller gets in.                                 *)
CritBalanced == critnest = Cardinality(Inside)

(* Together: the zone of shm_alloc is sound. *)
ZoneSound == ChunksApart /\ ChunksPlaced /\ CritBalanced

(* What a caller inside shm_alloc or shm_free works on: the list as it     *)
(* still is, and the memory it gives back.                                 *)
JobSound(c) ==
  /\ job[c].op \in {"alloc", "free"} /\ job[c].seen = free
  /\ job[c].op = "alloc" =>
       job[c].units = {} /\ Cardinality(chunks) < MaxChunks
  /\ job[c].units \cap (free \cup Held) = {}

(* The inductive invariant behind the theorem about board.c: at most one   *)
(* caller is inside, it saw the list as it is, and the free list, the      *)
(* chunks and what is being given back make up the zone at every moment.   *)
ZoneInv ==
  /\ TypeOK /\ ChunksApart
  /\ \A k \in chunks : k.units \subseteq ShmTxZone
  /\ ~booted => chunks = {} /\ free = {} /\ Inside = {}
  /\ critnest = 0 <=> Inside = {}
  /\ Inside = {} \/ \E c \in Callers :
       /\ Inside = {c} /\ critnest = 1 /\ JobSound(c)
       /\ free \cup Held \cup job[c].units = ShmTxZone

=============================================================================
