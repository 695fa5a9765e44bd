----------------------------- MODULE MCServices -----------------------------
(***************************************************************************)
(* The parts of the program that share no state with one another, checked  *)
(* in one run: NtpTime, HttpClient, Gnss and ShmZone.  Init chooses one of *)
(* them; it alone takes steps and the others stay as they start, so the    *)
(* states are those of the four specifications side by side.               *)
(***************************************************************************)
EXTENDS Integers, Sequences

CONSTANTS
  Base, Epoch, Times, None,
  Request, File, Chunk, UsPerSec, PerKilo, UintMod, MaxTime,
  MaxFrames, MaxEvents,
  Callers, Sizes, MaxChunks

VARIABLES
  which,
  ntpAt, now, xmt, filled, unixtime, printed,
  httpAt, uptime, time_started, asked, sent, short, got, position, speed, began,
  frames, events, gnssAt, announced, pvt, shown, heard,
  booted, free, chunks, critnest, job

ntp  == <<ntpAt, now, xmt, filled, unixtime, printed>>
http == <<httpAt, uptime, time_started, asked, sent, short, got, position,
          speed, began>>
gnss == <<frames, events, gnssAt, announced, pvt, shown, heard>>
shm  == <<booted, free, chunks, critnest, job>>
vars == <<which, ntp, http, gnss, shm>>

Ntp  == INSTANCE NtpTime
Http == INSTANCE HttpClient
Gps  == INSTANCE Gnss
Shm  == INSTANCE ShmZone

ASSUME ServicesAssumption ==
  Ntp!NtpAssumption /\ Http!HttpAssumption /\ Gps!GnssAssumption /\ Shm!ShmAssumption

(* The component that is not chosen starts anywhere it can start; one such *)
(* state is enough.                                                        *)
Init ==
  /\ which \in {"ntp", "http", "gnss", "shm"}
  /\ Ntp!Init /\ Http!Init /\ Gps!Init /\ Shm!Init
  /\ which # "ntp"  => now = 0 /\ xmt = Ntp!Zeros
  /\ which # "http" => uptime = 0

NtpStep  == which = "ntp"  /\ Ntp!Next  /\ UNCHANGED <<which, http, gnss, shm>>
HttpStep == which = "http" /\ Http!Next /\ UNCHANGED <<which, ntp, gnss, shm>>
GnssStep == which = "gnss" /\ Gps!Next  /\ UNCHANGED <<which, ntp, http, shm>>
ShmStep  == which = "shm"  /\ Shm!Next  /\ UNCHANGED <<which, ntp, http, gnss>>

Next == NtpStep \/ HttpStep \/ GnssStep \/ ShmStep

Spec == Init /\ [][Next]_vars

-----------------------------------------------------------------------------
(* Properties *)

(* The variables of ntp.c, http.c, gps.c and board.c keep their types, and *)
(* what the theorems of ServicesProofs rest on holds at every moment.      *)
ServicesInv == Ntp!NtpInv /\ Http!HttpInv /\ Gps!GnssInv /\ Shm!ZoneInv

(* The time ntp_main prints is the server's, as far as 32 bits carry it;   *)
(* an answer that ends before the time stamp prints the epoch.             *)
TimeExplained == Ntp!TimeExplained

(* httpc reads an answer to a request not sent whole only if httpc_write   *)
(* has hidden a short send from it.                                        *)
RequestExplained == Http!RequestExplained

(* httpc_dump_cb computes kilobits per second since the start, and divides *)
(* by 0 in the first second only.                                          *)
SpeedRight == Http!SpeedRight

(* gnss_event_handler prints positions of valid frames only, and nothing   *)
(* older than the event it answers.                                        *)
FixSound == Gps!FixSound

(* Chunks of shm_alloc are disjoint and stay clear of the regions given to *)
(* the modem, nothing of the zone is lost, and shm_alloc and shm_free      *)
(* leave their critical sections.                                          *)
ZoneSound == Shm!ZoneSound

=============================================================================
