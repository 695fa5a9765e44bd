-------------------------------- MODULE Gnss --------------------------------
(***************************************************************************)
(* gnss_event_handler of src/src/gps.c.  The modem computes a frame every  *)
(* second, keeps only the last one and announces it; announcements may be  *)
(* handled late, so that several of them read the same frame, and the next *)
(* frame may arrive while the handler works on its copy of one.            *)
(*                                                                         *)
(* A frame is its flags; satellites, coordinates and their formatting are  *)
(* left out.  The modem, its frames and its events are external.  gps_init *)
(* is in LteApp.                                                           *)
(***************************************************************************)
EXTENDS Integers, Sequences

CONSTANTS MaxFrames, MaxEvents   \* bounds: frames, announcements under way

VARIABLES
  frames,     \* flags of the frames computed so far; the modem keeps the last
  events,     \* announcements not yet handled: [kind, frame]
  gnssAt,     \* "idle", or "pvt" with a frame to be judged
  announced,  \* the frame of the event being handled
  pvt,        \* the handler's copy: [frame, flags]
  shown,      \* the position printed last: [frame, event], the frame it is
              \* from and the frame whose event was answered; 0 before
  heard       \* the same for the NMEA sentence

gnssVars == <<frames, events, gnssAt, announced, pvt, shown, heard>>

GnssAssumption == {MaxFrames, MaxEvents} \subseteq Nat

-----------------------------------------------------------------------------
FIX_VALID == "FIX_VALID"
NOT_ENOUGH_WINDOW_TIME == "NOT_ENOUGH_WINDOW_TIME"
DEADLINE_MISSED == "DEADLINE_MISSED"
Flags == {FIX_VALID, NOT_ENOUGH_WINDOW_TIME, DEADLINE_MISSED}

Kinds == {"PVT", "NMEA", "AGNSS_REQ", "other"}
Latest == [frame |-> Len(frames), flags |-> frames[Len(frames)]]

Output(f, e) == [frame |-> f, event |-> e]

Init ==
  /\ frames = <<>> /\ events = <<>> /\ gnssAt = "idle" /\ announced = 0
  /\ pvt = [frame |-> 0, flags |-> {}]
  /\ shown = Output(0, 0) /\ heard = Output(0, 0)

(* The modem. *)
Compute ==
  /\ Len(frames) < MaxFrames
  /\ \E f \in SUBSET Flags : frames' = Append(frames, f)
  /\ UNCHANGED <<events, gnssAt, announced, pvt, shown, heard>>

Announce(kind) ==
  /\ frames # <<>> /\ Len(events) < MaxEvents
  /\ events' = Append(events, [kind |-> kind, frame |-> Len(frames)])
  /\ UNCHANGED <<frames, gnssAt, announced, pvt, shown, heard>>

Take(kind) ==
  /\ gnssAt = "idle" /\ events # <<>> /\ Head(events).kind = kind
  /\ events' = Tail(events) /\ announced' = Head(events).frame

(* nrf_modem_gnss_read copies the last frame, or fails.  Mutant: the       *)
(* handler goes on after a failure, with what its copy holds.              *)
ReadPvtAnyway(ok) ==
  /\ Take("PVT") /\ gnssAt' = "pvt"
  /\ pvt' = IF ok THEN Latest ELSE pvt
  /\ UNCHANGED <<frames, shown, heard>>
ReadPvt(ok) ==
  /\ Take("PVT")
  /\ IF ok THEN pvt' = Latest /\ gnssAt' = "pvt" ELSE UNCHANGED <<pvt, gnssAt>>
  /\ UNCHANGED <<frames, shown, heard>>

JudgePvt ==
  /\ gnssAt = "pvt" /\ gnssAt' = "idle"
  /\ shown' = IF /\ NOT_ENOUGH_WINDOW_TIME \notin pvt.flags
                 /\ DEADLINE_MISSED \notin pvt.flags
                 /\ FIX_VALID \in pvt.flags
              THEN Output(pvt.frame, announced) ELSE shown
  /\ UNCHANGED <<frames, events, announced, pvt, heard>>

ReadNmea(ok) ==
  /\ Take("NMEA")
  /\ heard' = IF ok THEN Output(Len(frames), announced') ELSE heard
  /\ UNCHANGED <<frames, gnssAt, pvt, shown>>

(* Printed only. *)
OtherEvent ==
  /\ Take("AGNSS_REQ") \/ Take("other")
  /\ UNCHANGED <<frames, gnssAt, pvt, shown, heard>>

gnss_event_handler ==
  \/ \E ok \in BOOLEAN : ReadPvt(ok) \/ ReadNmea(ok)
  \/ JudgePvt
  \/ OtherEvent

Next ==
  \/ Compute
  \/ \E kind \in Kinds : Announce(kind)
  \/ gnss_event_handler

Spec == Init /\ [][Next]_gnssVars

-----------------------------------------------------------------------------
(* Properties *)

Frames == 0 .. MaxFrames
TypeOK ==
  /\ frames \in Seq(SUBSET Flags) /\ Len(frames) <= MaxFrames
  /\ events \in Seq([kind : Kinds, frame : Frames]) /\ Len(events) <= MaxEvents
  /\ gnssAt \in {"idle", "pvt"} /\ announced \in Frames
  /\ {shown, heard} \subseteq [frame : Frames, event : Frames]
  /\ pvt \in [frame : Frames, flags : SUBSET Flags]

(* What gnss_event_handler prints is sound, although events are handled    *)
(* late, reads fail and frames arrive while it works on one: a position is *)
(* from a frame the modem had marked as a valid fix, not blocked and in    *)
(* time, and neither it nor a sentence is older than the event it answers. *)
FixSound ==
  /\ shown.frame # 0 => frames[shown.frame] = {FIX_VALID}
  /\ shown.frame >= shown.event /\ heard.frame >= heard.event

(* The inductive invariant behind the theorem about gps.c: every event,    *)
(* copy and output is about a frame that exists, the handler's copy is     *)
(* that frame and no older than the event it answers.                      *)
GnssInv ==
  /\ TypeOK /\ FixSound
  /\ \A n \in 1 .. Len(events) : events[n].frame \in 1 .. Len(frames)
  /\ shown.frame <= Len(frames)
  /\ gnssAt = "pvt" =>
       /\ pvt.frame \in 1 .. Len(frames) /\ pvt.flags = frames[pvt.frame]
       /\ pvt.frame >= announced

=============================================================================
