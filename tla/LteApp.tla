------------------------------- MODULE LteApp -------------------------------
(***************************************************************************)
(* The application's main thread: main and lte_connect (src/src/main.c)    *)
(* with the functions they run to completion one after another, ntp_main   *)
(* (src/src/ntp.c), connect_to_server, httpc_main with httpc_open          *)
(* (src/src/http.c) and gps_init (src/src/gps.c); beside it the UART       *)
(* interrupt (nrf_input) and the answer to the asynchronous AT+CESQ.       *)
(*                                                                         *)
(* The functions that are straight sequences of library calls are tables   *)
(* of those calls (Script), each with what the code does when it fails.    *)
(* The modem library may let any call fail.                                *)
(***************************************************************************)
EXTENDS Integers, Sequences

CONSTANTS
  LC_MAX_READ_LENGTH,  \* size of the UART input buffer (128)
  MaxSockets,          \* sockets the modem library offers
  MaxOpens,            \* bound: httpc_open calls within one httpc_get
  Inputs,              \* characters that may come in on the UART
  StoredModes,         \* what the modem may have stored of a mode before
  NULL

ASSUME AppAssumption ==
  /\ LC_MAX_READ_LENGTH \in Nat \ {0}
  /\ MaxSockets \in Nat \ {0} /\ MaxOpens \in Nat
  /\ Inputs \subseteq Nat /\ StoredModes \subseteq BOOLEAN

VARIABLES
  fn,             \* the function (or part of one) main is in
  k,              \* the next call of its script
  open,           \* open sockets, by the function that opened them
  opens,          \* httpc_open calls so far
  radio,          \* what the AT commands have switched on in the modem
  gnss,           \* whether nrf_modem_gnss_start has been called
  failed,         \* history: calls that failed, of those worth remembering
  cereg,          \* the registration status of the modem
  status,         \* the local variable of lte_wait
  seen,           \* history: the last status lte_wait really read
  signal,         \* the AT+CESQ request
  buffer_fill,
  ready_to_send

sockVars == <<open, opens>>
waitVars == <<cereg, status, seen>>
uartVars == <<buffer_fill, ready_to_send>>
vars == <<fn, k, sockVars, radio, gnss, failed, waitVars, signal, uartVars>>

-----------------------------------------------------------------------------
(* The calls.  fail: what the caller does when the call fails.             *)
(*   "ignore"  it goes on          "return"  it returns                    *)
(*   "close"   it closes the socket and returns          "panic"           *)

At(cmd)         == [op |-> "at", what |-> cmd, fail |-> "ignore"]
Call(op, fail)  == [op |-> op, what |-> NULL, fail |-> fail]
NtpConnect(op)  == [op |-> op, what |-> "ntp_connect", fail |-> "return"]

(* lte_connect up to lte_wait, and from httpc_main to its end. *)
lte_setup ==
  << At("flight"), At("systm_mode"), At("catm1_gps"), At("magpio"),
     At("coex0"), At("psm_req"), At("cind"), At("edrx_req"),
     At("XDATAPRFL"), At("lock_bands"), At("subscribe"), At("normal") >>

(* Mutant: LTE is left on when GNSS is switched on.                        *)
lte_gps_with_lte == << At("edrx_disable"), At("gps_enable") >>
lte_gps == << At("lte_disable"), At("edrx_disable"), At("gps_enable") >>

(* ntp_main with ntp_connect. *)
(* Mutants: the socket stays open when no answer comes; a failed send is   *)
(* reported and the answer awaited on the socket just closed.              *)
ntp_main_leaks ==
  << Call("getaddrinfo", "return"), Call("socket", "return"),
     NtpConnect("setsockopt"), NtpConnect("setsockopt"),
     NtpConnect("setsockopt"), NtpConnect("bind"), NtpConnect("connect"),
     Call("send", "close"), Call("recvfrom", "return"),
     Call("close", "ignore") >>
ntp_main_early_close ==
  << Call("getaddrinfo", "return"), Call("socket", "return"),
     NtpConnect("setsockopt"), NtpConnect("setsockopt"),
     NtpConnect("setsockopt"), NtpConnect("bind"), NtpConnect("connect"),
     Call("send", "close"), Call("close", "ignore"),
     Call("recvfrom", "return") >>
ntp_main ==
  << Call("getaddrinfo", "return"), Call("socket", "return"),
     NtpConnect("setsockopt"),    \* NRF_SO_BINDTOPDN
     NtpConnect("setsockopt"),    \* NRF_SO_SNDTIMEO
     NtpConnect("setsockopt"),    \* NRF_SO_RCVTIMEO
     NtpConnect("bind"), NtpConnect("connect"),
     Call("send", "close"), Call("recvfrom", "close"),
     Call("close", "ignore") >>

(* Mutant: the socket is closed only if the request could not be sent.     *)
connect_to_server_leaks ==
  << Call("socket", "panic"), Call("setsockopt", "ignore"),
     Call("getaddrinfo", "panic"), Call("bind", "panic"),
     Call("connect", "panic"), Call("send", "close") >>
connect_to_server ==
  << Call("socket", "panic"), Call("setsockopt", "ignore"),
     Call("getaddrinfo", "panic"), Call("bind", "panic"),
     Call("connect", "panic"), Call("send", "close"),
     Call("close", "ignore") >>

httpc_open ==
  << Call("socket", "panic"), Call("setsockopt", "ignore"),
     Call("getaddrinfo", "panic"), Call("bind", "panic"),
     Call("connect", "panic") >>

gps_init ==
  << Call("event_handler_set", "ignore"),
     Call("power_mode_set", "return"), Call("fix_retry_set", "return"),
     Call("fix_interval_set", "return"), Call("nmea_mask_set", "return"),
     Call("gnss_start", "ignore") >>

Script ==
  [lte_setup |-> lte_setup, ntp_main |-> ntp_main,
   connect_to_server |-> connect_to_server, httpc_open |-> httpc_open,
   lte_gps |-> lte_gps, gps_init |-> gps_init]

(* Where the main thread goes when a script returns, whatever it returned. *)
After ==
  [lte_setup |-> "lte_wait", ntp_main |-> "connect_to_server",
   connect_to_server |-> "httpc_main", httpc_open |-> "httpc_main",
   lte_gps |-> "math_test", gps_init |-> "idle"]

Openers == {"ntp_main", "connect_to_server", "httpc_open"}
OnSocket == {"setsockopt", "bind", "connect", "send", "recvfrom", "close"}

-----------------------------------------------------------------------------
(* The modem library, as far as the application depends on it. *)

(* What an AT command that succeeds switches: CFUN and the modes. *)
AtEffect(cmd) ==
  CASE cmd = "flight"       -> [radio EXCEPT !.lte = FALSE, !.gnss = FALSE]
    [] cmd = "catm1_gps"    -> [radio EXCEPT !.system = TRUE]
    [] cmd = "psm_req"      -> [radio EXCEPT !.psm = TRUE]
    [] cmd = "edrx_req"     -> [radio EXCEPT !.edrx = TRUE]
    [] cmd = "edrx_disable" -> [radio EXCEPT !.edrx = FALSE]
    [] cmd = "normal"       -> [radio EXCEPT !.lte = TRUE, !.gnss = @ \/ radio.system]
    [] cmd = "lte_disable"  -> [radio EXCEPT !.lte = FALSE]
    [] cmd = "gps_enable"   -> [radio EXCEPT !.gnss = @ \/ radio.system]
    [] OTHER                -> radio

(* Failures the properties ask about. *)
Remembered ==
  {"catm1_gps", "psm_req", "lte_disable", "edrx_disable",
   "gps_enable", "ntp_connect"}

InUse == open["ntp_main"] + open["connect_to_server"] + open["httpc_open"]

-----------------------------------------------------------------------------
(* Running a script *)

Now == Script[fn][k]
InScript == fn \in DOMAIN Script

Leave == fn' = After[fn] /\ k' = 1
Advance == IF k = Len(Script[fn]) THEN Leave ELSE fn' = fn /\ k' = k + 1

(* gps_init does not look at what nrf_modem_gnss_start returns. *)
GnssStarted == gnss' = (gnss \/ Now.op = "gnss_start")

(* The call returns success. *)
CallSucceeds ==
  /\ InScript
  /\ Now.op = "socket" => InUse < MaxSockets
  /\ open' = CASE Now.op = "socket" -> [open EXCEPT ![fn] = @ + 1]
               [] Now.op = "close"  -> [open EXCEPT ![fn] = @ - 1]
               [] OTHER             -> open
  /\ radio' = IF Now.op = "at" THEN AtEffect(Now.what) ELSE radio
  /\ GnssStarted
  /\ Advance
  /\ UNCHANGED <<opens, failed, waitVars, signal, uartVars>>

(* It returns an error; nrf_close's is not looked at. *)
CallFails ==
  /\ InScript /\ Now.op # "close"
  /\ failed' = failed \cup ({Now.what} \cap Remembered)
  /\ CASE Now.fail = "ignore" -> Advance /\ open' = open
       [] Now.fail = "return" -> Leave /\ open' = open
       [] Now.fail = "close"  -> Leave /\ open' = [open EXCEPT ![fn] = @ - 1]
       [] Now.fail = "panic"  -> fn' = "panic" /\ k' = 1 /\ open' = open
  /\ GnssStarted
  /\ UNCHANGED <<opens, radio, waitVars, signal, uartVars>>

-----------------------------------------------------------------------------
(* main, up to lte_connect *)

(* The UART callback is in place from here on, if there is the device. *)
RegisterUart(found) ==
  /\ fn = "main"
  /\ fn' = IF found THEN "nrf_modem_init" ELSE "panic"
  /\ UNCHANGED <<k, sockVars, radio, gnss, failed, waitVars, signal, uartVars>>

nrf_modem_init(ok) ==
  /\ fn = "nrf_modem_init"
  /\ fn' = IF ok THEN "reset_fill" ELSE "panic"
  /\ UNCHANGED <<k, sockVars, radio, gnss, failed, waitVars, signal, uartVars>>

ResetFill ==
  /\ fn = "reset_fill" /\ fn' = "reset_ready"
  /\ buffer_fill' = 0
  /\ UNCHANGED <<k, sockVars, radio, gnss, failed, waitVars, signal,
                 ready_to_send>>

ResetReady ==
  /\ fn = "reset_ready" /\ fn' = "lte_setup"
  /\ ready_to_send' = 0
  /\ UNCHANGED <<k, sockVars, radio, gnss, failed, waitVars, signal,
                 buffer_fill>>

-----------------------------------------------------------------------------
(* lte_wait *)

(* Values of status: the seven of the enumeration and one of no case. *)
Statuses   == {0, 1, 2, 3, 4, 5, 90}
OtherStat  == 77
Registered == {1, 5}
Refused    == {3, 90}

(* The switch over status: where the main thread goes. *)
(* Mutants: no break after the first case; no case for roaming.            *)
SwitchFallsThrough(s) ==
  IF s \in {0} \cup Registered THEN "lte_signal"
  ELSE IF s \in Refused THEN "httpc_main" ELSE "lte_wait"
SwitchWithoutRoaming(s) ==
  IF s = 1 THEN "lte_signal"
  ELSE IF s \in Refused THEN "httpc_main" ELSE "lte_wait"
Switch(s) ==
  IF s \in Registered THEN "lte_signal"
  ELSE IF s \in Refused THEN "httpc_main" ELSE "lte_wait"

ScanSucceeds ==
  /\ fn = "lte_wait"
  /\ status' = cereg /\ seen' = cereg
  /\ fn' = Switch(status')
  /\ UNCHANGED <<k, sockVars, radio, gnss, failed, cereg, signal, uartVars>>

(* Nothing is stored in status and err is not looked at.  Until a first    *)
(* scan succeeds status is uninitialized: any value.                       *)
ScanFails ==
  /\ fn = "lte_wait"
  /\ IF seen = NULL THEN status' \in Statuses \cup {OtherStat}
                    ELSE status' = status
  /\ fn' = Switch(status')
  /\ UNCHANGED <<k, sockVars, radio, gnss, failed, cereg, seen, signal,
                 uartVars>>

(* The network changes its mind while the application watches. *)
NetworkChanges(s) ==
  /\ fn = "lte_wait" /\ s # cereg
  /\ cereg' = s
  /\ UNCHANGED <<fn, k, sockVars, radio, gnss, failed, status, seen, signal,
                 uartVars>>

-----------------------------------------------------------------------------
(* The rest of lte_connect and main *)

lte_signal(ok) ==
  /\ fn = "lte_signal" /\ fn' = "ntp_main"
  /\ signal' = IF ok THEN "requested" ELSE signal
  /\ UNCHANGED <<k, sockVars, radio, gnss, failed, waitVars, uartVars>>

(* The library calls back with the answer, beside the main thread.  With   *)
(* fewer than six fields the decoder runs past the end of the answer.      *)
lte_signal_quality_decode(fields) ==
  /\ signal = "requested" /\ fn # "panic"
  /\ signal' = IF fields < 6 THEN "garbage" ELSE "printed"
  /\ UNCHANGED <<fn, k, sockVars, radio, gnss, failed, waitVars, uartVars>>

(* httpc_get opens a connection, perhaps another one, or gives up; its     *)
(* httpc_close closes nothing.                                             *)
HttpcOpens ==
  /\ fn = "httpc_main" /\ opens < MaxOpens
  /\ fn' = "httpc_open" /\ opens' = opens + 1
  /\ UNCHANGED <<k, open, radio, gnss, failed, waitVars, signal, uartVars>>

HttpcReturns ==
  /\ fn = "httpc_main" /\ fn' = "lte_gps"
  /\ UNCHANGED <<k, sockVars, radio, gnss, failed, waitVars, signal, uartVars>>

math_test ==
  /\ fn = "math_test" /\ fn' = "gps_init"
  /\ UNCHANGED <<k, sockVars, radio, gnss, failed, waitVars, signal, uartVars>>

(* The UART interrupt: a carriage return, or another character. *)
(* Mutant: off by one.                                                     *)
nrf_input_over(c) ==
  /\ fn \notin {"main", "panic"}
  /\ IF c = 13
       THEN ready_to_send' = 1 /\ buffer_fill' = buffer_fill
       ELSE /\ buffer_fill' = IF buffer_fill <= LC_MAX_READ_LENGTH
                                THEN buffer_fill + 1 ELSE buffer_fill
            /\ ready_to_send' = ready_to_send
  /\ UNCHANGED <<fn, k, sockVars, radio, gnss, failed, waitVars, signal>>
nrf_input(c) ==
  /\ fn \notin {"main", "panic"}
  /\ IF c = 13
       THEN ready_to_send' = 1 /\ buffer_fill' = buffer_fill
       ELSE /\ buffer_fill' = IF buffer_fill < LC_MAX_READ_LENGTH
                                THEN buffer_fill + 1 ELSE buffer_fill
            /\ ready_to_send' = ready_to_send
  /\ UNCHANGED <<fn, k, sockVars, radio, gnss, failed, waitVars, signal>>

-----------------------------------------------------------------------------
Init ==
  /\ fn = "main" /\ k = 1
  /\ open = [f \in Openers |-> 0] /\ opens = 0
  /\ radio \in [lte : {FALSE}, gnss : {FALSE}, system : StoredModes,
                psm : StoredModes, edrx : StoredModes]
  /\ gnss = FALSE /\ failed = {}
  /\ cereg = 0 /\ status = NULL /\ seen = NULL
  /\ signal = "none"
  /\ buffer_fill = 0 /\ ready_to_send = 0

Main ==
  \/ \E found \in BOOLEAN : RegisterUart(found)
  \/ \E ok \in BOOLEAN : nrf_modem_init(ok)
  \/ ResetFill
  \/ ResetReady
  \/ CallSucceeds
  \/ CallFails
  \/ ScanSucceeds
  \/ ScanFails
  \/ \E ok \in BOOLEAN : lte_signal(ok)
  \/ math_test

Httpc == HttpcOpens \/ HttpcReturns

Next ==
  \/ Main
  \/ Httpc
  \/ \E s \in Statuses : NetworkChanges(s)
  \/ \E fields \in {1, 6} : lte_signal_quality_decode(fields)
  \/ \E c \in Inputs : nrf_input(c)

Spec == Init /\ [][Next]_vars

(* The main thread is scheduled and the library calls it makes return:     *)
(* those that wait for the network have a timeout (ntp.c 134) or one of    *)
(* the library's own.  httpc_get is the exception: httpc_read's nrf_recv   *)
(* (http.c 135) waits on a socket without NRF_SO_RCVTIMEO, so it need not  *)
(* come back, and Httpc has no fairness.  Scans go on failing only for a   *)
(* while.                                                                  *)
FairSpec == Spec /\ WF_vars(Main) /\ SF_vars(ScanSucceeds)

-----------------------------------------------------------------------------
(* Properties *)

Labels ==
  DOMAIN Script \cup
  {"main", "nrf_modem_init", "reset_fill", "reset_ready", "lte_wait",
   "lte_signal", "httpc_main", "math_test", "idle", "panic"}

(* Types; the index nrf_input writes buffer at stays within it. *)
TypeOK ==
  /\ fn \in Labels /\ k \in 1 .. 12
  /\ open \in [Openers -> Nat] /\ opens \in 0 .. MaxOpens
  /\ radio \in [lte : BOOLEAN, gnss : BOOLEAN, system : BOOLEAN,
                psm : BOOLEAN, edrx : BOOLEAN]
  /\ gnss \in BOOLEAN /\ failed \subseteq Remembered
  /\ cereg \in Statuses /\ status \in Statuses \cup {OtherStat, NULL}
  /\ seen \in Statuses \cup {NULL}
  /\ signal \in {"none", "requested", "printed", "garbage"}
  /\ buffer_fill \in 0 .. LC_MAX_READ_LENGTH /\ ready_to_send \in {0, 1}

(* ntp.c, main.c and http.c use a socket only between nrf_socket and       *)
(* nrf_close, on every error path.                                         *)
SocketDiscipline ==
  fn \in Openers /\ Now.op \in OnSocket => open[fn] > 0

(* The sockets left open are the ones the code leaves open knowingly or    *)
(* not: none of connect_to_server, ntp_main's if ntp_connect failed after  *)
(* it had created it, and one per httpc_open.                              *)
SocketsExplained ==
  /\ fn # "connect_to_server" /\ fn # "panic" => open["connect_to_server"] = 0
  /\ fn # "ntp_main" => open["ntp_main"] <= IF "ntp_connect" \in failed THEN 1 ELSE 0
  /\ open["httpc_open"] <= opens

(* No panic("failed to create socket") in connect_to_server or httpc_open  *)
(* for want of a descriptor, in spite of the sockets left open before, as  *)
(* long as the modem offers one more than httpc_get opens (and two).       *)
SocketsSuffice ==
  MaxSockets >= MaxOpens + 1 /\ MaxSockets >= 2
    /\ fn \in Openers /\ Now.op = "socket"
  => InUse < MaxSockets

(* lte_signal, ntp_main and connect_to_server run only if lte_wait's last  *)
(* successful scan said registered, httpc_main also if it said refused     *)
(* (main.c 439 is not guarded); or if no scan had succeeded at all: a      *)
(* failed scan ends the wait only by way of the uninitialized status.      *)
RegistrationGate ==
  LET Read(S) == seen \in S \/ (seen = NULL /\ status \in S) IN
  /\ fn \in {"lte_signal", "ntp_main", "connect_to_server"} => Read(Registered)
  /\ fn \in {"httpc_main", "httpc_open"} => Read(Registered \cup Refused)

(* When nrf_modem_gnss_start is called, the modem is in the mode that      *)
(* lte_connect's comments ask for (LTE off, GNSS on, power saving on, eDRX *)
(* off) unless the very AT command for it failed.                          *)
GpsModeExplained ==
  gnss =>
    /\ radio.lte => "lte_disable" \in failed
    /\ ~radio.gnss => "catm1_gps" \in failed \/ "gps_enable" \in failed
    /\ ~radio.psm => "psm_req" \in failed
    /\ radio.edrx => "edrx_disable" \in failed

(* Parts of the inductive invariant.  Where the main thread is: within a   *)
(* script, or at the start of the next one.                                *)
ScriptPlace == k \in 1 .. (IF InScript THEN Len(Script[fn]) ELSE 1)

BeforeNtp ==
  {"main", "nrf_modem_init", "reset_fill", "reset_ready", "lte_setup",
   "lte_wait", "lte_signal"}

(* The sockets open at each place. *)
SocketsHeld ==
  /\ fn \in BeforeNtp => opens = 0 /\ \A f \in Openers : open[f] = 0
  /\ fn = "ntp_main" =>
       /\ open["ntp_main"] = IF k > 2 THEN 1 ELSE 0
       /\ opens = 0 /\ open["connect_to_server"] = 0 /\ open["httpc_open"] = 0
  /\ fn = "connect_to_server" =>
       /\ open["connect_to_server"] = IF k > 1 THEN 1 ELSE 0
       /\ opens = 0 /\ open["httpc_open"] = 0
  /\ fn = "httpc_open" =>
       /\ open["httpc_open"] < opens \/ k > 1
       /\ open["httpc_open"] > 0 \/ k = 1

(* The AT commands that lie behind the main thread. *)
AfterSetup ==
  {"lte_wait", "lte_signal", "ntp_main", "connect_to_server", "httpc_main",
   "httpc_open", "lte_gps", "math_test", "gps_init", "idle"}
SetupPast(n) == (fn = "lte_setup" /\ k > n) \/ fn \in AfterSetup
GpsPast(n) == (fn = "lte_gps" /\ k > n) \/ fn \in {"math_test", "gps_init", "idle"}

(* Each left its mode behind or is remembered as failed. *)
RadioExplained ==
  /\ SetupPast(3) /\ ~radio.system => "catm1_gps" \in failed
  /\ SetupPast(6) /\ ~radio.psm => "psm_req" \in failed
  /\ GpsPast(1) /\ radio.lte => "lte_disable" \in failed
  /\ GpsPast(2) /\ radio.edrx => "edrx_disable" \in failed
  /\ GpsPast(3) /\ ~radio.gnss => "catm1_gps" \in failed \/ "gps_enable" \in failed
  /\ gnss => fn = "idle"

StatusRead == seen # NULL => status = seen

(* The inductive invariant behind the theorems of LteAppProofs: main.c,    *)
(* ntp.c, http.c and gps.c keep their types, and every place of the main   *)
(* thread determines its sockets, the modem's modes and the status read.   *)
AppInv ==
  /\ TypeOK /\ ScriptPlace
  /\ SocketsHeld /\ SocketsExplained
  /\ RadioExplained /\ StatusRead /\ RegistrationGate

(* Once the network settles on registered or refused, the application gets *)
(* through lte_wait and everything after it to its idle loop, or panics,   *)
(* unless httpc_get never returns.                                         *)
MainSettles ==
  <>[](cereg \in Registered \cup Refused) =>
    <>(fn \in {"idle", "panic"}) \/ <>[](fn = "httpc_main")

=============================================================================
