---------------------------- MODULE LteAppProofs ----------------------------
(***************************************************************************)
(* Theorems about LteApp, for any number of sockets, connections, buffer   *)
(* size, input and stored modes.  AppInv is inductive.  The lemmas at the  *)
(* start read the scripts as tables (what is called at each place and what *)
(* follows); one lemma per kind of step shows that it keeps AppInv.        *)
(***************************************************************************)
EXTENDS LteApp, TLAPS

(* The scripts by name. *)
LEMMA ScriptNames ==
  /\ DOMAIN Script = {"lte_setup", "ntp_main", "connect_to_server",
                      "httpc_open", "lte_gps", "gps_init"}
  /\ Script["lte_setup"] = lte_setup /\ Script["ntp_main"] = ntp_main
  /\ Script["connect_to_server"] = connect_to_server
  /\ Script["httpc_open"] = httpc_open
  /\ Script["lte_gps"] = lte_gps /\ Script["gps_init"] = gps_init
  BY DEF Script

(* What main calls when a function of its has returned. *)
LEMMA AfterNames ==
  /\ After["lte_setup"] = "lte_wait" /\ After["ntp_main"] = "connect_to_server"
  /\ After["connect_to_server"] = "httpc_main"
  /\ After["httpc_open"] = "httpc_main"
  /\ After["lte_gps"] = "math_test" /\ After["gps_init"] = "idle"
  BY DEF After

(* How many calls each function makes. *)
LEMMA ScriptLengths ==
  /\ Len(lte_setup) = 12 /\ Len(ntp_main) = 10 /\ Len(connect_to_server) = 7
  /\ Len(httpc_open) = 5 /\ Len(lte_gps) = 3 /\ Len(gps_init) = 6
  BY DEF lte_setup, ntp_main, connect_to_server, httpc_open, lte_gps, gps_init

(* ntp_main: the socket exists from the third call on, and the calls in    *)
(* ntp_connect return without closing it.                                  *)
LEMMA NtpTable ==
  ASSUME NEW n \in 1 .. 10
  PROVE  LET c == ntp_main[n] IN
         /\ c.op \notin {"at", "gnss_start"}
         /\ c.op = "socket" <=> n = 2
         /\ c.op = "close" <=> n = 10
         /\ c.op \in OnSocket => n > 2
         /\ n \in 1 .. 2 => c.fail = "return"
         /\ n \in 3 .. 7 => c.fail = "return" /\ c.what = "ntp_connect"
         /\ n \in 8 .. 9 => c.fail = "close"
<1>1. n \in {1, 2, 3, 4, 5, 6, 7, 8, 9, 10}
  OBVIOUS
<1> QED
  BY <1>1 DEF ntp_main, Call, NtpConnect, OnSocket

(* connect_to_server and httpc_open: the socket exists from the second     *)
(* call on; every failure but those of setsockopt and send is a panic.     *)
LEMMA ServerTable ==
  ASSUME NEW n \in 1 .. 7
  PROVE  LET c == connect_to_server[n] IN
         /\ c.op \notin {"at", "gnss_start"}
         /\ c.op = "socket" <=> n = 1
         /\ c.op = "close" <=> n = 7
         /\ n \in {1, 3, 4, 5} => c.fail = "panic"
         /\ n = 2 => c.fail = "ignore"
         /\ n = 6 => c.fail = "close"
<1>1. n \in {1, 2, 3, 4, 5, 6, 7}
  OBVIOUS
<1> QED
  BY <1>1 DEF connect_to_server, Call

(* httpc_open: the socket comes first and is never closed; a call other    *)
(* than setsockopt that fails panics.                                      *)
LEMMA HttpcTable ==
  ASSUME NEW n \in 1 .. 5
  PROVE  LET c == httpc_open[n] IN
         /\ c.op \notin {"at", "gnss_start", "close"}
         /\ c.op = "socket" <=> n = 1
         /\ n # 2 => c.fail = "panic"
         /\ n = 2 => c.fail = "ignore"
<1>1. n \in {1, 2, 3, 4, 5}
  OBVIOUS
<1> QED
  BY <1>1 DEF httpc_open, Call

(* The AT commands: which mode is asked for at which place. *)
LEMMA SetupTable ==
  ASSUME NEW n \in 1 .. 12
  PROVE  LET c == lte_setup[n] IN
         /\ c.op = "at" /\ c.fail = "ignore"
         /\ n = 3 => c.what = "catm1_gps"
         /\ n = 6 => c.what = "psm_req"
<1>1. n \in {1, 2, 3, 4, 5, 6, 7, 8, 9, 10, 11, 12}
  OBVIOUS
<1> QED
  BY <1>1 DEF lte_setup, At

(* The end of main: LTE off, eDRX off, GPS on, whatever the answers. *)
LEMMA GpsTable ==
  ASSUME NEW n \in 1 .. 3
  PROVE  LET c == lte_gps[n] IN
         /\ c.op = "at" /\ c.fail = "ignore"
         /\ n = 1 => c.what = "lte_disable"
         /\ n = 2 => c.what = "edrx_disable"
         /\ n = 3 => c.what = "gps_enable"
<1>1. n \in {1, 2, 3}
  OBVIOUS
<1> QED
  BY <1>1 DEF lte_gps, At

(* gps_init: the start of GNSS is the last call, and the ones before it,   *)
(* but for the handler's, must have succeeded.                             *)
LEMMA GnssTable ==
  ASSUME NEW n \in 1 .. 6
  PROVE  LET c == gps_init[n] IN
         /\ c.op \notin {"at", "socket", "close"}
         /\ c.op = "gnss_start" <=> n = 6
         /\ n \in 2 .. 5 => c.fail = "return"
         /\ n \in {1, 6} => c.fail = "ignore"
<1>1. n \in {1, 2, 3, 4, 5, 6}
  OBVIOUS
<1> QED
  BY <1>1 DEF gps_init, Call

(* The radio modes. *)
Radio == [lte : BOOLEAN, gnss : BOOLEAN, system : BOOLEAN,
          psm : BOOLEAN, edrx : BOOLEAN]

(* What an AT command may do to the modes: the system mode and power       *)
(* saving are never switched off, LTE only by the commands that say so.    *)
LEMMA AtEffects ==
  ASSUME radio \in Radio, NEW cmd
  PROVE  LET r == AtEffect(cmd) IN
         /\ r \in Radio
         /\ r.system <=> (radio.system \/ cmd = "catm1_gps")
         /\ r.psm <=> (radio.psm \/ cmd = "psm_req")
         /\ r.lte <=> IF cmd = "normal" THEN TRUE
                      ELSE IF cmd \in {"flight", "lte_disable"} THEN FALSE
                      ELSE radio.lte
         /\ r.edrx <=> IF cmd = "edrx_req" THEN TRUE
                       ELSE IF cmd = "edrx_disable" THEN FALSE ELSE radio.edrx
         /\ cmd = "gps_enable" => (r.gnss <=> (radio.gnss \/ radio.system))
  BY DEF AtEffect, Radio

(* How far k may go in each function. *)
Last(f) ==
  IF f = "lte_setup" THEN 12 ELSE IF f = "ntp_main" THEN 10
  ELSE IF f = "connect_to_server" THEN 7
  ELSE IF f = "gps_init" THEN 6 ELSE IF f = "httpc_open" THEN 5
  ELSE IF f = "lte_gps" THEN 3 ELSE 1

(* ScriptPlace in numbers, before and after a step. *)
LEMMA Places ==
  /\ ScriptPlace <=> k \in 1 .. Last(fn)
  /\ ScriptPlace' <=> k' \in 1 .. Last(fn')
  BY ScriptNames, ScriptLengths DEF ScriptPlace, InScript, Last

(* All the places main can be at. *)
LEMMA LabelSet ==
  Labels = {"lte_setup", "ntp_main", "connect_to_server", "httpc_open",
            "lte_gps", "gps_init", "main", "nrf_modem_init", "reset_fill",
            "reset_ready", "lte_wait", "lte_signal", "httpc_main",
            "math_test", "idle", "panic"}
  BY ScriptNames DEF Labels

(* A call that is followed by the next one, or by the next function. *)
LEMMA Advances ==
  ASSUME AppInv, InScript, Advance
  PROVE  \/ k < Last(fn) /\ fn' = fn /\ k' = k + 1
         \/ k = Last(fn) /\ fn' = After[fn] /\ k' = 1
<1>1. Len(Script[fn]) = Last(fn) /\ k \in 1 .. Last(fn)
  BY ScriptNames, ScriptLengths DEF InScript, Last, AppInv, ScriptPlace
<1> QED
  BY <1>1 DEF Advance, Leave, Last

(* What no call of a script touches. *)
LEMMA CallLeaves ==
  ASSUME CallSucceeds \/ CallFails
  PROVE  UNCHANGED <<opens, cereg, status, seen, signal, buffer_fill, ready_to_send>>
  BY DEF CallSucceeds, CallFails, waitVars, uartVars

(* The AT commands of lte_connect, whether they succeed or fail. *)
LEMMA AtKeepsInv ==
  ASSUME AppInv, fn \in {"lte_setup", "lte_gps"}, CallSucceeds \/ CallFails
  PROVE  AppInv'
<1>0. /\ TypeOK /\ ScriptPlace /\ SocketsHeld /\ SocketsExplained
      /\ RadioExplained /\ StatusRead /\ RegistrationGate
  BY DEF AppInv
<1>1. UNCHANGED <<opens, cereg, status, seen, signal, buffer_fill, ready_to_send>>
  BY CallLeaves
<1>2. /\ k \in 1 .. Last(fn) /\ Now.op = "at" /\ Now.fail = "ignore"
      /\ fn = "lte_setup" => /\ k = 3 => Now.what = "catm1_gps"
                             /\ k = 6 => Now.what = "psm_req"
      /\ fn = "lte_gps" => /\ k = 1 => Now.what = "lte_disable"
                           /\ k = 2 => Now.what = "edrx_disable"
                           /\ k = 3 => Now.what = "gps_enable"
  BY <1>0, Places, ScriptNames, SetupTable, GpsTable DEF Now, Last
<1>3. open' = open /\ gnss' = gnss /\ Advance /\ InScript
  BY <1>0, <1>2 DEF CallSucceeds, CallFails, GnssStarted, TypeOK
<1>4. \/ radio' = AtEffect(Now.what) /\ failed' = failed
      \/ radio' = radio /\ failed' = failed \cup ({Now.what} \cap Remembered)
  BY <1>2 DEF CallSucceeds, CallFails
<1>5. \/ k < Last(fn) /\ fn' = fn /\ k' = k + 1
      \/ k = 12 /\ fn = "lte_setup" /\ fn' = "lte_wait" /\ k' = 1
      \/ k = 3 /\ fn = "lte_gps" /\ fn' = "math_test" /\ k' = 1
  BY <1>3, Advances, AfterNames DEF Last
<1>6. radio' \in Radio /\ failed' \subseteq Remembered /\ failed \subseteq failed'
  BY <1>0, <1>4, AtEffects DEF TypeOK, Radio
<1>7. TypeOK' /\ ScriptPlace'
  <2>1. fn' \in Labels /\ k' \in 1 .. Last(fn') /\ k' \in 1 .. 12
    BY <1>2, <1>5, LabelSet DEF Last
  <2> QED
    BY <2>1, <1>0, <1>1, <1>3, <1>6, Places DEF TypeOK, Radio
<1>8. SocketsHeld' /\ SocketsExplained'
  BY <1>0, <1>1, <1>3, <1>5, <1>6
  DEF SocketsHeld, SocketsExplained, BeforeNtp, TypeOK, Openers
<1>9. RadioExplained'
  <2> USE DEF RadioExplained, SetupPast, GpsPast, AfterSetup, Last
  <2>1. CASE radio' = AtEffect(Now.what) /\ failed' = failed
    <3>1. /\ radio'.system <=> (radio.system \/ Now.what = "catm1_gps")
          /\ radio'.psm <=> (radio.psm \/ Now.what = "psm_req")
          /\ fn = "lte_gps" =>
               /\ k = 1 => ~radio'.lte
               /\ k > 1 => (radio'.lte <=> radio.lte)
               /\ k = 2 => ~radio'.edrx
               /\ k = 3 => (radio'.edrx <=> radio.edrx)
               /\ k = 3 => (radio'.gnss <=> (radio.gnss \/ radio.system))
      BY <2>1, <1>0, <1>2, AtEffects DEF TypeOK, Radio
    <3> QED
      BY <3>1, <2>1, <1>0, <1>2, <1>3, <1>5
  <2>2. CASE /\ radio' = radio
             /\ failed' = failed \cup ({Now.what} \cap Remembered)
    <3>1. /\ Now.what \in Remembered => Now.what \in failed'
          /\ \A x \in failed : x \in failed'
      BY <2>2
    <3>2. CASE fn = "lte_setup"
      <4>1. /\ k = 3 => "catm1_gps" \in failed'
            /\ k = 6 => "psm_req" \in failed'
        BY <3>1, <3>2, <1>2 DEF Remembered
      <4> QED
        BY <4>1, <3>1, <3>2, <2>2, <1>0, <1>2, <1>3, <1>5
    <3>3. CASE fn = "lte_gps"
      <4>1. /\ k = 1 => "lte_disable" \in failed'
            /\ k = 2 => "edrx_disable" \in failed'
            /\ k = 3 => "gps_enable" \in failed'
        BY <3>1, <3>3, <1>2 DEF Remembered
      <4> QED
        BY <4>1, <3>1, <3>3, <2>2, <1>0, <1>2, <1>3, <1>5
    <3> QED
      BY <3>2, <3>3
  <2> QED
    BY <2>1, <2>2, <1>4
<1>10. StatusRead' /\ RegistrationGate'
  BY <1>0, <1>1, <1>5 DEF StatusRead, RegistrationGate
<1> QED
  BY <1>7, <1>8, <1>9, <1>10 DEF AppInv

(* What a call that is no AT command and does not start GNSS leaves alone, *)
(* beside CallLeaves.                                                      *)
LEMMA SocketCallLeaves ==
  ASSUME AppInv, CallSucceeds \/ CallFails, Now.op \notin {"at", "gnss_start"}
  PROVE  /\ radio' = radio /\ gnss' = gnss
         /\ failed' \subseteq Remembered /\ failed \subseteq failed'
  BY DEF CallSucceeds, CallFails, GnssStarted, AppInv, TypeOK

(* The sockets a call leaves open in the function that makes it. *)
LEMMA CallOpens ==
  ASSUME AppInv, fn \in Openers, CallSucceeds \/ CallFails
  PROVE  /\ CallSucceeds /\ Now.op = "socket" => open' = [open EXCEPT ![fn] = open[fn] + 1]
         /\ CallSucceeds /\ Now.op = "close" => open' = [open EXCEPT ![fn] = open[fn] - 1]
         /\ CallSucceeds /\ Now.op \notin {"socket", "close"} =>
              open' = [open EXCEPT ![fn] = open[fn]]
         /\ CallFails /\ Now.fail = "close" => open' = [open EXCEPT ![fn] = open[fn] - 1]
         /\ CallFails /\ Now.fail \in {"ignore", "return", "panic"} =>
              open' = [open EXCEPT ![fn] = open[fn]]
<1>1. open = [open EXCEPT ![fn] = open[fn]]
  BY DEF AppInv, TypeOK
<1>2. ASSUME CallSucceeds, Now.op = "socket"
      PROVE  open' = [open EXCEPT ![fn] = open[fn] + 1]
  BY <1>2 DEF CallSucceeds
<1>3. ASSUME CallSucceeds, Now.op = "close"
      PROVE  open' = [open EXCEPT ![fn] = open[fn] - 1]
  BY <1>3 DEF CallSucceeds
<1>4. ASSUME CallSucceeds, Now.op \notin {"socket", "close"}
      PROVE  open' = [open EXCEPT ![fn] = open[fn]]
  BY <1>1, <1>4 DEF CallSucceeds
<1>5. ASSUME CallFails, Now.fail = "close"
      PROVE  open' = [open EXCEPT ![fn] = open[fn] - 1]
  BY <1>5 DEF CallFails
<1>6. ASSUME CallFails, Now.fail \in {"ignore", "return", "panic"}
      PROVE  open' = [open EXCEPT ![fn] = open[fn]]
  BY <1>1, <1>6 DEF CallFails
<1> QED
  BY <1>2, <1>3, <1>4, <1>5, <1>6

(* ntp_main: its socket is closed on every way out, except by ntp_connect. *)
LEMMA NtpKeepsInv ==
  ASSUME AppInv, fn = "ntp_main", CallSucceeds \/ CallFails
  PROVE  AppInv'
<1>0. /\ TypeOK /\ ScriptPlace /\ SocketsHeld /\ SocketsExplained
      /\ RadioExplained /\ StatusRead /\ RegistrationGate
  BY DEF AppInv
<1>1. UNCHANGED <<opens, cereg, status, seen, signal, buffer_fill, ready_to_send>>
  BY CallLeaves
<1>2. /\ k \in 1 .. 10 /\ Now = ntp_main[k]
      /\ open \in [Openers -> Nat] /\ fn \in Openers
      /\ open[fn] = IF k > 2 THEN 1 ELSE 0
  BY <1>0, Places, ScriptNames DEF Last, Now, TypeOK, Openers, SocketsHeld
<1>3. /\ radio' = radio /\ gnss' = gnss
      /\ failed' \subseteq Remembered /\ failed \subseteq failed'
  BY <1>2, NtpTable, SocketCallLeaves
<1>4. PICK n \in {0, 1} :
        /\ open' = [open EXCEPT ![fn] = n]
        /\ \/ k < 10 /\ fn' = fn /\ k' = k + 1 /\ n = IF k > 1 THEN 1 ELSE 0
           \/ fn' = "connect_to_server" /\ k' = 1 /\ (n = 1 => "ntp_connect" \in failed')
  <2>1. CASE CallSucceeds
    <3>1. \/ k < 10 /\ fn' = fn /\ k' = k + 1
          \/ k = 10 /\ fn' = "connect_to_server" /\ k' = 1
      BY <2>1, <1>2, Advances, AfterNames DEF CallSucceeds, Last
    <3>2. CASE k = 2
      <4>1. open[fn] = 0 /\ Now.op = "socket"
        BY <3>2, <1>2, NtpTable
      <4>2. open' = [open EXCEPT ![fn] = 1]
        BY <4>1, <2>1, <1>2, CallOpens
      <4> QED
        BY <4>2, <3>1, <3>2
    <3>3. CASE k = 10
      <4>1. open[fn] = 1 /\ Now.op = "close"
        BY <3>3, <1>2, NtpTable
      <4>2. open' = [open EXCEPT ![fn] = 0]
        BY <4>1, <2>1, <1>2, CallOpens
      <4> QED
        BY <4>2, <3>1, <3>3
    <3>4. CASE k \notin {2, 10}
      <4>1. Now.op \notin {"socket", "close"}
        BY <3>4, <1>2, NtpTable
      <4>2. open' = [open EXCEPT ![fn] = open[fn]]
        BY <4>1, <2>1, <1>2, CallOpens
      <4>3. /\ open[fn] \in {0, 1} /\ open[fn] = IF k > 1 THEN 1 ELSE 0
            /\ fn' = fn /\ k < 10 /\ k' = k + 1
        BY <3>1, <3>4, <1>2
      <4> QED
        BY <4>2, <4>3
    <3> QED
      BY <3>2, <3>3, <3>4
  <2>2. CASE CallFails
    <3>1. k # 10 /\ Now.fail \in {"return", "close"}
      BY <2>2, <1>2, NtpTable DEF CallFails
    <3>2. fn' = "connect_to_server" /\ k' = 1
      BY <2>2, <3>1, AfterNames DEF CallFails, Leave
    <3>3. CASE k \in 8 .. 9
      <4>1. open[fn] = 1 /\ Now.fail = "close"
        BY <3>3, <1>2, NtpTable
      <4>2. open' = [open EXCEPT ![fn] = 0]
        BY <4>1, <2>2, <1>2, CallOpens
      <4> QED
        BY <4>2, <3>2
    <3>4. CASE k \in 1 .. 2
      <4>1. open[fn] = 0 /\ Now.fail = "return"
        BY <3>4, <1>2, NtpTable
      <4>2. open' = [open EXCEPT ![fn] = 0]
        BY <4>1, <2>2, <1>2, CallOpens
      <4> QED
        BY <4>2, <3>2
    <3>5. CASE k \in 3 .. 7
      <4>1. open[fn] = 1 /\ Now.fail = "return" /\ Now.what = "ntp_connect"
        BY <3>5, <1>2, NtpTable
      <4>2. open' = [open EXCEPT ![fn] = 1]
        BY <4>1, <2>2, <1>2, CallOpens
      <4>3. "ntp_connect" \in failed'
        BY <2>2, <4>1 DEF CallFails, Remembered
      <4> QED
        BY <4>2, <4>3, <3>2
    <3> QED
      BY <3>1, <3>3, <3>4, <3>5, <1>2
  <2> QED
    BY <2>1, <2>2
<1>5. /\ open' \in [Openers -> Nat] /\ open'["ntp_main"] = n
      /\ open'["connect_to_server"] = 0 /\ open'["httpc_open"] = 0 /\ opens = 0
  BY <1>0, <1>2, <1>4 DEF Openers, SocketsHeld
<1>6. TypeOK' /\ ScriptPlace'
  <2>1. fn' \in Labels /\ k' \in 1 .. Last(fn') /\ k' \in 1 .. 12
    BY <1>2, <1>4, LabelSet DEF Last
  <2> QED
    BY <2>1, <1>0, <1>1, <1>3, <1>5, Places DEF TypeOK
<1>7. SocketsHeld' /\ SocketsExplained'
  BY <1>1, <1>2, <1>4, <1>5 DEF SocketsHeld, SocketsExplained, BeforeNtp
<1>8. RadioExplained'
  BY <1>0, <1>3, <1>4 DEF RadioExplained, SetupPast, GpsPast, AfterSetup
<1>9. StatusRead' /\ RegistrationGate'
  BY <1>0, <1>1, <1>4 DEF StatusRead, RegistrationGate
<1> QED
  BY <1>6, <1>7, <1>8, <1>9 DEF AppInv

(* connect_to_server closes its socket unless it panics. *)
LEMMA ServerKeepsInv ==
  ASSUME AppInv, fn = "connect_to_server", CallSucceeds \/ CallFails
  PROVE  AppInv'
<1>0. /\ TypeOK /\ ScriptPlace /\ SocketsHeld /\ SocketsExplained
      /\ RadioExplained /\ StatusRead /\ RegistrationGate
  BY DEF AppInv
<1>1. UNCHANGED <<opens, cereg, status, seen, signal, buffer_fill, ready_to_send>>
  BY CallLeaves
<1>2. /\ k \in 1 .. 7 /\ Now = connect_to_server[k]
      /\ open \in [Openers -> Nat] /\ fn \in Openers
      /\ open[fn] = IF k > 1 THEN 1 ELSE 0
  BY <1>0, Places, ScriptNames DEF Last, Now, TypeOK, Openers, SocketsHeld
<1>3. /\ radio' = radio /\ gnss' = gnss
      /\ failed' \subseteq Remembered /\ failed \subseteq failed'
  BY <1>2, ServerTable, SocketCallLeaves
<1>4. PICK n \in {0, 1} :
        /\ open' = [open EXCEPT ![fn] = n]
        /\ \/ k < 7 /\ fn' = fn /\ k' = k + 1 /\ n = 1
           \/ fn' = "httpc_main" /\ k' = 1 /\ n = 0
           \/ fn' = "panic" /\ k' = 1
  <2>0. open = [open EXCEPT ![fn] = IF k > 1 THEN 1 ELSE 0]
    BY <1>2
  <2>1. CASE CallSucceeds
    <3>1. \/ k < 7 /\ fn' = fn /\ k' = k + 1
          \/ k = 7 /\ fn' = "httpc_main" /\ k' = 1
      BY <2>1, <1>2, Advances, AfterNames DEF CallSucceeds, Last
    <3>2. CASE k = 1
      <4>1. open[fn] = 0 /\ Now.op = "socket"
        BY <3>2, <1>2, ServerTable
      <4>2. open' = [open EXCEPT ![fn] = 1]
        BY <4>1, <2>1, <1>2, CallOpens
      <4> QED
        BY <4>2, <3>1, <3>2
    <3>3. CASE k = 7
      <4>1. open[fn] = 1 /\ Now.op = "close"
        BY <3>3, <1>2, ServerTable
      <4>2. open' = [open EXCEPT ![fn] = 0]
        BY <4>1, <2>1, <1>2, CallOpens
      <4> QED
        BY <4>2, <3>1, <3>3
    <3>4. CASE k \notin {1, 7}
      <4>1. open[fn] = 1 /\ Now.op \notin {"socket", "close"}
        BY <3>4, <1>2, ServerTable
      <4>2. open' = [open EXCEPT ![fn] = 1]
        BY <4>1, <2>1, <1>2, CallOpens
      <4> QED
        BY <4>2, <3>1, <3>4
    <3> QED
      BY <3>2, <3>3, <3>4
  <2>2. CASE CallFails
    <3>1. k # 7
      BY <2>2, <1>2, ServerTable DEF CallFails
    <3>2. CASE k = 2
      <4>1. Now.fail = "ignore"
        BY <3>2, <1>2, ServerTable
      <4>2. Advance /\ InScript /\ open' = open
        BY <2>2, <4>1 DEF CallFails
      <4>3. fn' = fn /\ k' = 3
        BY <4>2, <3>2, Advances DEF Last
      <4> QED
        BY <4>2, <4>3, <3>2, <2>0
    <3>3. CASE k = 6
      <4>1. Now.fail = "close"
        BY <3>3, <1>2, ServerTable
      <4>2. Leave /\ open' = [open EXCEPT ![fn] = 0]
        BY <2>2, <4>1, <3>3, <1>2 DEF CallFails
      <4> QED
        BY <4>2, AfterNames DEF Leave
    <3>4. CASE k \in {1, 3, 4, 5}
      <4>1. Now.fail = "panic"
        BY <3>4, <1>2, ServerTable
      <4>2. fn' = "panic" /\ k' = 1 /\ open' = open
        BY <2>2, <4>1 DEF CallFails
      <4>3. open[fn] \in {0, 1} /\ open = [open EXCEPT ![fn] = open[fn]]
        BY <1>2
      <4> QED
        BY <4>2, <4>3
    <3> QED
      BY <3>1, <3>2, <3>3, <3>4, <1>2
  <2> QED
    BY <2>1, <2>2
<1>5. /\ open' \in [Openers -> Nat] /\ open'["connect_to_server"] = n
      /\ open'["ntp_main"] = open["ntp_main"] /\ open["ntp_main"] \in Nat
      /\ open'["httpc_open"] = 0 /\ opens = 0
  BY <1>0, <1>2, <1>4 DEF Openers, SocketsHeld
<1>6. TypeOK' /\ ScriptPlace'
  <2>1. fn' \in Labels /\ k' \in 1 .. Last(fn') /\ k' \in 1 .. 12
    BY <1>2, <1>4, LabelSet DEF Last
  <2> QED
    BY <2>1, <1>0, <1>1, <1>3, <1>5, Places DEF TypeOK
<1>7. SocketsHeld' /\ SocketsExplained'
  BY <1>0, <1>1, <1>2, <1>3, <1>4, <1>5
  DEF SocketsHeld, SocketsExplained, BeforeNtp
<1>8. RadioExplained'
  BY <1>0, <1>3, <1>4 DEF RadioExplained, SetupPast, GpsPast, AfterSetup
<1>9. StatusRead' /\ RegistrationGate'
  BY <1>0, <1>1, <1>4 DEF StatusRead, RegistrationGate
<1> QED
  BY <1>6, <1>7, <1>8, <1>9 DEF AppInv

(* httpc_open leaves its socket open, one for each call of it. *)
LEMMA HttpcKeepsInv ==
  ASSUME AppInv, fn = "httpc_open", CallSucceeds \/ CallFails
  PROVE  AppInv'
<1>0. /\ TypeOK /\ ScriptPlace /\ SocketsHeld /\ SocketsExplained
      /\ RadioExplained /\ StatusRead /\ RegistrationGate
  BY DEF AppInv
<1>1. UNCHANGED <<opens, cereg, status, seen, signal, buffer_fill, ready_to_send>>
  BY CallLeaves
<1>2. /\ k \in 1 .. 5 /\ Now = httpc_open[k] /\ InScript
      /\ open \in [Openers -> Nat] /\ fn \in Openers /\ opens \in Nat
  BY <1>0, Places, ScriptNames, AppAssumption
  DEF Last, Now, TypeOK, Openers, InScript
<1>3. /\ radio' = radio /\ gnss' = gnss
      /\ failed' \subseteq Remembered /\ failed \subseteq failed'
  BY <1>2, HttpcTable, SocketCallLeaves
<1>4. PICK n \in Nat :
        /\ open' = [open EXCEPT ![fn] = n] /\ n <= opens
        /\ \/ k < 5 /\ fn' = fn /\ k' = k + 1 /\ n > 0
           \/ fn' \in {"httpc_main", "panic"} /\ k' = 1
  <2>1. CASE CallSucceeds
    <3>1. \/ k < 5 /\ fn' = fn /\ k' = k + 1
          \/ k = 5 /\ fn' = "httpc_main" /\ k' = 1
      BY <2>1, <1>2, Advances, AfterNames DEF CallSucceeds, Last
    <3>2. CASE k = 1
      <4>1. open[fn] \in Nat /\ open[fn] < opens /\ Now.op = "socket"
        BY <3>2, <1>0, <1>2, HttpcTable DEF SocketsHeld
      <4>2. open' = [open EXCEPT ![fn] = open[fn] + 1]
        BY <4>1, <2>1, <1>2, CallOpens
      <4>3. /\ open[fn] + 1 \in Nat /\ open[fn] + 1 <= opens /\ open[fn] + 1 > 0
            /\ k < 5 /\ fn' = fn /\ k' = k + 1
        BY <4>1, <3>1, <3>2, <1>2
      <4> QED
        BY <4>2, <4>3
    <3>3. CASE k # 1
      <4>1. /\ open[fn] \in Nat /\ open[fn] > 0 /\ open[fn] <= opens
            /\ Now.op \notin {"socket", "close"}
        BY <3>3, <1>0, <1>2, HttpcTable DEF SocketsHeld, SocketsExplained
      <4>2. open' = [open EXCEPT ![fn] = open[fn]]
        BY <4>1, <2>1, <1>2, CallOpens
      <4> QED
        BY <4>1, <4>2, <3>1
    <3> QED
      BY <3>2, <3>3
  <2>2. CASE CallFails
    <3>1. /\ open[fn] \in Nat /\ open[fn] <= opens
          /\ k = 2 => open[fn] > 0 /\ Now.fail = "ignore"
          /\ k # 2 => Now.fail = "panic"
      BY <1>0, <1>2, HttpcTable DEF SocketsHeld, SocketsExplained
    <3>2. open' = [open EXCEPT ![fn] = open[fn]]
      BY <2>2, <3>1, <1>2, CallOpens
    <3>3. CASE k = 2
      <4>1. Advance
        BY <2>2, <3>1, <3>3 DEF CallFails
      <4>2. fn' = fn /\ k < 5 /\ k' = k + 1
        BY <4>1, <3>3, <1>2, Advances DEF Last
      <4>3. open[fn] \in Nat /\ open[fn] <= opens /\ open[fn] > 0
        BY <3>1, <3>3
      <4> QED
        BY <4>2, <4>3, <3>2
    <3>4. CASE k # 2
      <4>1. fn' = "panic" /\ k' = 1
        BY <2>2, <3>1, <3>4 DEF CallFails
      <4> QED
        BY <4>1, <3>1, <3>2
    <3> QED
      BY <3>3, <3>4
  <2> QED
    BY <2>1, <2>2
<1>5. /\ open' \in [Openers -> Nat] /\ open'["httpc_open"] = n
      /\ open'["ntp_main"] = open["ntp_main"] /\ open["ntp_main"] \in Nat
      /\ open'["connect_to_server"] = 0
  BY <1>0, <1>2, <1>4 DEF Openers, SocketsExplained
<1>6. TypeOK' /\ ScriptPlace'
  <2>1. fn' \in Labels /\ k' \in 1 .. Last(fn') /\ k' \in 1 .. 12
    BY <1>2, <1>4, LabelSet DEF Last
  <2> QED
    BY <2>1, <1>0, <1>1, <1>3, <1>5, Places DEF TypeOK
<1>7. SocketsHeld' /\ SocketsExplained'
  BY <1>0, <1>1, <1>2, <1>3, <1>4, <1>5
  DEF SocketsHeld, SocketsExplained, BeforeNtp
<1>8. RadioExplained'
  BY <1>0, <1>3, <1>4 DEF RadioExplained, SetupPast, GpsPast, AfterSetup
<1>9. StatusRead' /\ RegistrationGate'
  BY <1>0, <1>1, <1>4 DEF StatusRead, RegistrationGate
<1> QED
  BY <1>6, <1>7, <1>8, <1>9 DEF AppInv

(* gps_init starts GNSS in its last call and nowhere else. *)
LEMMA GnssKeepsInv ==
  ASSUME AppInv, fn = "gps_init", CallSucceeds \/ CallFails
  PROVE  AppInv'
<1>0. /\ TypeOK /\ ScriptPlace /\ SocketsHeld /\ SocketsExplained
      /\ RadioExplained /\ StatusRead /\ RegistrationGate
  BY DEF AppInv
<1>1. UNCHANGED <<opens, cereg, status, seen, signal, buffer_fill, ready_to_send>>
  BY CallLeaves
<1>2. k \in 1 .. 6 /\ Now = gps_init[k] /\ InScript
  BY <1>0, Places, ScriptNames DEF Last, Now, InScript
<1>3. /\ radio' = radio /\ open' = open /\ gnss' \in BOOLEAN
      /\ failed' \subseteq Remembered /\ failed \subseteq failed'
  <2>1. Now.op \notin {"at", "socket", "close"} /\ Now.fail \in {"return", "ignore"}
    BY <1>2, GnssTable
  <2>2. CASE CallSucceeds
    BY <2>1, <2>2, <1>0 DEF CallSucceeds, GnssStarted, TypeOK
  <2>3. CASE CallFails
    BY <2>1, <2>3, <1>0 DEF CallFails, GnssStarted, TypeOK
  <2> QED
    BY <2>2, <2>3
<1>4. \/ k < 6 /\ fn' = fn /\ k' = k + 1 /\ gnss' = gnss
      \/ fn' = "idle" /\ k' = 1
  <2>1. k < 6 => gnss' = gnss
    <3>1. k < 6 => Now.op # "gnss_start"
      BY <1>2, GnssTable
    <3>2. gnss \in BOOLEAN /\ GnssStarted
      BY <1>0 DEF CallSucceeds, CallFails, TypeOK
    <3> QED
      BY <3>1, <3>2 DEF GnssStarted
  <2>2. CASE Advance
    BY <2>1, <2>2, <1>2, Advances, AfterNames DEF Last
  <2>3. CASE ~Advance
    <3>1. CallFails /\ Now.fail = "return"
      <4>1. CallFails /\ Now.fail # "ignore"
        BY <2>3 DEF CallSucceeds, CallFails
      <4> QED
        BY <4>1, <1>2, GnssTable
    <3> QED
      BY <3>1, AfterNames DEF CallFails, Leave
  <2> QED
    BY <2>2, <2>3
<1>5. TypeOK' /\ ScriptPlace'
  <2>1. fn' \in Labels /\ k' \in 1 .. Last(fn') /\ k' \in 1 .. 12
    BY <1>2, <1>4, LabelSet DEF Last
  <2> QED
    BY <2>1, <1>0, <1>1, <1>3, Places DEF TypeOK
<1>6. SocketsHeld' /\ SocketsExplained'
  BY <1>0, <1>1, <1>3, <1>4
  DEF SocketsHeld, SocketsExplained, BeforeNtp, TypeOK, Openers
<1>7. RadioExplained'
  BY <1>0, <1>3, <1>4 DEF RadioExplained, SetupPast, GpsPast, AfterSetup
<1>8. StatusRead' /\ RegistrationGate'
  BY <1>0, <1>1, <1>4 DEF StatusRead, RegistrationGate
<1> QED
  BY <1>5, <1>6, <1>7, <1>8 DEF AppInv

(* The steps of main between its scripts move it on and touch at most one  *)
(* piece of state that AppInv speaks of.                                   *)
LEMMA StartKeepsInv ==
  ASSUME AppInv,
         \/ \E ok \in BOOLEAN : RegisterUart(ok) \/ nrf_modem_init(ok)
         \/ ResetFill \/ ResetReady
  PROVE  AppInv'
<1>0. /\ TypeOK /\ ScriptPlace /\ SocketsHeld /\ SocketsExplained
      /\ RadioExplained /\ StatusRead /\ RegistrationGate
  BY DEF AppInv
<1>1. /\ UNCHANGED <<k, open, opens, radio, gnss, failed, cereg, status, seen, signal>>
      /\ fn \in {"main", "nrf_modem_init", "reset_fill", "reset_ready"}
      /\ fn' \in {"nrf_modem_init", "reset_fill", "reset_ready", "lte_setup", "panic"}
      /\ buffer_fill' \in {0, buffer_fill} /\ ready_to_send' \in {0, ready_to_send}
  BY DEF RegisterUart, nrf_modem_init, ResetFill, ResetReady, sockVars,
         waitVars, uartVars
<1>2. k = 1 /\ k' = 1
  BY <1>0, <1>1, Places DEF Last
<1>3. TypeOK' /\ ScriptPlace'
  BY <1>0, <1>1, <1>2, Places, LabelSet, AppAssumption DEF TypeOK, Last
<1>4. SocketsHeld' /\ SocketsExplained'
  BY <1>0, <1>1, <1>2 DEF SocketsHeld, SocketsExplained, BeforeNtp, Openers
<1>5. RadioExplained' /\ StatusRead' /\ RegistrationGate'
  BY <1>0, <1>1, <1>2
  DEF RadioExplained, SetupPast, GpsPast, AfterSetup, StatusRead, RegistrationGate
<1> QED
  BY <1>3, <1>4, <1>5 DEF AppInv

(* lte_wait: both kinds of scan. *)
LEMMA ScanKeepsInv ==
  ASSUME AppInv, ScanSucceeds \/ ScanFails
  PROVE  AppInv'
<1>0. /\ TypeOK /\ ScriptPlace /\ SocketsHeld /\ SocketsExplained
      /\ RadioExplained /\ StatusRead /\ RegistrationGate
  BY DEF AppInv
<1>1. /\ UNCHANGED <<k, open, opens, radio, gnss, failed, cereg, signal,
                     buffer_fill, ready_to_send>>
      /\ fn = "lte_wait" /\ fn' = Switch(status')
      /\ \/ status' = cereg /\ seen' = cereg
         \/ seen = NULL /\ seen' = NULL /\ status' \in Statuses \cup {OtherStat}
         \/ seen # NULL /\ seen' = seen /\ status' = status
  BY DEF ScanSucceeds, ScanFails, sockVars, uartVars
<1>2. /\ fn' \in {"lte_wait", "lte_signal", "httpc_main"}
      /\ fn' = "lte_signal" => status' \in Registered
      /\ fn' = "httpc_main" => status' \in Refused
  BY <1>1 DEF Switch
<1>3. k = 1 /\ k' = 1
  BY <1>0, <1>1, Places DEF Last
<1>4. TypeOK' /\ ScriptPlace'
  BY <1>0, <1>1, <1>2, <1>3, Places, LabelSet DEF TypeOK, Last
<1>5. SocketsHeld' /\ SocketsExplained'
  BY <1>0, <1>1, <1>2, <1>3 DEF SocketsHeld, SocketsExplained, BeforeNtp, Openers
<1>6. RadioExplained'
  BY <1>0, <1>1, <1>2 DEF RadioExplained, SetupPast, GpsPast, AfterSetup
<1>7. StatusRead' /\ RegistrationGate'
  BY <1>0, <1>1, <1>2 DEF StatusRead, RegistrationGate
<1> QED
  BY <1>4, <1>5, <1>6, <1>7 DEF AppInv

(* The steps of main from lte_signal to gps_init. *)
LEMMA RestKeepsInv ==
  ASSUME AppInv,
         \/ \E ok \in BOOLEAN : lte_signal(ok)
         \/ HttpcOpens \/ HttpcReturns \/ math_test
  PROVE  AppInv'
<1>0. /\ TypeOK /\ ScriptPlace /\ SocketsHeld /\ SocketsExplained
      /\ RadioExplained /\ StatusRead /\ RegistrationGate
  BY DEF AppInv
<1>1. /\ UNCHANGED <<k, open, radio, gnss, failed, cereg, status, seen,
                     buffer_fill, ready_to_send>>
      /\ signal' \in {"requested", signal}
      /\ \/ fn = "lte_signal" /\ fn' = "ntp_main" /\ opens' = opens
         \/ fn = "httpc_main" /\ fn' = "httpc_open" /\ opens < MaxOpens /\ opens' = opens + 1
         \/ fn = "httpc_main" /\ fn' = "lte_gps" /\ opens' = opens
         \/ fn = "math_test" /\ fn' = "gps_init" /\ opens' = opens
  BY DEF lte_signal, HttpcOpens, HttpcReturns, math_test, sockVars, waitVars, uartVars
<1>2. k = 1 /\ k' = 1
  BY <1>0, <1>1, Places DEF Last
<1>3. TypeOK' /\ ScriptPlace'
  BY <1>0, <1>1, <1>2, Places, LabelSet, AppAssumption DEF TypeOK, Last
<1>4. SocketsHeld' /\ SocketsExplained'
  <2>1. \A f \in Openers : open[f] \in Nat
    BY <1>0 DEF TypeOK
  <2> QED
    BY <2>1, <1>0, <1>1, <1>2, AppAssumption
    DEF SocketsHeld, SocketsExplained, BeforeNtp, Openers, TypeOK
<1>5. RadioExplained' /\ StatusRead' /\ RegistrationGate'
  BY <1>0, <1>1, <1>2
  DEF RadioExplained, SetupPast, GpsPast, AfterSetup, StatusRead, RegistrationGate
<1> QED
  BY <1>3, <1>4, <1>5 DEF AppInv

(* Beside the main thread: the network, the answer to AT+CESQ and the UART *)
(* interrupt, which stays within its buffer.                               *)
LEMMA OthersKeepInv ==
  ASSUME AppInv,
         \/ \E s \in Statuses : NetworkChanges(s)
         \/ \E fields \in {1, 6} : lte_signal_quality_decode(fields)
         \/ \E c \in Inputs : nrf_input(c)
  PROVE  AppInv'
<1>0. /\ TypeOK /\ ScriptPlace /\ SocketsHeld /\ SocketsExplained
      /\ RadioExplained /\ StatusRead /\ RegistrationGate
  BY DEF AppInv
<1>1. UNCHANGED <<fn, k, open, opens, radio, gnss, failed, status, seen>>
  BY DEF NetworkChanges, lte_signal_quality_decode, nrf_input, sockVars, waitVars
<1>2. /\ cereg' \in Statuses
      /\ signal' \in {"none", "requested", "printed", "garbage"}
      /\ buffer_fill' \in 0 .. LC_MAX_READ_LENGTH /\ ready_to_send' \in {0, 1}
  BY <1>0, AppAssumption
  DEF TypeOK, NetworkChanges, lte_signal_quality_decode, nrf_input, waitVars, uartVars
<1>3. TypeOK' /\ ScriptPlace'
  BY <1>0, <1>1, <1>2, Places DEF TypeOK
<1>4. SocketsHeld' /\ SocketsExplained'
  BY <1>0, <1>1 DEF SocketsHeld, SocketsExplained
<1>5. RadioExplained' /\ StatusRead' /\ RegistrationGate'
  BY <1>0, <1>1
  DEF RadioExplained, SetupPast, GpsPast, StatusRead, RegistrationGate
<1> QED
  BY <1>3, <1>4, <1>5 DEF AppInv

(* The inductive invariant: main, lte_connect, ntp_main, connect_to_server,*)
(* httpc_open, gps_init, nrf_input and the answer to AT+CESQ keep AppInv.  *)
THEOREM AppInvariant == Spec => []AppInv
<1>1. Init => AppInv
  <2> SUFFICES ASSUME Init PROVE AppInv
    OBVIOUS
  <2>1. TypeOK /\ ScriptPlace
    <3>1. fn \in Labels /\ k \in 1 .. Last(fn) /\ k \in 1 .. 12
      BY LabelSet DEF Init, Last
    <3>2. /\ open \in [Openers -> Nat] /\ opens \in 0 .. MaxOpens
          /\ buffer_fill \in 0 .. LC_MAX_READ_LENGTH
      BY AppAssumption DEF Init
    <3>3. radio \in Radio
      BY AppAssumption DEF Init, Radio
    <3> QED
      BY <3>1, <3>2, <3>3, Places DEF Init, TypeOK, Radio, Statuses
  <2>2. SocketsHeld /\ SocketsExplained
    BY DEF Init, SocketsHeld, SocketsExplained, Openers
  <2>3. RadioExplained /\ StatusRead /\ RegistrationGate
    BY DEF Init, RadioExplained, SetupPast, GpsPast, AfterSetup, StatusRead, RegistrationGate
  <2> QED
    BY <2>1, <2>2, <2>3 DEF AppInv
<1>2. AppInv /\ [Next]_vars => AppInv'
  <2> SUFFICES ASSUME AppInv, [Next]_vars PROVE AppInv'
    OBVIOUS
  <2>1. CASE CallSucceeds \/ CallFails
    <3>1. fn \in {"lte_setup", "ntp_main", "connect_to_server", "httpc_open",
                  "lte_gps", "gps_init"}
      BY <2>1, ScriptNames DEF CallSucceeds, CallFails, InScript
    <3> QED
      BY <3>1, <2>1, AtKeepsInv, NtpKeepsInv, ServerKeepsInv, HttpcKeepsInv, GnssKeepsInv
  <2>2. CASE ScanSucceeds \/ ScanFails
    BY <2>2, ScanKeepsInv
  <2>3. CASE \/ \E ok \in BOOLEAN : RegisterUart(ok) \/ nrf_modem_init(ok)
             \/ ResetFill \/ ResetReady
    BY <2>3, StartKeepsInv
  <2>4. CASE \/ \E ok \in BOOLEAN : lte_signal(ok)
             \/ HttpcOpens \/ HttpcReturns \/ math_test
    BY <2>4, RestKeepsInv
  <2>5. CASE \/ \E s \in Statuses : NetworkChanges(s)
             \/ \E fields \in {1, 6} : lte_signal_quality_decode(fields)
             \/ \E c \in Inputs : nrf_input(c)
    BY <2>5, OthersKeepInv
  <2>6. CASE UNCHANGED vars
    BY <2>6, Places
    DEF vars, sockVars, waitVars, uartVars, AppInv, TypeOK, SocketsHeld,
        SocketsExplained, RadioExplained, SetupPast, GpsPast, StatusRead, RegistrationGate
  <2> QED
    BY <2>1, <2>2, <2>3, <2>4, <2>5, <2>6 DEF Next, Main, Httpc
<1> QED
  BY <1>1, <1>2, PTL DEF Spec

(* ntp.c, main.c and http.c never use a socket they do not hold. *)
THEOREM SocketsUsedOpen == Spec => []SocketDiscipline
<1>1. AppInv => SocketDiscipline
  <2> SUFFICES ASSUME AppInv, fn \in Openers, Now.op \in OnSocket
               PROVE  open[fn] > 0
    BY DEF SocketDiscipline
  <2>1. k \in 1 .. Last(fn) /\ SocketsHeld /\ open \in [Openers -> Nat]
    BY Places DEF AppInv, TypeOK
  <2>2. CASE fn = "ntp_main"
    <3>1. k \in 1 .. 10 /\ Now = ntp_main[k]
      BY <2>1, <2>2, ScriptNames DEF Now, Last
    <3>2. k > 2
      BY <3>1, NtpTable
    <3> QED
      BY <3>2, <2>1, <2>2 DEF SocketsHeld
  <2>3. CASE fn = "connect_to_server"
    <3>1. k \in 1 .. 7 /\ Now = connect_to_server[k]
      BY <2>1, <2>3, ScriptNames DEF Now, Last
    <3>2. k > 1
      BY <3>1, ServerTable DEF OnSocket
    <3> QED
      BY <3>2, <2>1, <2>3 DEF SocketsHeld
  <2>4. CASE fn = "httpc_open"
    <3>1. k \in 1 .. 5 /\ Now = httpc_open[k]
      BY <2>1, <2>4, ScriptNames DEF Now, Last
    <3>2. k > 1
      BY <3>1, HttpcTable DEF OnSocket
    <3> QED
      BY <3>2, <2>1, <2>4 DEF SocketsHeld
  <2> QED
    BY <2>2, <2>3, <2>4 DEF Openers
<1> QED
  BY <1>1, AppInvariant, PTL

(* The only sockets main.c, ntp.c and http.c ever leave open are the one a *)
(* failed ntp_connect forgets and one per httpc_open.                      *)
THEOREM SocketsLeftOpen == Spec => []SocketsExplained
  BY AppInvariant, PTL DEF AppInv

(* They never run out of sockets, for every number the modem may offer     *)
(* that exceeds the connections httpc_get makes.                           *)
THEOREM SocketsAreEnough == Spec => []SocketsSuffice
<1>1. AppInv => SocketsSuffice
  <2> SUFFICES ASSUME AppInv, MaxSockets >= MaxOpens + 1, MaxSockets >= 2,
                      fn \in Openers, Now.op = "socket"
               PROVE  InUse < MaxSockets
    BY DEF SocketsSuffice
  <2>1. /\ k \in 1 .. Last(fn) /\ SocketsHeld /\ SocketsExplained
        /\ open["ntp_main"] \in Nat /\ open["connect_to_server"] \in Nat
        /\ open["httpc_open"] \in Nat /\ opens \in 0 .. MaxOpens
    BY Places DEF AppInv, TypeOK, Openers
  <2>2. CASE fn = "ntp_main"
    <3>1. k \in 1 .. 10 /\ Now = ntp_main[k]
      BY <2>1, <2>2, ScriptNames DEF Now, Last
    <3>2. k = 2
      BY <3>1, NtpTable
    <3> QED
      BY <3>2, <2>1, <2>2, AppAssumption DEF SocketsHeld, InUse
  <2>3. CASE fn = "connect_to_server"
    <3>1. k \in 1 .. 7 /\ Now = connect_to_server[k]
      BY <2>1, <2>3, ScriptNames DEF Now, Last
    <3>2. k = 1
      BY <3>1, ServerTable
    <3> QED
      BY <3>2, <2>1, <2>3, AppAssumption DEF SocketsHeld, SocketsExplained, InUse
  <2>4. CASE fn = "httpc_open"
    <3>1. k \in 1 .. 5 /\ Now = httpc_open[k]
      BY <2>1, <2>4, ScriptNames DEF Now, Last
    <3>2. k = 1
      BY <3>1, HttpcTable
    <3> QED
      BY <3>2, <2>1, <2>4, AppAssumption DEF SocketsHeld, SocketsExplained, InUse
  <2> QED
    BY <2>2, <2>3, <2>4 DEF Openers
<1> QED
  BY <1>1, AppInvariant, PTL

(* lte_wait lets lte_signal, ntp_main and connect_to_server run only on a  *)
(* registered status that it read, or that was never initialized, and      *)
(* httpc_main on a refused one as well.                                    *)
THEOREM GateHolds == Spec => []RegistrationGate
  BY AppInvariant, PTL DEF AppInv

(* When GNSS is started the modem is in the mode lte_connect asked for, or *)
(* the very command for it failed.                                         *)
THEOREM GpsModeRight == Spec => []GpsModeExplained
<1>1. AppInv => GpsModeExplained
  BY DEF AppInv, TypeOK, RadioExplained, SetupPast, GpsPast, AfterSetup, GpsModeExplained
<1> QED
  BY <1>1, AppInvariant, PTL
=============================================================================
