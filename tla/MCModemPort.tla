---------------------------- MODULE MCModemPort ----------------------------
(* Instances of ModemPort for TLC.                                         *)
EXTENDS ModemPort

(* Everything is received and enabled, and concerns every sleeper.         *)
AllChannels == 0 .. IPC_CONF_NUM - 1

AllEnabled == { [send |-> {}, recv |-> AllChannels, enabled |-> AllChannels] }

Everybody == [c \in AllChannels |-> 0]

(* A timeout that overflows to no timer at all: nothing but a notification *)
(* ends the wait.                                                          *)
Untimed == {32}

=============================================================================
