----------------------------- MODULE MCNrfxIpc -----------------------------
(* Instances of NrfxIpc for TLC.                                           *)
EXTENDS NrfxIpc

(* A configuration that receives and enables everything, and one that      *)
(* leaves a channel without an event and another one disabled.             *)
TwoConfigs ==
  { [send |-> {0}, recv |-> Channels, enabled |-> Channels],
    [send |-> Channels, recv |-> {0, 1}, enabled |-> {0}] }

OneConfig == { [send |-> {}, recv |-> Channels, enabled |-> {0}] }

=============================================================================
