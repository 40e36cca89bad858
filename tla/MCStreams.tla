----------------------------- MODULE MCStreams ------------------------------
(***************************************************************************)
(* What carries events on small instances, for TLC.  A behaviour runs a    *)
(* single part, chosen at its start, while the others stay as they begin,  *)
(* when none of the steps that are fair is enabled.  The hub is there      *)
(* twice: with several streams, and with one and a shutdown.               *)
(***************************************************************************)
EXTENDS Streams

VARIABLE part

\* No second stream is connected.
OneStream == \A s, t \in Stream : s = t \/ At(s, "none") \/ At(t, "none")

PartInit == part \in {"hub", "shutdown", "sdk", "log"} /\ StreamsInit

PartNext ==
    /\ \/ part = "hub" /\ HubStep /\ server' = "up"
       \/ part = "shutdown" /\ HubStep /\ OneStream'
       \/ part = "sdk" /\ SdkStep
       \/ part = "log" /\ LogStep
    /\ UNCHANGED part

PartSpec ==
    PartInit /\ [][PartNext]_<<part, vars, sdkVars, logVars>> /\ StreamsFairness
=============================================================================
