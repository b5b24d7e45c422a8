-------------------------- MODULE MCSignalHandlers --------------------------
(* Instance of SignalHandlers for TLC: a thread may play all parts.         *)
EXTENDS SignalHandlers
=============================================================================
