---------------------------- MODULE MCNativeCall ----------------------------
(***************************************************************************)
(* Two threads that share a payload with a state that conforms, one that *)
(* does not, and one that the converter does not support.                  *)
(***************************************************************************)
EXTENDS NativeCall

CONSTANTS t1, t2, good, bad, odd

MCThreads == {t1, t2}
MCAccepted == {good}
MCRejected == {bad}
MCUnsupported == {odd}
=============================================================================
