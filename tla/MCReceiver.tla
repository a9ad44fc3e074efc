------------------------------- MODULE MCReceiver -------------------------------
(***************************************************************************)
(* The way of a caller's number: samples to characters (Fsk), characters   *)
(* to frames and messages (MCCid), and the numbers that decide on the call *)
(* (TelFilt).  Each part hands values on and shares no state with the      *)
(* next, so that it is enough to let one run at a time: part says which.   *)
(***************************************************************************)
EXTENDS MCCid, Fsk, TelFilt

VARIABLE part

\* Two numbers of which one is the beginning of the other.
McNumbers == {<<1>>, <<1, 2>>}

\* A part that does not run has one initial state.
ReceiverInit ==
  /\ part \in {"samples", "bytes", "numbers"}
  /\ FskInit
  /\ TelFiltInit /\ (part # "numbers" => tf.mode = TF_MODE_BLACKLIST)
  /\ McInit /\ (part # "bytes" => layer = "link")

cidVars == <<layer, link, msg>>

ReceiverNext ==
  /\ UNCHANGED part
  /\ \/ part = "samples" /\ FskNext /\ UNCHANGED <<cidVars, telFiltVars>>
     \/ part = "bytes" /\ McNext /\ UNCHANGED <<fskVars, telFiltVars>>
     \/ part = "numbers" /\ TelFiltNext /\ UNCHANGED <<fskVars, cidVars>>

ReceiverSpec ==
  ReceiverInit /\ [][ReceiverNext]_<<part, fskVars, cidVars, telFiltVars>>
=================================================================================
