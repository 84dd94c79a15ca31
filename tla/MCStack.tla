------------------------------- MODULE MCStack -------------------------------
(***************************************************************************)
(* Small instances of Stack.                                               *)
(***************************************************************************)
EXTENDS Stack

OneVolume == {[existing |-> NoId, size |-> 1, meta |-> "a"]}

(* A server that boots from the Volume. *)
OneServer == {[imageId |-> FALSE, networkId |-> TRUE, networkRef |-> FALSE,
               bootVolumeRef |-> TRUE, machineType |-> "c1",
               powerState |-> "Active", meta |-> "a"]}
=============================================================================
