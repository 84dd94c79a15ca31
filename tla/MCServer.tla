------------------------------ MODULE MCServer ------------------------------
(***************************************************************************)
(* Small instances of ServerController.                                    *)
(***************************************************************************)
EXTENDS ServerController

(* A server on a raw image and network ID. *)
Plain == [imageId |-> TRUE, networkId |-> TRUE, networkRef |-> FALSE,
          bootVolumeRef |-> FALSE, machineType |-> "c1",
          powerState |-> "Active", meta |-> "a"]

(* Edits of machine type and power state. *)
DriftSpecs == {Plain, [Plain EXCEPT !.machineType = "c2", !.powerState = "Inactive"]}

(* References to both objects, or a contradictory one. *)
ByReference == [Plain EXCEPT !.imageId = FALSE, !.networkId = FALSE,
                             !.networkRef = TRUE, !.bootVolumeRef = TRUE,
                             !.powerState = "Inactive"]
ReferenceSpecs == {ByReference, [Plain EXCEPT !.networkRef = TRUE]}

(* The Volume is made again. *)
VolumeLost == {[AllReady EXCEPT !.volume = "CREATING"]}
NoViews == {}
=============================================================================
