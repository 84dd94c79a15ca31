------------------------------ MODULE MCVolume ------------------------------
(***************************************************************************)
(* Small instances of VolumeController.                                    *)
(***************************************************************************)
EXTENDS VolumeController

(* An owned volume of one size; edits touch the object's metadata only. *)
OneSizeSpecs == [existing: {NoId}, size: {1}, meta: {"a"}]

(* An owned volume that may grow or shrink, or whose size may be unset. *)
OwnedSpecs == [existing: {NoId}, size: {0, 1, 2}, meta: {"a"}]

(* A size that may grow or shrink, one that is unset (which STACKIT        *)
(* refuses), and an object that adopts a volume.                           *)
AllSpecs == [existing: {NoId}, size: {0, 1, 2}, meta: {"a"}]
              \cup [existing: {Foreign}, size: {2}, meta: {"a"}]
=============================================================================
