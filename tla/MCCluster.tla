------------------------------ MODULE MCCluster ------------------------------
(***************************************************************************)
(* Small instances of ClusterController, with 4-bit int32 (Half = 8).      *)
(***************************************************************************)
EXTENDS ClusterController

Pool(name, size, zones) ==
  [name |-> name, machine |-> "c1.2", minimum |-> 0, maximum |-> 2,
   size |-> size, type |-> "", zones |-> zones]

(* A maintenance window on some day. *)
Window(auto) ==
  [kubernetesVersion |-> auto, machineImage |-> FALSE,
   start |-> [date |-> 5, clock |-> 3], end |-> [date |-> 5, clock |-> 4]]

(* Two pools in two zones and the default maintenance; one of them, grown, *)
(* with a window of its own; that with a size that becomes 2 as an int32.  *)
Large == [existing |-> NoId, name |-> "c", version |-> 1,
          pools |-> <<Pool("p", 2, <<"z1", "z2">>), Pool("q", 3, <<"z1">>)>>,
          maintenance |-> NoMaintenance]
Small == [Large EXCEPT !.version = 2, !.pools = <<Pool("q", 5, <<"z1", "z2">>)>>,
                       !.maintenance = Window(FALSE)]
Wrapped == [Small EXCEPT !.pools = <<Pool("p", 18, <<"z1">>)>>]

Adopting == [Large EXCEPT !.existing = "theirs", !.name = "theirs"]

OwnedSpecs == {Large, Small}
AllSpecs == {Large, Wrapped, Adopting}
OneSpec == {Large}

(* A window in which SKE may update the Kubernetes version. *)
AutoSpec == {[Small EXCEPT !.maintenance = Window(TRUE)]}
=============================================================================
