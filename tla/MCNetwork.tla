------------------------------ MODULE MCNetwork ------------------------------
(***************************************************************************)
(* Small instances of NetworkController.                                   *)
(***************************************************************************)
EXTENDS NetworkController

(* The fields are dhcp, which a spec may leave unset, and two label keys. *)
DhcpField == {"dhcp"}
TwoLabels == {"team", "tier"}

Wanting(dhcp, team, tier) ==
  [f \in DhcpField \cup TwoLabels |->
     CASE f = "dhcp" -> dhcp [] f = "team" -> team [] OTHER -> tier]

(* Two generations of an owned network, and an object that adopts one. *)
OwnedSpecs == {[existing |-> NoId, want |-> Wanting(Unset, "on", "on")],
               [existing |-> NoId, want |-> Wanting("on", "on", Unset)]}
AdoptingSpec == [existing |-> Foreign, want |-> Wanting("on", Unset, Unset)]
AllSpecs == OwnedSpecs \cup {AdoptingSpec}
=============================================================================
