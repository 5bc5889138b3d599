------------------------------ MODULE MCSidecar ------------------------------
(***************************************************************************)
(* Small instances of the sidecars: releases of one driver that differ in  *)
(* the answer to every call.                                               *)
(***************************************************************************)
EXTENDS SidecarProperties

CONSTANTS d1, v1, v2, v3, r1, r2, r3

\* The old release advertises two kinds of expansion, the new one none.
OldReport == [name |-> d1, version |-> v1,
              plugin |-> <<"controllerService", "expandOnline", "expandOffline">>,
              controller |-> {"createVolume", "otherRpc"},
              node |-> {"volumeStats"}]

NewReport == [name |-> d1, version |-> v2,
              plugin |-> <<"nil", "accessibilityConstraints">>,
              controller |-> {"createVolume", "cloneVolume", "createSnapshot"},
              node |-> {}]

\* An even newer one advertises a kind of expansion this code does not know.
NewestReport == [name |-> d1, version |-> v3,
                 plugin |-> <<"expandOffline", "expandOther", "controllerService">>,
                 controller |-> ControllerRpcs,
                 node |-> NodeRpcs]

ThreeReleases == (r1 :> OldReport) @@ (r2 :> NewReport) @@ (r3 :> NewestReport)

=============================================================================
