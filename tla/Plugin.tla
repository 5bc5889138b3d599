------------------------------- MODULE Plugin -------------------------------
(***************************************************************************)
(* What a sidecar learns from the CSI driver beside it: the answers of the *)
(* driver to four calls, and how GetFullCapability makes the spec of a     *)
(* ProvisionerCapability of them.                                          *)
(***************************************************************************)
EXTENDS SequencesExt

CONSTANTS
  Provisioners,   \* names of CSI drivers
  Versions,       \* vendor versions
  Releases,       \* builds of CSI drivers
  Reports         \* Reports[r]: what release r answers, see DriverReports

\* An entry of the answer to GetPluginCapabilities: one of two services, a type
\* of volume expansion (one this code does not know included), or nothing.
PluginCapabilities ==
  {"controllerService", "accessibilityConstraints",
   "expandUnknown", "expandOnline", "expandOffline", "expandOther", "nil"}

VolumeRpcs == {"createVolume", "publishVolume", "listVolumes", "cloneVolume"}

SnapshotRpcs == {"createSnapshot", "listSnapshots"}

\* A driver advertises RPCs nobody here asks for, too.
ControllerRpcs == VolumeRpcs \cup SnapshotRpcs \cup {"otherRpc"}

NodeRpcs == {"volumeStats", "otherRpc"}

DriverReports ==
  [name : Provisioners, version : Versions, plugin : Seq(PluginCapabilities),
   controller : SUBSET ControllerRpcs, node : SUBSET NodeRpcs]

ASSUME PluginAssumption == Reports \in [Releases -> DriverReports]

-----------------------------------------------------------------------------

ExpandModes == {"UNKNOWN", "OFFLINE", "ONLINE", ""}

Expansions == {"expandUnknown", "expandOnline", "expandOffline", "expandOther"}

\* A mistake: the names of the CSI specification are published.
ExpandModeUnchanged(expansion) == expansion

ExpandMode(expansion) ==
  CASE expansion = "expandOnline"  -> "ONLINE"
    [] expansion = "expandOffline" -> "OFFLINE"
    [] OTHER                       -> "UNKNOWN"

\* A mistake: an expansion that was read before is kept.
ReadCapabilityFirst(result, capability) ==
  IF capability = "accessibilityConstraints"
    THEN [result EXCEPT !.topology = TRUE]
    ELSE IF capability \in Expansions /\ result.expand = ""
      THEN [result EXCEPT !.expand = ExpandMode(capability)]
      ELSE result

\* The body of the loop of GetIdentityCapability.
ReadCapability(result, capability) ==
  IF capability = "accessibilityConstraints"
    THEN [result EXCEPT !.topology = TRUE]
    ELSE IF capability \in Expansions
      THEN [result EXCEPT !.expand = ExpandMode(capability)]
      ELSE result

\* The loop over the entries, in the order the driver gives them: result[n] is
\* what is known after n of them.
IdentityCapability(capabilities) ==
  LET result[n \in 0..Len(capabilities)] ==
        IF n = 0 THEN [topology |-> FALSE, expand |-> ""]
                 ELSE ReadCapability(result[n - 1], capabilities[n])
  IN result[Len(capabilities)]

Identities == [topology : BOOLEAN, expand : ExpandModes]

\* The values of topology and volume.{create, attach, list, clone, stats}.
FlagSets == [topology : BOOLEAN, volume : SUBSET VolumeRpcs, stats : BOOLEAN]

Features == [base : FlagSets, expand : ExpandModes, snapshot : SUBSET SnapshotRpcs]

Specs == [version : Versions, features : Features]

\* What the loop comes to: the last expansion counts, and without one there is the
\* zero value of the type, which is no mode that types.go defines.
LastExpansion(capabilities) ==
  LET expansions == {i \in DOMAIN capabilities : capabilities[i] \in Expansions}
  IN IF expansions = {} THEN "" ELSE ExpandMode(capabilities[Max(expansions)])

\* The spec GetFullCapability returns, from what the four calls returned.
FullCapability(info, identity, controller, node) ==
  [version  |-> info.version,
   features |-> [base     |-> [topology |-> identity.topology,
                               volume   |-> controller \cap VolumeRpcs,
                               stats    |-> "volumeStats" \in node],
                 expand   |-> identity.expand,
                 snapshot |-> controller \cap SnapshotRpcs]]

=============================================================================
