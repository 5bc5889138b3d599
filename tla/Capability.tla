----------------------------- MODULE Capability -----------------------------
(***************************************************************************)
(* The data of the storage-capability API group and the functions that     *)
(* derive a StorageClassCapability from the objects it depends on.         *)
(*                                                                         *)
(* All four kinds are cluster scoped, so an object is identified by its    *)
(* name alone.  A VolumeSnapshotClass is reduced to its driver.  The       *)
(* topology flag and the five Boolean volume features are always copied    *)
(* together and are one value here, "base".                                *)
(***************************************************************************)

CONSTANTS
  ClassNames,     \* names of StorageClasses; a StorageClassCapability and a
                  \* VolumeSnapshotClass belong to the class of the same name
  Provisioners,   \* names of CSI drivers; a ProvisionerCapability has the
                  \* name of its driver
  Bases,          \* values of topology and of volume.{create .. stats}
  Snapshots,      \* values of the snapshot features
  NoSnapshot,     \* the zero value of the snapshot features
  None            \* no such object

\* "" is the zero value of the Go type: the mode of a driver that advertises
\* no expansion capability.
ExpandModes == {"UNKNOWN", "OFFLINE", "ONLINE", ""}

Features == [base : Bases, expand : ExpandModes, snapshot : Snapshots]

\* A ProvisionerCapability as a lister returns it.
ProvisionerCapabilities == [name : Provisioners, features : Features]

\* AllowVolumeExpansion is an optional *bool: "nil" when the class omits it.
StorageClasses ==
  [provisioner : Provisioners, allowExpansion : {"true", "false", "nil"}]

StorageClassCapabilities ==
  [provisioner : Provisioners, base : Bases, expand : ExpandModes,
   snapshot : Snapshots \cup {NoSnapshot}]

ASSUME NoneAssumption ==
  /\ None \notin ClassNames
  /\ None \notin Provisioners
  /\ None \notin StorageClasses
  /\ None \notin ProvisionerCapabilities
  /\ None \notin Features
  /\ None \notin StorageClassCapabilities

-----------------------------------------------------------------------------

\* *storageClass.AllowVolumeExpansion is evaluated without a nil check.
DereferencesNil(storageClass) == storageClass.allowExpansion = "nil"

\* The spec of the object to create.  Only defined when the class does not
\* make it dereference nil.
newSccap(storageClass, snapDriver, pcap) ==
  [provisioner |-> storageClass.provisioner,
   base        |-> pcap.features.base,
   expand      |-> IF storageClass.allowExpansion = "true"
                     THEN pcap.features.expand
                     ELSE "UNKNOWN",
   snapshot    |-> IF snapDriver # None /\ snapDriver = pcap.name
                     THEN pcap.features.snapshot
                     ELSE NoSnapshot]

\* A mistake: an update takes the expand mode of the driver whatever the class
\* allows.
updateSccapAnyExpansion(storageClass, snapDriver, pcap) ==
  [newSccap(storageClass, snapDriver, pcap) EXCEPT !.expand = pcap.features.expand]

\* The spec an existing object gets: the whole spec is replaced, so nothing of
\* the old one survives.  The guards on names hold because snapshot class and
\* StorageClassCapability were both looked up under the name of the class.
updateSccap(storageClass, snapDriver, pcap) ==
  newSccap(storageClass, snapDriver, pcap)

=============================================================================
