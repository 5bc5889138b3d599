------------------------------ MODULE Cluster ------------------------------
(***************************************************************************)
(* The objects kept by the API server and what users, administrators and   *)
(* the sidecars do to the three kinds the controller only reads.  All of   *)
(* it is outside the repository: it is the environment the code relies on. *)
(***************************************************************************)
EXTENDS Capability

CONSTANTS
  ClassSpecs,     \* the StorageClasses users create
  SnapDrivers,    \* the drivers of the VolumeSnapshotClasses users create
  Published       \* Published[p]: the features ever published for driver p

ASSUME ClusterAssumption ==
  /\ ClassSpecs \subseteq StorageClasses
  /\ SnapDrivers \subseteq Provisioners
  /\ Published \in [Provisioners -> SUBSET Features]

VARIABLES
  sc,     \* sc[c]: the StorageClass named c
  snap,   \* snap[c]: the driver of the VolumeSnapshotClass named c
  pcap,   \* pcap[p]: the features of the ProvisionerCapability named p
  sccap   \* sccap[c]: the spec of the StorageClassCapability named c

clusterVars == <<sc, snap, pcap, sccap>>

ClusterTypeOK ==
  /\ sc \in [ClassNames -> ClassSpecs \cup {None}]
  /\ snap \in [ClassNames -> SnapDrivers \cup {None}]
  /\ pcap \in [Provisioners -> Features \cup {None}]
  /\ \A p \in Provisioners : pcap[p] \in Published[p] \cup {None}
  /\ sccap \in [ClassNames -> StorageClassCapabilities \cup {None}]

\* The controller may start in a cluster with any classes and capabilities.
ClusterInit ==
  /\ sc \in [ClassNames -> ClassSpecs \cup {None}]
  /\ snap \in [ClassNames -> SnapDrivers \cup {None}]
  /\ pcap \in {f \in [Provisioners -> UNION {Published[p] : p \in Provisioners}
                                       \cup {None}] :
               \A p \in Provisioners : f[p] \in Published[p] \cup {None}}
  /\ sccap = [c \in ClassNames |-> None]

\* A user creates, deletes or edits class c.  The provisioner of a class is
\* immutable: it only changes by deleting the class and creating it again.
SetStorageClass(c, new) ==
  /\ new # sc[c]
  /\ sc[c] # None /\ new # None => new.provisioner = sc[c].provisioner
  /\ sc' = [sc EXCEPT ![c] = new]
  /\ UNCHANGED <<snap, pcap, sccap>>

\* A user creates, deletes or edits the snapshot class named c.
SetSnapshotClass(c, new) ==
  /\ new # snap[c]
  /\ snap' = [snap EXCEPT ![c] = new]
  /\ UNCHANGED <<sc, pcap, sccap>>

\* The sidecar of driver p publishes new features, or an administrator
\* deletes its ProvisionerCapability.
SetProvisionerCapability(p, new) ==
  /\ new # pcap[p]
  /\ pcap' = [pcap EXCEPT ![p] = new]
  /\ UNCHANGED <<sc, snap, sccap>>

\* What the StorageClassCapability of class c should say, from the objects
\* themselves.
Desired(c) ==
  newSccap(sc[c], snap[c], [name |-> sc[c].provisioner,
                            features |-> pcap[sc[c].provisioner]])

\* There is something to derive for class c.
Derivable(c) ==
  /\ sc[c] # None
  /\ pcap[sc[c].provisioner] # None

=============================================================================
