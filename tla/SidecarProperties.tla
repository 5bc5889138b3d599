-------------------------- MODULE SidecarProperties --------------------------
(***************************************************************************)
(* What the sidecars of a driver promise together, and to the controller.  *)
(***************************************************************************)
EXTENDS Sidecar

\* The spec a sidecar publishes for release r when it asks for everything at once.
Full(r) ==
  FullCapability(Reports[r], IdentityCapability(Reports[r].plugin),
                 Reports[r].controller, Reports[r].node)

ReleasesOf(p) == {r \in Releases : Reports[r].name = p}

-----------------------------------------------------------------------------
(* Safety.                                                                 *)

\* A ProvisionerCapability is what one release of its driver reports, although it
\* is put together from the answers to four calls and the driver may be replaced
\* between any two of them: never half of one release and half of another.
Whole ==
  \A p \in Provisioners :
    pcap[p] # None => \E r \in ReleasesOf(p) : pcap[p] = Full(r)

\* The modes that types.go:68-72 and the CRDs define.
DefinedModes == {"UNKNOWN", "OFFLINE", "ONLINE"}

ListsExpansion(r) == \E i \in DOMAIN Reports[r].plugin : Reports[r].plugin[i] \in Expansions

\* The mode of expansion that is published beside a version is the last one that a
\* release of this version lists, whatever it lists repeatedly or of an unknown kind
\* (the loop of GetIdentityCapability).  A release that lists none gets the zero value
\* of the Go type, which is none of the defined modes: a defined mode is published
\* for exactly the releases that list an expansion.
LastExpansionCounts ==
  \A p \in Provisioners : pcap[p] # None =>
    \E r \in ReleasesOf(p) :
      /\ pcap[p].version = Reports[r].version
      /\ pcap[p].features.expand \in DefinedModes <=> ListsExpansion(r)
      /\ ListsExpansion(r) => pcap[p].features.expand = LastExpansion(Reports[r].plugin)

\* The controller is checked and proved in an environment where any of the
\* features published for a driver may appear, disappear and be replaced at any
\* time, and no others.  The sidecars are such an environment.
PublishedFeatures ==
  [p \in Provisioners |-> {Full(r).features : r \in ReleasesOf(p)}]

features ==
  [p \in Provisioners |-> IF pcap[p] = None THEN None ELSE pcap[p].features]

Controllers == INSTANCE Cluster WITH
  ClassNames <- {}, ClassSpecs <- {}, SnapDrivers <- {},
  Bases <- FlagSets, Snapshots <- SUBSET SnapshotRpcs, NoSnapshot <- {},
  Published <- PublishedFeatures, pcap <- features,
  sc <- <<>>, snap <- <<>>, sccap <- <<>>

PublishedOrNone(p) == PublishedFeatures[p] \cup {None}

\* Every step of a sidecar, of its driver or of an administrator is a step of
\* SetProvisionerCapability as the controller knows it, or leaves it alone.
ImplementsUsers ==
  /\ \A p \in Provisioners : features[p] \in PublishedOrNone(p)
  /\ [][\E p \in Provisioners : \E new \in PublishedOrNone(p) :
          Controllers!SetProvisionerCapability(p, new)]_features

-----------------------------------------------------------------------------
(* Fairness: a sidecar that ended is restarted, gRPC notices that the driver *)
(* is gone, the period of contentWorker ends, and every call returns.        *)

Fairness ==
  \A s \in Sidecars :
    /\ WF_vars(Start(s))
    /\ WF_vars(ConnectionLost(s))
    /\ WF_vars(SidecarStep(s))

FairSpec == Spec /\ Fairness

EventuallyQuiet == <>[][System]_vars

\* The releases that run beside the sidecars are the ones that are published.
Current(p) ==
  \A s \in Sidecars :
    Reports[driver[s]].name = p
      => \E t \in Sidecars : /\ Reports[driver[t]].name = p
                             /\ pcap[p] = Full(driver[t])

\* When drivers stop being replaced and nothing fails any more, a
\* ProvisionerCapability settles on what a running release reports: what another
\* sidecar read of an old release does not stay.
Publishes ==
  EventuallyQuiet => \A p \in Provisioners : <>[]Current(p)

-----------------------------------------------------------------------------
(* The inductive invariant.                                                *)

InfoOf(r) == [name |-> Reports[r].name, version |-> Reports[r].version]

IdentityOf(r) == IdentityCapability(Reports[r].plugin)

\* TypeOK, with what releases report in place of all values of the type.
ReportedLocals ==
  [pc : PCs,
   info : {InfoOf(r) : r \in Releases} \cup {None},
   identity : {IdentityOf(r) : r \in Releases} \cup {None},
   controller : {Reports[r].controller : r \in Releases} \cup {None},
   spec : {Full(r) : r \in Releases} \cup {None},
   fresh : BOOLEAN]

ReportedOK ==
  /\ pcap \in [Provisioners -> {Full(r) : r \in Releases} \cup {None}]
  /\ driver \in [Sidecars -> Releases]
  /\ connected \in [Sidecars -> BOOLEAN]
  /\ sidecar \in [Sidecars -> ReportedLocals]

\* All sidecar s has read was read from release r, and it can read no more unless
\* r still runs.
ReadsFrom(s, r) ==
  /\ connected[s] => r = driver[s]
  /\ sidecar[s].pc \in {"getIdentity", "getController", "getNode", "getPcap",
                        "create", "update"}
       => sidecar[s].info = InfoOf(r)
  /\ sidecar[s].pc \in {"getController", "getNode"} => sidecar[s].identity = IdentityOf(r)
  /\ sidecar[s].pc = "getNode" => sidecar[s].controller = Reports[r].controller
  /\ sidecar[s].pc \in {"getPcap", "create", "update"} => sidecar[s].spec = Full(r)

SidecarInv ==
  /\ ReportedOK
  /\ \A s \in Sidecars : \E r \in Releases : ReadsFrom(s, r)
  /\ Whole

=============================================================================
