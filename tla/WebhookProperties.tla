-------------------------- MODULE WebhookProperties --------------------------
(***************************************************************************)
(* What the webhook promises to the pods it changes.                       *)
(***************************************************************************)
EXTENDS Webhook, Integers

\* No other account makes the same name.
OwnName(m) ==
  \A o \in Manifests : BindingName(o) = BindingName(m) => o.account = m.account

HasRole(p) == role \/ "role" \in deleted[p]

HasBinding(p) ==
  LET m == pod[p].manifest IN
  \/ "binding" \in deleted[p]
  \/ /\ binding[BindingName(m)] # None
     /\ OwnName(m) => binding[BindingName(m)] = m.account

\* When a pod runs with the sidecar, the ClusterRole exists and so does a binding of
\* the name its account makes, unless somebody deleted them since the pod was asked
\* about: whatever fails in between, whatever goroutine creates the objects, and
\* although AlreadyExists is as good as success (controller.go:266 and 281).  The
\* binding is for the pod's own account, and the sidecar has the rights it needs, if
\* no other account makes the same name.  If one does, the binding may be for that
\* account: see OwnBinding.
Rights ==
  \A p \in Pods : pod[p].container # None => HasRole(p) /\ HasBinding(p)

Occurs(word, name) == \E i \in 1..Len(name) : name[i] = word

\* Nobody uses the word "in" in the names of accounts, or nobody does in those of
\* namespaces.
NamesSeparate ==
  \/ \A m \in Manifests : ~Occurs(In, m.account.name)
  \/ \A m \in Manifests : ~Occurs(In, m.account.namespace)

\* A pod that runs with the sidecar has a binding for its own account, unless
\* somebody deleted it (src/README.md:38: the webhook adds the sidecar and the
\* ClusterRoleBinding).  The name of the binding is called UniqueName
\* (controller.go:246) and is not: AlreadyExists may stand for the binding of another
\* account, and then the pod runs with a sidecar that has no rights.  It holds when
\* names are separate.
OwnBinding ==
  \A p \in Pods : pod[p].container # None =>
    LET m == pod[p].manifest IN
    "binding" \in deleted[p] \/ binding[BindingName(m)] = m.account

\* Rights are only given to the accounts of pods that asked for a sidecar with all
\* three annotations, and the binding has the name that belongs to its account.
NoNeedlessRights ==
  /\ role => \E m \in Manifests : Wants(m)
  /\ \A n \in BindingNames : binding[n] # None =>
       \E m \in Manifests : Wants(m) /\ m.account = binding[n] /\ BindingName(m) = n

\* Of two admissions that want a binding of the same name the first one wins: a
\* binding is never turned over to another account under a pod that relies on it.
BindingsStay ==
  [][\A n \in BindingNames : binding[n] # None => binding'[n] \in {binding[n], None}]_vars

-----------------------------------------------------------------------------

\* Goroutines are scheduled and the API server answers them; there is always a
\* goroutine for a new call (http.Server starts one), so that calls do not starve
\* although Handlers is finite; and pods that are refused are tried again.
Fairness ==
  /\ \A p \in Pods :
       /\ WF_vars(CreateAgain(p))
       /\ SF_vars(\E h \in Handlers : AddSidecarContainer(h, p))
  /\ \A h \in Handlers : WF_vars(HandlerStep(h))

FairSpec == Spec /\ Fairness

EventuallyQuiet == <>[][System]_vars

\* A pod that can be admitted is not refused forever: an admission finds what
\* earlier ones left behind half done and finishes it.  Pods the webhook cannot
\* decode, or whose names it cannot write, are denied every time.
Admissible(m) ==
  /\ ~Unreadable(m)
  /\ Wants(m) => Valid(m) /\ parseTemplate(m.account)

Admitted ==
  EventuallyQuiet =>
    \A p \in Pods : <>[](pod[p].phase \in {"asked", "refused"}
                           => ~Admissible(pod[p].manifest))

-----------------------------------------------------------------------------
(* The inductive invariant behind Rights.                                  *)

\* The API server waits for one goroutine per pod at most.
OneAnswer ==
  /\ \A h \in Handlers : handler[h].pod # None =>
       pod[handler[h].pod].phase = "asked" /\ pod[handler[h].pod].manifest = handler[h].object
  /\ \A g, h \in Handlers :
       handler[g].pod = handler[h].pod /\ handler[h].pod # None => g = h

\* What goroutine h has reached so far for the pod it is asked about.
Progress(h) ==
  /\ handler[h].pc # "idle" => handler[h].object \in Manifests
  /\ handler[h].pc = "idle" => handler[h].pod = None /\ handler[h].patch = None
  /\ handler[h].pc \in {"role", "binding"} => handler[h].patch # None
  /\ handler[h].pc = "reply" => handler[h].pod # None
  /\ handler[h].patch # None => Wants(handler[h].object)
  /\ handler[h].pod # None /\ handler[h].patch # None =>
       /\ handler[h].pc # "role" => HasRole(handler[h].pod)
       /\ handler[h].pc = "reply" => HasBinding(handler[h].pod)

PodOK(p) ==
  /\ pod[p].manifest = None => pod[p].phase = "absent"
  /\ pod[p].container # None => pod[p].phase = "created"

RightsInv ==
  /\ OneAnswer
  /\ \A p \in Pods : PodOK(p)
  /\ \A h \in Handlers : Progress(h)
  /\ NoNeedlessRights
  /\ Rights

=============================================================================
