------------------------------- MODULE Webhook -------------------------------
(***************************************************************************)
(* The admission webhook.  The API server asks it about every pod that is  *)
(* to be created.  A pod with the three annotations gets the sidecar       *)
(* container, and the webhook makes sure that the service account of the   *)
(* pod has the rights the sidecar needs: first the ClusterRole, which all  *)
(* share, then a ClusterRoleBinding for the account.                       *)
(*                                                                         *)
(* Every call is answered by a goroutine of its own.  The API server does  *)
(* not wait forever: when a call fails or takes too long it creates the    *)
(* pod as it is (failurePolicy Ignore), and the goroutine goes on.         *)
(***************************************************************************)
EXTENDS Sequences

CONSTANTS
  Words,        \* parts of names, which hyphens join
  In,           \* the word "in"
  NonStrings,   \* names YAML does not read as strings: numbers, true, null
  Volumes,      \* names of volumes
  Values,       \* other values of annotations
  Pods,         \* names of pods, and of other objects
  Written,      \* Written[p]: the manifests users write for p, see Objects
  Handlers,     \* bounds the goroutines of the server that run at a time
  None          \* no such object, or no patch

Annotations == {"address", "volumeName", "mountPath"}

Accounts == [name : Seq(Words), namespace : Seq(Words)]

\* "" is the value of a missing annotation.  hasSidecar: the manifest already
\* has a container of the name of the sidecar.  readable: the webhook can decode
\* it; it was built with the pods of one version of the API.
Objects ==
  [resource : {"pods", "other"}, readable : BOOLEAN,
   annotations : [Annotations -> Volumes \cup Values \cup {""}],
   account : Accounts, volumes : SUBSET Volumes, hasSidecar : BOOLEAN]

\* The manifests in use.
Manifests == UNION {Written[p] : p \in Pods}

\* A container is reduced to what differs between two of them.
Containers == [Annotations -> (Volumes \cup Values) \ {""}]

ASSUME WebhookAssumption ==
  /\ In \in Words
  /\ NonStrings \subseteq Seq(Words)
  /\ Written \in [Pods -> SUBSET Objects]
  /\ None \notin Pods
  /\ None \notin Manifests
  /\ None \notin Accounts
  /\ None \notin Containers

\* The name of the binding is not unique: "a-in-b" in "c" and "a" in "b-in-c".
UniqueName(account) == account.name \o <<In>> \o account.namespace

BindingName(m) == UniqueName(m.account)

BindingNames == {BindingName(m) : m \in Manifests}

VARIABLES
  role,      \* the ClusterRole storage-capability-sidecar exists
  binding,   \* binding[n]: the account the ClusterRoleBinding n is for
  pod,       \* pod[p]: what was written, what became of it, and the container
             \* that was added
  handler,   \* handler[h]: the program counter and the locals of goroutine h
  deleted    \* deleted[p]: the rights administrators deleted since the webhook was
             \* asked about p, until p is not admitted; it only records

vars == <<role, binding, pod, handler, deleted>>

PodStates == [phase : {"absent", "asked", "refused", "created"},
              manifest : Manifests \cup {None},
              container : Containers \cup {None}]

Absent == [phase |-> "absent", manifest |-> None, container |-> None]

\* pod: the one whose creation waits for the answer, None when the API server has
\* given up.
Locals == [pc : {"idle", "role", "binding", "reply"},
           pod : Pods \cup {None},
           object : Manifests \cup {None},
           patch : Containers \cup {None},
           allowed : BOOLEAN]

Idle == [pc |-> "idle", pod |-> None, object |-> None,
         patch |-> None, allowed |-> FALSE]

TypeOK ==
  /\ role \in BOOLEAN
  /\ binding \in [BindingNames -> {m.account : m \in Manifests} \cup {None}]
  /\ pod \in [Pods -> PodStates]
  /\ handler \in [Handlers -> Locals]
  /\ deleted \in [Pods -> SUBSET {"role", "binding"}]

Init ==
  /\ role = FALSE
  /\ binding = [n \in BindingNames |-> None]
  /\ pod = [p \in Pods |-> Absent]
  /\ handler = [h \in Handlers |-> Idle]
  /\ deleted = [p \in Pods |-> {}]

-----------------------------------------------------------------------------
(* The API server, users and administrators.                               *)

Create(p, m) ==
  /\ pod[p].phase = "absent"
  /\ pod' = [pod EXCEPT ![p] = [Absent EXCEPT !.phase = "asked", !.manifest = m]]
  /\ UNCHANGED <<role, binding, handler, deleted>>

\* The controller of the pod (a ReplicaSet, for example) tries again.
CreateAgain(p) ==
  /\ pod[p].phase = "refused"
  /\ pod' = [pod EXCEPT ![p].phase = "asked"]
  /\ UNCHANGED <<role, binding, handler, deleted>>

Delete(p) ==
  /\ pod[p].phase = "created"
  /\ pod' = [pod EXCEPT ![p] = Absent]
  /\ deleted' = [deleted EXCEPT ![p] = {}]
  /\ UNCHANGED <<role, binding, handler>>

\* Nobody reads what goroutine h answers: it goes on to its last call, and ends.
GivenUp(h) ==
  IF handler[h].pc = "reply" THEN Idle ELSE [handler[h] EXCEPT !.pod = None]

\* The webhook cannot be reached, does not answer in time, or answers with an
\* error status because it could not read the request.
CallFails(p) ==
  /\ pod[p].phase = "asked"
  /\ pod' = [pod EXCEPT ![p].phase = "created"]
  /\ handler' = [h \in Handlers |-> IF handler[h].pod = p THEN GivenUp(h) ELSE handler[h]]
  /\ deleted' = [deleted EXCEPT ![p] = {}]
  /\ UNCHANGED <<role, binding>>

\* What administrators delete is recorded for the pods it matters to.
Concerned(p) ==
  \/ pod[p].container # None
  \/ \E h \in Handlers : handler[h].pod = p /\ handler[h].pc \in {"binding", "reply"}

Record(kind, names) ==
  deleted' = [p \in Pods |->
                IF Concerned(p) /\ BindingName(pod[p].manifest) \in names
                  THEN deleted[p] \cup {kind}
                  ELSE deleted[p]]

DeleteRole ==
  /\ role
  /\ role' = FALSE
  /\ Record("role", BindingNames)
  /\ UNCHANGED <<binding, pod, handler>>

DeleteBinding(n) ==
  /\ binding[n] # None
  /\ binding' = [binding EXCEPT ![n] = None]
  /\ Record("binding", {n})
  /\ UNCHANGED <<role, pod, handler>>

-----------------------------------------------------------------------------
(* The webhook.                                                            *)

Becomes(h, locals) == handler' = [handler EXCEPT ![h] = locals]

\* The process ends and is started again: whoever waits gets no answer.
Crash ==
  /\ \E h \in Handlers : handler[h].pc # "idle"
  /\ handler' = [h \in Handlers |-> Idle]
  /\ UNCHANGED <<role, binding, pod, deleted>>

\* A mistake: any annotation will do.
WantsAny(m) ==
  /\ m.resource = "pods" /\ m.readable
  /\ \E a \in Annotations : m.annotations[a] # ""

\* The pod cannot be decoded, and is denied.
Unreadable(m) == m.resource = "pods" /\ ~m.readable

Wants(m) ==
  /\ m.resource = "pods" /\ m.readable
  /\ \A a \in Annotations : m.annotations[a] # ""

getSidecarContainerSpec(m) == m.annotations

\* A goroutine reads and decodes the request, and decides on the patch.
AddSidecarContainer(h, p) ==
  LET m == pod[p].manifest
      asked == [Idle EXCEPT !.pod = p, !.object = m]
  IN
  /\ handler[h].pc = "idle"
  /\ pod[p].phase = "asked"
  /\ \A g \in Handlers : handler[g].pod # p
  /\ \/ /\ Wants(m)
        /\ Becomes(h, [asked EXCEPT !.pc = "role", !.patch = getSidecarContainerSpec(m)])
     \/ /\ ~Wants(m)
        /\ Becomes(h, [asked EXCEPT !.pc = "reply", !.allowed = ~Unreadable(m)])
  /\ deleted' = [deleted EXCEPT ![p] = {}]
  /\ UNCHANGED <<role, binding, pod>>

\* The goroutine has its answer.  It is written only if somebody waits for it.
Answers(h, answer) == IF handler[h].pod = None THEN Idle ELSE [answer EXCEPT !.pc = "reply"]

\* admit returns an error: the pod is denied.
Denied(h) == Answers(h, [handler[h] EXCEPT !.patch = None])

\* The replies of the API server to a creation: "ok", "exists", "rejected" (for
\* another reason), or "lost" (it fails, and may have been executed).

\* A mistake: AlreadyExists is an error like any other.
RoleExistsFails(h) == Denied(h)

RoleExists(h) == [handler[h] EXCEPT !.pc = "binding"]

createSidecarClusterRole(h, reply) ==
  /\ handler[h].pc = "role"
  /\ \/ /\ reply = "ok" /\ ~role /\ role' = TRUE
        /\ Becomes(h, [handler[h] EXCEPT !.pc = "binding"])
     \/ /\ reply = "exists" /\ role /\ UNCHANGED role
        /\ Becomes(h, RoleExists(h))
     \/ /\ reply = "rejected" /\ UNCHANGED role
        /\ Becomes(h, Denied(h))
     \/ /\ reply = "lost" /\ role' \in {role, TRUE}
        /\ Becomes(h, Denied(h))
  /\ UNCHANGED <<binding, pod, deleted>>

\* The template writes the names without quotes, so that a name which is a number
\* or a keyword of YAML does not decode into a string.
Decodes(name) == name \notin NonStrings

parseTemplate(account) == Decodes(account.name) /\ Decodes(account.namespace)

Allowed(h) == Answers(h, [handler[h] EXCEPT !.allowed = TRUE])

\* A mistake: the error is logged, and the pod gets its sidecar.
BindingFailsIgnored(h) == Allowed(h)

BindingFails(h) == Denied(h)

\* A mistake: an existing binding is brought up to date.
BindingExistsReplaced(account) == [binding EXCEPT ![UniqueName(account)] = account]

BindingExists(account) == binding

createSidecarClusterRoleBinding(h, reply) ==
  LET account == handler[h].object.account
      n == UniqueName(account)
      bound == binding[n] = None /\ binding' = [binding EXCEPT ![n] = account]
  IN
  /\ handler[h].pc = "binding"
  /\ parseTemplate(account)
  /\ \/ /\ reply = "ok" /\ bound
        /\ Becomes(h, Allowed(h))
     \/ /\ reply = "exists" /\ binding[n] # None /\ binding' = BindingExists(account)
        /\ Becomes(h, Allowed(h))
     \/ /\ reply = "rejected" /\ UNCHANGED binding
        /\ Becomes(h, BindingFails(h))
     \/ /\ reply = "lost" /\ (bound \/ UNCHANGED binding)
        /\ Becomes(h, BindingFails(h))
  /\ UNCHANGED <<role, pod, deleted>>

\* The binding cannot be decoded, and the pod is denied.
DecodeFails(h) ==
  /\ handler[h].pc = "binding"
  /\ ~parseTemplate(handler[h].object.account)
  /\ Becomes(h, Denied(h))
  /\ UNCHANGED <<role, binding, pod, deleted>>

\* The API server refuses two containers of one name, and the mount of a volume
\* the pod does not have.
Valid(m) == m.annotations.volumeName \in m.volumes /\ ~m.hasSidecar

\* The answer is written, and the API server applies it.
serveAdmitFunc(h) ==
  LET p == handler[h].pod
      admitted == handler[h].allowed /\ (handler[h].patch # None => Valid(pod[p].manifest))
  IN
  /\ handler[h].pc = "reply"
  /\ pod' = IF admitted
              THEN [pod EXCEPT ![p].phase = "created", ![p].container = handler[h].patch]
              ELSE [pod EXCEPT ![p].phase = "refused"]
  /\ deleted' = IF admitted THEN deleted ELSE [deleted EXCEPT ![p] = {}]
  /\ Becomes(h, Idle)
  /\ UNCHANGED <<role, binding>>

-----------------------------------------------------------------------------

HandlerStep(h) ==
  \/ \E reply \in {"ok", "exists"} :
       createSidecarClusterRole(h, reply) \/ createSidecarClusterRoleBinding(h, reply)
  \/ DecodeFails(h)
  \/ serveAdmitFunc(h)

System ==
  \/ \E p \in Pods : CreateAgain(p)
  \/ \E h \in Handlers : HandlerStep(h) \/ \E p \in Pods : AddSidecarContainer(h, p)

Environment ==
  \/ \E p \in Pods : Delete(p) \/ CallFails(p) \/ \E m \in Written[p] : Create(p, m)
  \/ DeleteRole
  \/ \E n \in BindingNames : DeleteBinding(n)
  \/ Crash
  \/ \E h \in Handlers, reply \in {"rejected", "lost"} :
       createSidecarClusterRole(h, reply) \/ createSidecarClusterRoleBinding(h, reply)

Next == Environment \/ System

Spec == Init /\ [][Next]_vars

=============================================================================
