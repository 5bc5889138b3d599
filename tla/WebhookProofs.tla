---------------------------- MODULE WebhookProofs ----------------------------
(***************************************************************************)
(* Proofs about the webhook, for any pods, manifests, names and number of  *)
(* goroutines.  RightsInv is inductive together with TypeOK.               *)
(***************************************************************************)
EXTENDS WebhookProperties, SequenceTheorems, TLAPS

Inv == TypeOK /\ RightsInv

-----------------------------------------------------------------------------
(* Facts about the data.                                                   *)

\* The container of a pod with the three annotations is well formed.
LEMMA SpecType ==
  ASSUME NEW m \in Manifests, Wants(m)
  PROVE  getSidecarContainerSpec(m) \in Containers /\ getSidecarContainerSpec(m) # None
<1>1. m \in Objects
  BY WebhookAssumption DEF Manifests
<1>2. m.annotations \in [Annotations -> Volumes \cup Values \cup {""}]
  BY <1>1 DEF Objects
<1>3. \A x \in Annotations : m.annotations[x] # ""
  BY DEF Wants
<1>4. m.annotations \in [Annotations -> (Volumes \cup Values) \ {""}]
  BY <1>2, <1>3
<1> QED
  BY <1>4, WebhookAssumption DEF getSidecarContainerSpec, Containers

LEMMA NoneIsNoManifest == None \notin Manifests /\ None \notin Pods /\ None \notin Containers
  BY WebhookAssumption

LEMMA NoneIsNoAccount ==
  ASSUME NEW m \in Manifests
  PROVE  /\ m.account # None
         /\ m.account \in {o.account : o \in Manifests}
         /\ UniqueName(m.account) \in BindingNames
<1>1. m \in Objects
  BY WebhookAssumption DEF Manifests
<1>2. m.account \in Accounts
  BY <1>1 DEF Objects
<1> QED
  BY <1>2, WebhookAssumption DEF BindingNames, BindingName

\* s is a, then w, then b.
Joins(s, a, w, b) ==
  /\ Len(s) = Len(a) + 1 + Len(b)
  /\ s[Len(a) + 1] = w
  /\ \A i \in 1..Len(a) : s[i] = a[i]
  /\ \A i \in 1..Len(b) : s[Len(a) + 1 + i] = b[i]

LEMMA JoinedElements ==
  ASSUME NEW W, NEW w \in W, NEW a \in Seq(W), NEW b \in Seq(W)
  PROVE  Joins(a \o <<w>> \o b, a, w, b)
<1> DEFINE t == a \o <<w>>
           s == t \o b
<1>1. /\ t \in Seq(W) /\ Len(t) = Len(a) + 1
      /\ t[Len(a) + 1] = w
      /\ \A i \in 1..Len(a) : t[i] = a[i]
  OBVIOUS
<1> HIDE DEF t
<1>2. /\ Len(s) = Len(t) + Len(b)
      /\ \A i \in 1..Len(t) : s[i] = t[i]
      /\ \A i \in 1..Len(b) : s[Len(t) + i] = b[i]
  BY <1>1
<1> HIDE DEF s
<1>3. Len(s) = Len(a) + 1 + Len(b) /\ s[Len(a) + 1] = w
  BY <1>1, <1>2
<1>4. \A i \in 1..Len(a) : s[i] = a[i]
  BY <1>1, <1>2
<1>5. \A i \in 1..Len(b) : s[Len(a) + 1 + i] = b[i]
  BY <1>1, <1>2
<1> QED
  BY <1>3, <1>4, <1>5 DEF s, t, Joins

\* Two joined names are one sequence only if the separator is found at two places,
\* and then it occurs in the longer first name and in the longer second one.
LEMMA JoinedApart ==
  ASSUME NEW W, NEW w \in W,
         NEW a \in Seq(W), NEW b \in Seq(W), NEW c \in Seq(W), NEW d \in Seq(W),
         a \o <<w>> \o b = c \o <<w>> \o d, Len(a) < Len(c)
  PROVE  Occurs(w, c) /\ Occurs(w, b)
<1> DEFINE s == a \o <<w>> \o b
           t == c \o <<w>> \o d
<1>1. Joins(s, a, w, b)
  BY JoinedElements
<1>2. Joins(t, c, w, d)
  BY JoinedElements
<1> HIDE DEF s, t
<1>3. s = t
  BY DEF s, t
<1> USE DEF Joins
<1>4. Len(a) + 1 \in 1..Len(c) /\ c[Len(a) + 1] = w
  BY <1>1, <1>2, <1>3
<1>5. Len(c) - Len(a) \in 1..Len(b) /\ b[Len(c) - Len(a)] = w
  <2> DEFINE k == Len(c) - Len(a)
  <2>1. k \in 1..Len(b) /\ Len(a) + 1 + k = Len(c) + 1
    BY <1>1, <1>2, <1>3
  <2> HIDE DEF k
  <2>2. s[Len(a) + 1 + k] = b[k]
    BY <1>1, <2>1
  <2>3. b[k] = w
    BY <1>2, <1>3, <2>1, <2>2
  <2> QED
    BY <2>1, <2>3 DEF k
<1> QED
  BY <1>4, <1>5 DEF Occurs

\* Names of one length that are joined are equal when the results are.
LEMMA JoinedEqual ==
  ASSUME NEW W, NEW w \in W,
         NEW a \in Seq(W), NEW b \in Seq(W), NEW c \in Seq(W), NEW d \in Seq(W),
         a \o <<w>> \o b = c \o <<w>> \o d, Len(a) = Len(c)
  PROVE  a = c /\ b = d
<1> DEFINE s == a \o <<w>> \o b
           t == c \o <<w>> \o d
<1>1. Joins(s, a, w, b)
  BY JoinedElements
<1>2. Joins(t, c, w, d)
  BY JoinedElements
<1> HIDE DEF s, t
<1>3. s = t
  BY DEF s, t
<1> USE DEF Joins
<1>4. Len(b) = Len(d)
  BY <1>1, <1>2, <1>3
<1>5. \A i \in 1..Len(a) : a[i] = c[i]
  BY <1>1, <1>2, <1>3
<1>6. \A i \in 1..Len(b) : b[i] = d[i]
  BY <1>1, <1>2, <1>3, <1>4
<1> QED
  BY <1>4, <1>5, <1>6, SeqEqual

\* Accounts make one name only if one of the two has the word "in" in its name and the
\* other has it in its namespace.
LEMMA SeparateNamesAreOwn ==
  ASSUME NamesSeparate, NEW m \in Manifests
  PROVE  OwnName(m)
<1> SUFFICES ASSUME NEW o \in Manifests, BindingName(o) = BindingName(m)
             PROVE  o.account = m.account
  BY DEF OwnName
<1> DEFINE x == o.account
           y == m.account
<1>1. x \in Accounts /\ y \in Accounts
  <2>1. o \in Objects /\ m \in Objects
    BY WebhookAssumption DEF Manifests
  <2> QED
    BY <2>1 DEF Objects
<1>2. x.name \in Seq(Words) /\ x.namespace \in Seq(Words)
  BY <1>1 DEF Accounts
<1>3. y.name \in Seq(Words) /\ y.namespace \in Seq(Words)
  BY <1>1 DEF Accounts
<1>4. x.name \o <<In>> \o x.namespace = y.name \o <<In>> \o y.namespace
  BY DEF BindingName, UniqueName
<1>5. In \in Words
  BY WebhookAssumption
<1>6. ~(Occurs(In, x.name) /\ Occurs(In, y.namespace))
  BY DEF NamesSeparate
<1>7. ~(Occurs(In, y.name) /\ Occurs(In, x.namespace))
  BY DEF NamesSeparate
<1> HIDE DEF x, y
<1>8. ~(Len(x.name) < Len(y.name)) /\ ~(Len(y.name) < Len(x.name))
  BY <1>2, <1>3, <1>4, <1>5, <1>6, <1>7, JoinedApart
<1>9. Len(x.name) = Len(y.name)
  BY <1>2, <1>3, <1>8
<1>10. x.name = y.name /\ x.namespace = y.namespace
  BY <1>2, <1>3, <1>4, <1>5, <1>9, JoinedEqual
<1>11. x = y
  BY <1>1, <1>10 DEF Accounts
<1> QED
  BY <1>11 DEF x, y

-----------------------------------------------------------------------------

LEMMA InitInv == Init => Inv
<1> SUFFICES ASSUME Init PROVE Inv
  OBVIOUS
<1> USE NoneIsNoManifest DEF Init, Absent, Idle
<1>1. TypeOK
  BY DEF TypeOK, PodStates, Locals
<1>2. OneAnswer /\ \A h \in Handlers : Progress(h)
  BY DEF OneAnswer, Progress
<1>3. NoNeedlessRights /\ Rights /\ \A p \in Pods : PodOK(p)
  BY DEF NoNeedlessRights, Rights, PodOK
<1> QED
  BY <1>1, <1>2, <1>3 DEF Inv, RightsInv

(* Steps that change one pod and let goroutines give up.                   *)

\* Goroutine h goes on as before, is given up on, or is idle.
GivesUp(h) ==
  \/ handler'[h] = handler[h]
  \/ handler[h].pc # "reply" /\ handler'[h] = [handler[h] EXCEPT !.pod = None]
  \/ handler'[h] = Idle

LEMMA PodStep ==
  ASSUME Inv, TypeOK', NEW p \in Pods \cup {None},
         role' = role, binding' = binding,
         \A q \in Pods \ {p} : pod'[q] = pod[q] /\ deleted'[q] = deleted[q],
         \A h \in Handlers : GivesUp(h),
         \A h \in Handlers : handler'[h].pod # None => handler'[h].pod # p,
         p \in Pods => PodOK(p)',
         p \in Pods /\ pod'[p].container # None => HasRole(p)' /\ HasBinding(p)'
  PROVE  Inv'
<1> USE NoneIsNoManifest
<1>1. \A h \in Handlers :
        /\ handler[h].pod \in Pods \cup {None}
        /\ handler'[h].pod \in {handler[h].pod, None}
  BY DEF Inv, TypeOK, Locals, GivesUp, Idle
<1>2. ASSUME NEW h \in Handlers, handler'[h].pod # None
      PROVE  /\ handler'[h] = handler[h]
             /\ handler[h].pod \in Pods \ {p}
  BY <1>1, <1>2 DEF Inv, TypeOK, Locals, GivesUp, Idle
<1>3. OneAnswer'
  BY <1>2 DEF Inv, RightsInv, OneAnswer
<1>4. (\A q \in Pods : PodOK(q))'
  BY DEF Inv, RightsInv, PodOK
<1>5. ASSUME NEW h \in Handlers PROVE Progress(h)'
  <2>1. Progress(h)
    BY DEF Inv, RightsInv
  <2>2. CASE handler'[h].pod = None
    BY <2>1, <2>2 DEF Inv, TypeOK, Locals, GivesUp, Idle, Progress
  <2>3. CASE handler'[h].pod # None
    BY <1>2, <2>1, <2>3 DEF Progress, HasRole, HasBinding
  <2> QED
    BY <2>2, <2>3
<1>6. NoNeedlessRights'
  BY DEF Inv, RightsInv, NoNeedlessRights
<1>7. Rights'
  BY DEF Inv, RightsInv, Rights, HasRole, HasBinding
<1> QED
  BY <1>3, <1>4, <1>5, <1>6, <1>7 DEF Inv, RightsInv

LEMMA CreateStep ==
  ASSUME Inv, NEW p \in Pods, NEW m \in Written[p], Create(p, m)
  PROVE  Inv'
<1> USE DEF Create, Absent
<1>1. TypeOK'
  BY DEF Inv, TypeOK, PodStates, Manifests
<1>2. PodOK(p)' /\ pod'[p].container = None /\ \A h \in Handlers : handler[h].pod # p
  BY NoneIsNoManifest DEF Inv, TypeOK, RightsInv, OneAnswer, PodOK, Manifests
<1> QED
  BY <1>1, <1>2, PodStep DEF GivesUp, Inv, TypeOK

LEMMA CreateAgainStep ==
  ASSUME Inv, NEW p \in Pods, CreateAgain(p)
  PROVE  Inv'
<1> USE DEF CreateAgain
<1>1. TypeOK'
  BY DEF Inv, TypeOK, PodStates
<1>2. /\ PodOK(p)' /\ pod'[p].container = None
      /\ \A h \in Handlers : handler[h].pod # p
  BY NoneIsNoManifest DEF Inv, TypeOK, PodStates, RightsInv, OneAnswer, PodOK
<1> QED
  BY <1>1, <1>2, PodStep DEF GivesUp, Inv, TypeOK

LEMMA DeleteStep ==
  ASSUME Inv, NEW p \in Pods, Delete(p)
  PROVE  Inv'
<1> USE DEF Delete, Absent
<1>1. TypeOK'
  BY DEF Inv, TypeOK, PodStates
<1>2. PodOK(p)' /\ pod'[p].container = None /\ \A h \in Handlers : handler[h].pod # p
  BY NoneIsNoManifest DEF Inv, TypeOK, RightsInv, OneAnswer, PodOK, Manifests
<1> QED
  BY <1>1, <1>2, PodStep DEF GivesUp, Inv, TypeOK

LEMMA CallFailsStep ==
  ASSUME Inv, NEW p \in Pods, CallFails(p)
  PROVE  Inv'
<1> USE DEF CallFails
<1>1. TypeOK'
  <2>1. \A h \in Handlers : handler'[h] \in Locals
    BY DEF Inv, TypeOK, Locals, GivenUp, Idle
  <2> QED
    BY <2>1 DEF Inv, TypeOK, PodStates
<1>2. PodOK(p)' /\ pod'[p].container = None
  BY DEF Inv, TypeOK, PodStates, RightsInv, PodOK
<1>3. \A h \in Handlers : GivesUp(h) /\ handler'[h].pod # p
  BY NoneIsNoManifest DEF GivesUp, GivenUp, Idle, Inv, TypeOK, Locals
<1> QED
  BY <1>1, <1>2, <1>3, PodStep DEF Inv, TypeOK

LEMMA CrashStep ==
  ASSUME Inv, Crash
  PROVE  Inv'
<1> USE DEF Crash
<1>1. TypeOK'
  BY DEF Inv, TypeOK, Idle, Locals
<1>2. \A h \in Handlers : GivesUp(h) /\ handler'[h].pod = None
  BY DEF GivesUp, Idle
<1> QED
  BY <1>1, <1>2, NoneIsNoManifest, PodStep DEF Inv, TypeOK

\* The answer is applied to the pod.
LEMMA AnswerStep ==
  ASSUME Inv, NEW h \in Handlers, serveAdmitFunc(h)
  PROVE  Inv'
<1>p. PICK p \in Pods : p = handler[h].pod
  BY DEF serveAdmitFunc, Inv, TypeOK, Locals, RightsInv, Progress
<1> USE <1>p DEF serveAdmitFunc, Becomes
<1>1. handler[h].patch \in Containers \cup {None}
  BY DEF Inv, TypeOK, Locals
<1>2. TypeOK'
  BY <1>1 DEF Inv, TypeOK, Idle, Locals, PodStates
<1>3. \A g \in Handlers : GivesUp(g)
  BY DEF Inv, TypeOK, GivesUp
<1>4. \A g \in Handlers : handler'[g].pod # None => handler'[g].pod # p
  BY DEF Inv, TypeOK, Idle, RightsInv, OneAnswer
<1>5. \A q \in Pods \ {p} : pod'[q] = pod[q] /\ deleted'[q] = deleted[q]
  BY DEF Inv, TypeOK
<1>6. ASSUME pod'[p].container # None
      PROVE  HasRole(p)' /\ HasBinding(p)'
  <2>1. pod[p].phase = "asked" /\ pod[p].container = None /\ pod[p] \in PodStates
    BY <1>6, NoneIsNoManifest DEF Inv, TypeOK, RightsInv, OneAnswer, PodOK
  <2>2. /\ handler[h].patch # None
        /\ pod' = [pod EXCEPT ![p].phase = "created", ![p].container = handler[h].patch]
    BY <1>6, <2>1, NoneIsNoManifest DEF Inv, TypeOK, PodStates
  <2>3. HasRole(p) /\ HasBinding(p)
    BY <1>6, <2>2, NoneIsNoManifest DEF Inv, RightsInv, Progress
  <2>4. pod'[p].manifest = pod[p].manifest
    BY <1>6, <2>1, <2>2 DEF Inv, TypeOK, PodStates
  <2>5. role' = role /\ binding' = binding /\ deleted' = deleted
    <3>1. handler[h].allowed /\ (handler[h].patch # None => Valid(pod[p].manifest))
      BY <1>6, <2>1, NoneIsNoManifest DEF PodStates, Inv, TypeOK
    <3> QED
      BY <3>1
  <2> HIDE <1>p DEF serveAdmitFunc, Becomes
  <2> QED
    BY <2>3, <2>4, <2>5 DEF HasRole, HasBinding
<1>7. PodOK(p)'
  BY <1>1, NoneIsNoManifest DEF Inv, TypeOK, PodStates, RightsInv, OneAnswer, PodOK
<1> QED
  BY <1>2, <1>3, <1>4, <1>5, <1>6, <1>7, PodStep

(* The steps of a goroutine.                                               *)

\* Goroutine h goes on with the pod it was asked about, or ends because nobody waits
\* for its answer, and rights only grow.
SamePod(h) ==
  handler'[h].pod # None =>
    handler'[h].pod = handler[h].pod /\ handler'[h].object = handler[h].object

LEMMA LocalStep ==
  ASSUME Inv, TypeOK', NEW h \in Handlers,
         pod' = pod, deleted' = deleted,
         \A g \in Handlers \ {h} : handler'[g] = handler[g],
         SamePod(h),
         role => role',
         \A n \in BindingNames : binding[n] # None => binding'[n] = binding[n],
         NoNeedlessRights', Progress(h)'
  PROVE  Inv'
<1> USE NoneIsNoManifest DEF SamePod
<1>1. OneAnswer'
  BY DEF Inv, RightsInv, OneAnswer
<1>2. ASSUME NEW p \in Pods, pod[p].manifest \in Manifests, HasRole(p)
      PROVE  HasRole(p)'
  BY <1>2 DEF HasRole
<1>3. ASSUME NEW p \in Pods, pod[p].manifest \in Manifests, HasBinding(p)
      PROVE  HasBinding(p)'
  BY <1>3 DEF HasBinding, BindingNames
<1>4. ASSUME NEW g \in Handlers \ {h} PROVE Progress(g)'
  <2>1. Progress(g) /\ handler'[g] = handler[g]
    BY DEF Inv, RightsInv
  <2>2. handler[g].pod # None /\ handler[g].patch # None =>
          handler[g].pod \in Pods /\ pod[handler[g].pod].manifest \in Manifests
    BY <2>1 DEF Inv, RightsInv, OneAnswer, PodOK, Progress, TypeOK, PodStates, Locals
  <2> QED
    BY <1>2, <1>3, <2>1, <2>2 DEF Progress
<1>5. ASSUME NEW p \in Pods, pod[p].container # None
      PROVE  HasRole(p)' /\ HasBinding(p)'
  <2>1. HasRole(p) /\ HasBinding(p)
    BY <1>5 DEF Inv, RightsInv, Rights
  <2>2. pod[p].manifest \in Manifests
    BY <1>5 DEF Inv, TypeOK, PodStates, RightsInv, PodOK
  <2> QED
    BY <1>2, <1>3, <2>1, <2>2
<1>6. Rights'
  BY <1>5 DEF Rights
<1>7. (\A p \in Pods : PodOK(p))'
  BY DEF Inv, RightsInv, PodOK
<1> QED
  BY <1>1, <1>4, <1>6, <1>7 DEF Inv, RightsInv

LEMMA EndedProgress ==
  ASSUME Inv, NEW h \in Handlers, handler' = [handler EXCEPT ![h] = Idle]
  PROVE  /\ handler' \in [Handlers -> Locals]
         /\ \A g \in Handlers \ {h} : handler'[g] = handler[g]
         /\ SamePod(h)
         /\ Progress(h)'
<1>1. handler'[h] = Idle /\ Idle \in Locals
  BY DEF Inv, TypeOK, Idle, Locals
<1> QED
  BY <1>1 DEF Inv, TypeOK, Idle, SamePod, Progress

\* A denied pod gets no container, so that nothing is claimed of its rights.
LEMMA DeniedProgress ==
  ASSUME Inv, NEW h \in Handlers, handler[h].pc \in {"role", "binding"},
         Becomes(h, Denied(h))
  PROVE  /\ handler' \in [Handlers -> Locals]
         /\ \A g \in Handlers \ {h} : handler'[g] = handler[g]
         /\ SamePod(h)
         /\ Progress(h)'
<1>1. handler[h] \in Locals /\ Progress(h)
  BY DEF Inv, TypeOK, RightsInv
<1>2. CASE handler[h].pod = None
  <2>1. handler' = [handler EXCEPT ![h] = Idle]
    BY <1>2 DEF Becomes, Denied, Answers
  <2> QED
    BY <2>1, EndedProgress
<1>3. CASE handler[h].pod # None
  <2> DEFINE denied == [handler[h] EXCEPT !.pc = "reply", !.patch = None]
  <2>1. handler' = [handler EXCEPT ![h] = denied]
    BY <1>1, <1>3 DEF Becomes, Denied, Answers, Locals
  <2>2. denied \in Locals
    BY <1>1 DEF Locals
  <2>3. /\ handler' \in [Handlers -> Locals]
        /\ \A g \in Handlers \ {h} : handler'[g] = handler[g]
        /\ handler'[h] = denied
    BY <2>1, <2>2 DEF Inv, TypeOK
  <2> QED
    BY <1>1, <1>3, <2>3 DEF Locals, Progress, SamePod
<1> QED
  BY <1>2, <1>3

LEMMA RoleStep ==
  ASSUME Inv, NEW h \in Handlers, NEW reply, createSidecarClusterRole(h, reply)
  PROVE  Inv'
<1> USE DEF createSidecarClusterRole
<1>1. /\ handler[h] \in Locals
      /\ Wants(handler[h].object)
      /\ handler[h].object \in Manifests
  BY DEF Inv, TypeOK, RightsInv, Progress
<1>2. NoNeedlessRights'
  BY <1>1 DEF Inv, RightsInv, NoNeedlessRights
<1>3. (role => role') /\ role' \in BOOLEAN
  BY DEF Inv, TypeOK
<1>4. CASE Becomes(h, Denied(h))
  <2>1. TypeOK'
    BY <1>3, <1>4, DeniedProgress DEF Inv, TypeOK
  <2> QED
    BY <1>2, <1>3, <1>4, <2>1, DeniedProgress, LocalStep
<1>5. CASE role' = TRUE /\ Becomes(h, [handler[h] EXCEPT !.pc = "binding"])
  <2>1. /\ handler'[h] = [handler[h] EXCEPT !.pc = "binding"]
        /\ \A g \in Handlers \ {h} : handler'[g] = handler[g]
    BY <1>5 DEF Inv, TypeOK, Becomes
  <2>2. TypeOK'
    BY <1>1, <1>3, <1>5 DEF Inv, TypeOK, Becomes, Locals
  <2>3. Progress(h)'
    BY <1>1, <1>5, <2>1 DEF Inv, RightsInv, Progress, HasRole, Locals
  <2> QED
    BY <1>1, <1>2, <1>3, <2>1, <2>2, <2>3, LocalStep DEF Locals, SamePod
<1>6. role \in BOOLEAN
  BY DEF Inv, TypeOK
<1> QED
  BY <1>4, <1>5, <1>6, Zenon DEF RoleExists

LEMMA BindingStep ==
  ASSUME Inv, NEW h \in Handlers, NEW reply, createSidecarClusterRoleBinding(h, reply)
  PROVE  Inv'
<1> DEFINE m == handler[h].object
           n == UniqueName(m.account)
           bound == binding[n] = None /\ binding' = [binding EXCEPT ![n] = m.account]
<1>0. /\ handler[h].pc = "binding"
      /\ UNCHANGED <<role, pod, deleted>>
      /\ \/ bound /\ Becomes(h, Allowed(h))
         \/ binding[n] # None /\ binding' = binding /\ Becomes(h, Allowed(h))
         \/ binding' = binding /\ Becomes(h, Denied(h))
         \/ bound /\ Becomes(h, Denied(h))
  BY Zenon DEF createSidecarClusterRoleBinding, BindingExists, BindingFails
<1>1. /\ handler[h] \in Locals
      /\ Wants(m)
      /\ m \in Manifests
  BY DEF createSidecarClusterRoleBinding, Inv, TypeOK, RightsInv, Progress
<1>2. /\ n \in BindingNames
      /\ m.account # None
      /\ m.account \in {o.account : o \in Manifests}
  BY <1>1, NoneIsNoAccount
<1>3. binding' = binding \/ bound
  BY <1>0
<1>4. /\ binding' \in [BindingNames -> {o.account : o \in Manifests} \cup {None}]
      /\ \A k \in BindingNames : binding[k] # None => binding'[k] = binding[k]
      /\ \A k \in BindingNames :
           binding'[k] # binding[k] => k = n /\ binding'[k] = m.account
  BY <1>2, <1>3 DEF Inv, TypeOK
<1>5. NoNeedlessRights'
  BY <1>1, <1>4 DEF Inv, RightsInv, NoNeedlessRights, BindingName
<1>6. CASE Becomes(h, Denied(h))
  <2>1. TypeOK'
    BY <1>0, <1>4, <1>6, DeniedProgress DEF Inv, TypeOK
  <2> QED
    BY <1>0, <1>4, <1>5, <1>6, <2>1, DeniedProgress, LocalStep
<1>7. CASE Becomes(h, Allowed(h)) /\ handler[h].pod = None
  <2>1. handler' = [handler EXCEPT ![h] = Idle]
    BY <1>7 DEF Becomes, Allowed, Answers
  <2>2. TypeOK'
    BY <1>0, <1>4, <2>1, EndedProgress DEF Inv, TypeOK
  <2> QED
    BY <1>0, <1>4, <1>5, <2>1, <2>2, EndedProgress, LocalStep
<1>8. CASE binding'[n] # None /\ Becomes(h, Allowed(h)) /\ handler[h].pod # None
  <2>1. /\ handler'[h] = [handler[h] EXCEPT !.pc = "reply", !.allowed = TRUE]
        /\ \A g \in Handlers \ {h} : handler'[g] = handler[g]
    BY <1>1, <1>8 DEF Inv, TypeOK, Becomes, Allowed, Answers, Locals
  <2>2. TypeOK'
    BY <1>0, <1>1, <1>4, <1>8 DEF Inv, TypeOK, Becomes, Allowed, Answers, Locals
  <2>3. OwnName(m) => binding'[n] = m.account
    BY <1>2, <1>5, <1>8 DEF NoNeedlessRights, OwnName, BindingName
  <2>4. ASSUME handler[h].pod # None
        PROVE  HasRole(handler[h].pod)' /\ HasBinding(handler[h].pod)'
    <3>1. /\ HasRole(handler[h].pod)
          /\ pod[handler[h].pod].manifest = m
      BY <1>0, <1>1, <2>4 DEF Inv, RightsInv, Progress, OneAnswer
    <3>2. handler'[h].pod = handler[h].pod
      BY <1>1, <2>1 DEF Locals
    <3> QED
      BY <1>0, <1>8, <2>3, <3>1, <3>2 DEF HasRole, HasBinding, BindingName
  <2>5. Progress(h)'
    BY <1>0, <1>1, <1>8, <2>1, <2>4 DEF Inv, RightsInv, Progress, Locals
  <2> QED
    BY <1>0, <1>1, <1>4, <1>5, <2>1, <2>2, <2>5, LocalStep DEF Locals, SamePod
<1> QED
  BY <1>0, <1>2, <1>6, <1>7, <1>8 DEF Inv, TypeOK

LEMMA DecodeFailsStep ==
  ASSUME Inv, NEW h \in Handlers, DecodeFails(h)
  PROVE  Inv'
<1> USE DEF DecodeFails
<1>1. TypeOK'
  BY DeniedProgress DEF Inv, TypeOK
<1>2. NoNeedlessRights'
  BY DEF Inv, RightsInv, NoNeedlessRights
<1> QED
  BY <1>1, <1>2, DeniedProgress, LocalStep

LEMMA AddSidecarStep ==
  ASSUME Inv, NEW h \in Handlers, NEW p \in Pods, AddSidecarContainer(h, p)
  PROVE  Inv'
<1> DEFINE m == pod[p].manifest
           asks == [pc |-> "role", pod |-> p, object |-> m,
                    patch |-> getSidecarContainerSpec(m), allowed |-> FALSE]
           asksNot == [pc |-> "reply", pod |-> p, object |-> m,
                       patch |-> None, allowed |-> ~Unreadable(m)]
<1> USE NoneIsNoManifest DEF AddSidecarContainer, Becomes
<1>1. m \in Manifests /\ pod[p].container = None
  BY DEF Inv, TypeOK, PodStates, RightsInv, PodOK
<1>2. Wants(m) => getSidecarContainerSpec(m) \in Containers
  BY <1>1, SpecType
<1>3. \/ Wants(m) /\ handler' = [handler EXCEPT ![h] = asks]
      \/ ~Wants(m) /\ handler' = [handler EXCEPT ![h] = asksNot]
  BY DEF Idle
<1>4. /\ \A g \in Handlers \ {h} : handler'[g] = handler[g] /\ handler[g].pod # p
      /\ \A q \in Pods \ {p} : deleted'[q] = deleted[q]
      /\ Wants(m) => handler'[h] = asks
      /\ ~Wants(m) => handler'[h] = asksNot
  <2>1. /\ \A g \in Handlers \ {h} : handler[g].pod # p
        /\ \A q \in Pods \ {p} : deleted'[q] = deleted[q]
    BY DEF Inv, TypeOK
  <2>2. DOMAIN handler = Handlers
    BY DEF Inv, TypeOK
  <2> HIDE DEF asks, asksNot, AddSidecarContainer
  <2> QED
    BY <1>3, <2>1, <2>2
<1>5. TypeOK'
  <2>1. (Wants(m) => asks \in Locals) /\ asksNot \in Locals
    BY <1>1, <1>2 DEF Locals, Unreadable
  <2> QED
    BY <1>3, <2>1 DEF Inv, TypeOK
<1>6. OneAnswer'
  BY <1>4 DEF Inv, RightsInv, OneAnswer
<1>7. Progress(h)'
  BY <1>1, <1>2, <1>4 DEF Progress
<1>8. ASSUME NEW g \in Handlers \ {h} PROVE Progress(g)'
  <2>1. Progress(g) /\ handler[g].pod \in Pods \cup {None} /\ handler[g].pod # p
    BY <1>4 DEF Inv, TypeOK, Locals, RightsInv
  <2> QED
    BY <1>4, <2>1 DEF Progress, HasRole, HasBinding
<1>9. NoNeedlessRights' /\ \A q \in Pods : PodOK(q)'
  BY DEF Inv, RightsInv, NoNeedlessRights, PodOK
<1>10. Rights'
  BY <1>1, <1>4 DEF Inv, RightsInv, Rights, HasRole, HasBinding
<1> QED
  BY <1>5, <1>6, <1>7, <1>8, <1>9, <1>10 DEF Inv, RightsInv

\* A deletion is recorded wherever the right was relied on.
LEMMA DeletionStep ==
  ASSUME Inv, TypeOK',
         NEW kind \in {"role", "binding"}, NEW names, Record(kind, names),
         pod' = pod, handler' = handler,
         role' => role,
         role /\ ~role' => kind = "role" /\ names = BindingNames,
         \A n \in BindingNames : binding'[n] # binding[n] =>
           n \in names /\ kind = "binding" /\ binding'[n] = None
  PROVE  Inv'
<1> USE NoneIsNoManifest
<1>1. ASSUME NEW p \in Pods, pod[p].manifest \in Manifests, Concerned(p)
      PROVE  /\ HasRole(p) => HasRole(p)'
             /\ HasBinding(p) => HasBinding(p)'
  <2>1. /\ BindingName(pod[p].manifest) \in BindingNames
        /\ BindingName(pod[p].manifest) \in names => kind \in deleted'[p]
        /\ deleted[p] \subseteq deleted'[p]
    BY <1>1 DEF Record, BindingNames, BindingName, Inv, TypeOK
  <2> QED
    BY <2>1 DEF HasRole, HasBinding
<1>2. OneAnswer' /\ \A q \in Pods : PodOK(q)'
  BY DEF Inv, RightsInv, OneAnswer, PodOK
<1>3. ASSUME NEW h \in Handlers PROVE Progress(h)'
  <2>1. Progress(h)
    BY DEF Inv, RightsInv
  <2>2. CASE handler[h].pod # None /\ handler[h].patch # None /\ handler[h].pc # "role"
    <3>1. /\ handler[h].pod \in Pods
          /\ pod[handler[h].pod].manifest \in Manifests
          /\ handler[h].pc \in {"binding", "reply"}
      BY <2>2 DEF Inv, TypeOK, PodStates, Locals, RightsInv, OneAnswer, PodOK, Progress, Wants
    <3>2. Concerned(handler[h].pod)
      BY <3>1 DEF Concerned
    <3> QED
      BY <1>1, <2>1, <3>1, <3>2 DEF Progress
  <2>3. CASE ~(handler[h].pod # None /\ handler[h].patch # None /\ handler[h].pc # "role")
    BY <2>1, <2>3 DEF Progress
  <2> QED
    BY <2>2, <2>3
<1>4. NoNeedlessRights'
  BY DEF Inv, RightsInv, NoNeedlessRights
<1>5. Rights'
  <2>1. ASSUME NEW p \in Pods, pod[p].container # None
        PROVE  pod[p].manifest \in Manifests /\ Concerned(p) /\ HasRole(p) /\ HasBinding(p)
    BY <2>1 DEF Inv, TypeOK, PodStates, RightsInv, PodOK, Rights, Concerned
  <2> QED
    BY <1>1, <2>1 DEF Rights
<1> QED
  BY <1>2, <1>3, <1>4, <1>5 DEF Inv, RightsInv

LEMMA DeleteRoleStep ==
  ASSUME Inv, DeleteRole
  PROVE  Inv'
<1> USE DEF DeleteRole
<1>1. TypeOK'
  BY DEF Inv, TypeOK, Record
<1>2. Record("role", BindingNames) /\ pod' = pod /\ handler' = handler
  OBVIOUS
<1>3. ~role' /\ \A n \in BindingNames : binding'[n] = binding[n]
  OBVIOUS
<1> QED
  BY <1>1, <1>2, <1>3, DeletionStep

LEMMA DeleteBindingStep ==
  ASSUME Inv, NEW n \in BindingNames, DeleteBinding(n)
  PROVE  Inv'
<1> USE DEF DeleteBinding
<1>1. TypeOK'
  BY DEF Inv, TypeOK, Record
<1>2. Record("binding", {n}) /\ pod' = pod /\ handler' = handler /\ role' = role
  OBVIOUS
<1>3. \A k \in BindingNames : binding'[k] # binding[k] => k \in {n} /\ binding'[k] = None
  BY DEF Inv, TypeOK
<1> QED
  BY <1>1, <1>2, <1>3, DeletionStep

-----------------------------------------------------------------------------

LEMMA NextStep == Inv /\ [Next]_vars => Inv'
<1> SUFFICES ASSUME Inv, [Next]_vars PROVE Inv'
  OBVIOUS
<1>1. ASSUME NEW p \in Pods, NEW m \in Written[p], Create(p, m) PROVE Inv'
  BY <1>1, CreateStep
<1>2. ASSUME NEW p \in Pods, CreateAgain(p) \/ Delete(p) \/ CallFails(p) PROVE Inv'
  BY <1>2, CreateAgainStep, DeleteStep, CallFailsStep
<1>3. ASSUME DeleteRole \/ Crash \/ \E n \in BindingNames : DeleteBinding(n) PROVE Inv'
  BY <1>3, DeleteRoleStep, CrashStep, DeleteBindingStep
<1>4. ASSUME NEW h \in Handlers, NEW p \in Pods, AddSidecarContainer(h, p) PROVE Inv'
  BY <1>4, AddSidecarStep
<1>5. ASSUME NEW h \in Handlers, NEW reply,
             createSidecarClusterRole(h, reply) \/ createSidecarClusterRoleBinding(h, reply)
      PROVE  Inv'
  BY <1>5, RoleStep, BindingStep
<1>6. ASSUME NEW h \in Handlers, HandlerStep(h) PROVE Inv'
  BY <1>5, <1>6, DecodeFailsStep, AnswerStep DEF HandlerStep
<1>7. ASSUME UNCHANGED vars PROVE Inv'
  BY <1>7 DEF vars, Inv, TypeOK, RightsInv, OneAnswer, PodOK, Progress, NoNeedlessRights,
              Rights, HasRole, HasBinding
<1> QED
  BY <1>1, <1>2, <1>3, <1>4, <1>5, <1>6, <1>7 DEF Next, Environment, System

\* The webhook never leaves its types.
THEOREM TypeCorrect == Spec => []TypeOK
<1>1. Inv => TypeOK
  BY DEF Inv
<1> QED
  BY InitInv, NextStep, <1>1, PTL DEF Spec

\* What the goroutines have reached for the pods they are asked about, whatever
\* fails, is deleted, or was left behind by an earlier admission.
THEOREM RightsAreKept == Spec => []RightsInv
<1>1. Inv => RightsInv
  BY DEF Inv
<1> QED
  BY InitInv, NextStep, <1>1, PTL DEF Spec

\* A pod that runs with the sidecar finds the ClusterRole and a binding of the name
\* its account makes, which is for its own account if no other one makes that name.
THEOREM PodsHaveRights == Spec => []Rights
<1>1. Inv => Rights
  BY DEF Inv, RightsInv
<1> QED
  BY InitInv, NextStep, <1>1, PTL DEF Spec

\* Where the word "in" separates names from namespaces, a pod that runs with the
\* sidecar has a binding for its own account, which no other admission took or takes.
THEOREM BoundToOwnAccount ==
  ASSUME NamesSeparate
  PROVE  Spec => []OwnBinding
<1>1. Inv => OwnBinding
  <2> SUFFICES ASSUME Inv, NEW p \in Pods, pod[p].container # None
               PROVE  \/ "binding" \in deleted[p]
                      \/ binding[BindingName(pod[p].manifest)] = pod[p].manifest.account
    BY DEF OwnBinding
  <2>1. pod[p].manifest \in Manifests
    BY NoneIsNoManifest DEF Inv, TypeOK, PodStates, RightsInv, PodOK
  <2>2. OwnName(pod[p].manifest)
    BY <2>1, SeparateNamesAreOwn
  <2> QED
    BY <2>2 DEF Inv, RightsInv, Rights, HasBinding
<1> QED
  BY InitInv, NextStep, <1>1, PTL DEF Spec

\* No step turns a binding over to another account.
LEMMA BindingKept ==
  ASSUME Inv, [Next]_vars, NEW n \in BindingNames, binding[n] # None
  PROVE  binding'[n] \in {binding[n], None}
<1>1. ASSUME NEW h \in Handlers, NEW reply, createSidecarClusterRoleBinding(h, reply)
      PROVE  binding'[n] = binding[n]
  <2> DEFINE a == handler[h].object.account
  <2>1. \/ binding' = binding
        \/ binding[UniqueName(a)] = None /\ binding' = [binding EXCEPT ![UniqueName(a)] = a]
    BY <1>1, Zenon DEF createSidecarClusterRoleBinding, BindingExists
  <2> QED
    BY <2>1 DEF Inv, TypeOK
<1>2. ASSUME NEW k \in BindingNames, DeleteBinding(k) PROVE binding'[n] \in {binding[n], None}
  BY <1>2 DEF DeleteBinding, Inv, TypeOK
<1>3. ASSUME UNCHANGED binding PROVE binding'[n] = binding[n]
  BY <1>3
<1> QED
  BY <1>1, <1>2, <1>3
  DEF Next, Environment, System, HandlerStep, Create, CreateAgain, Delete, CallFails,
      DeleteRole, Crash, AddSidecarContainer, createSidecarClusterRole,
      DecodeFails, serveAdmitFunc, vars

\* Of two admissions that want a binding of one name the first one keeps it.
THEOREM FirstBindingStays == Spec => BindingsStay
<1>1. Inv /\ [Next]_vars =>
        [\A n \in BindingNames : binding[n] # None => binding'[n] \in {binding[n], None}]_vars
  BY BindingKept
<1> QED
  BY InitInv, NextStep, <1>1, PTL DEF Spec, BindingsStay

=============================================================================
