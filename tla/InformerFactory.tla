-------------------------- MODULE InformerFactory --------------------------
(***************************************************************************)
(* The shared informer factory that is generated for the custom resources  *)
(* (factory.go); client-go and the snapshotter have the same generated     *)
(* one.  A factory makes one informer per type however often it is asked,  *)
(* and Start runs those it has made and not yet started.  An informer is   *)
(* named by its kind and the number of informers made before it.           *)
(***************************************************************************)
EXTENDS Naturals

CONSTANT None   \* no informer

Kinds == {"sc", "snap", "pcap", "sccap"}

Informers == Kinds \X Nat

FactoryStates ==
  [informers : [Kinds -> Informers \cup {None}], startedInformers : SUBSET Kinds,
   made : Nat]

NewSharedInformerFactory ==
  [informers |-> [kind \in Kinds |-> None], startedInformers |-> {}, made |-> 0]

\* newFunc(f.client, resyncPeriod): an informer that lists and watches the kind.
NewInformer(f, kind) == <<kind, f.made>>

\* It is kept.
Make(f, kind) ==
  [informers |-> [f.informers EXCEPT ![kind] = NewInformer(f, kind)],
   startedInformers |-> f.startedInformers,
   made |-> f.made + 1]

\* A mistake: every call makes an informer of its own.
InformerForEach(f, kind) == Make(f, kind)

\* The factory after a call of InformerFor; the call returns the informer of
\* the kind.
InformerFor(f, kind) == IF f.informers[kind] # None THEN f ELSE Make(f, kind)

Startable(f) == {kind \in Kinds : f.informers[kind] # None}

\* The informers whose goroutine a call of Start begins.
Starting(f) == {f.informers[kind] : kind \in Startable(f) \ f.startedInformers}

Started(f) == [f EXCEPT !.startedInformers = @ \cup Startable(f)]

=============================================================================
