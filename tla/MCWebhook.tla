------------------------------ MODULE MCWebhook ------------------------------
(***************************************************************************)
(* Small instances of the webhook.                                         *)
(***************************************************************************)
EXTENDS WebhookProperties, TLC

CONSTANTS p1, p2, a, b, c, number, vol, x

MCNonStrings == {<<number>>}

Ask(volume) == [address |-> x, volumeName |-> volume, mountPath |-> x]

Pod(annotations, name, namespace) ==
  [resource |-> "pods", readable |-> TRUE, annotations |-> annotations,
   account |-> [name |-> name, namespace |-> namespace],
   volumes |-> {vol}, hasSidecar |-> FALSE]

\* Two accounts of p1 and p2 make one name, and another one that p2 may have makes a
\* name of its own.  p1 may also forget an annotation or not be readable, and p2 have
\* an account whose name is a number.
MCWritten ==
  (p1 :> {Pod(Ask(vol), <<a>>, <<b, In, c>>),
          Pod([Ask(vol) EXCEPT !.mountPath = ""], <<b>>, <<c>>),
          [Pod(Ask(vol), <<b>>, <<c>>) EXCEPT !.readable = FALSE]}) @@
  (p2 :> {Pod(Ask(vol), <<a, In, b>>, <<c>>),
          Pod(Ask(vol), <<b>>, <<c>>),
          Pod(Ask(vol), <<number>>, <<c>>)})

=============================================================================
