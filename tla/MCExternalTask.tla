--------------------------- MODULE MCExternalTask ---------------------------
(* Small instances of ExternalTask: two topics, of which worker w1 lists both
   (b first) and w2 none, so it polls all.  w1 takes one task per poll, less
   than there are, and w2 two. *)
EXTENDS ExternalTask, TLC

CONSTANTS t1, t2, w1, w2, a, b

TopicOf == (t1 :> a) @@ (t2 :> b)
ServesOf == (w1 :> <<b, a>>) @@ (w2 :> <<>>)
MaxTasksOf == (w1 :> 1) @@ (w2 :> 2)
=============================================================================
