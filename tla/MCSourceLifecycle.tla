------------------------- MODULE MCSourceLifecycle -------------------------
(* Instances of SourceLifecycle for TLC. *)
EXTENDS SourceLifecycle, TLC

\* Requests, tasks and documents are interchangeable.
MCSymmetry ==
    Permutations(Requests) \cup Permutations(Tasks) \cup Permutations(Docs)

\* The same for liveness, where TLC must not use symmetry: each request has a
\* task id of its own to dispatch. There are as many tasks as requests, and
\* every behaviour is one of these with the task ids exchanged.
MCTaskOf ==
    CHOOSE f \in [Requests -> Tasks] :
      \A q, r \in Requests : q # r => f[q] # f[r]

MCOwnTask == \A r \in Requests : rtask'[r] \in {NoTask, MCTaskOf[r]}

=============================================================================
