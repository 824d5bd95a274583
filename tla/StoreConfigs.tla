---------------------------- MODULE StoreConfigs ----------------------------
(***************************************************************************)
(* What the start-up validations of src/document_store/preflight.py are    *)
(* about: the processes that start, the embedding configurations they may  *)
(* be started with, and the index each configuration builds.               *)
(***************************************************************************)

CONSTANTS
    Procs,          \* API processes and worker parents
    Configs,        \* embedding configurations
    Shapes,         \* what can be read off an index: type, dimensions, metric
    ShapeOf,        \* the index a configuration builds
    Adoptable,      \* the configurations adopted without a manifest
    None

ASSUME ShapeOfAssumption == ShapeOf \in [Configs -> Shapes]
\* One embedding space: that of the legacy default, or the one the operator
\* vouches for with EMBEDDING_ADOPT_EXISTING.
ASSUME AdoptableAssumption ==
    /\ Adoptable \subseteq Configs
    /\ \A c, d \in Adoptable : c = d
ASSUME NoneAssumption == None \notin Configs \cup Shapes \cup Procs

=============================================================================
