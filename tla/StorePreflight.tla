---------------------------- MODULE StorePreflight ----------------------------
(***************************************************************************)
(* What start-up validation promises: src/document_store/preflight.py seen *)
(* as if every decision were one indivisible step.  A store is certified   *)
(* for one embedding configuration by its manifest; a process may only     *)
(* come up, and so write vectors, on a store certified for its own.        *)
(***************************************************************************)
EXTENDS StoreConfigs

VARIABLES
    manifest,   \* the configuration the store is certified for, or None
    index,      \* the shape of its index, or None
    docs,       \* the configurations its stored vectors were computed with
    up          \* up[p]: the configuration p serves with, None if it is down

vars == <<manifest, index, docs, up>>

\* A store nobody has used, one written before manifests existed, or keys
\* left over from an index that is gone.
Init ==
    /\ manifest = None
    /\ up = [p \in Procs |-> None]
    /\ \/ index = None /\ docs = {}
       \/ \E c \in Adoptable : index = ShapeOf[c] /\ docs \in {{}, {c}}
       \/ \E c \in Configs : index = None /\ docs = {c}

\* An empty store is created and certified.
Create(c) ==
    /\ manifest = None
    /\ index = None
    /\ docs = {}
    /\ manifest' = c
    /\ index' = ShapeOf[c]
    /\ UNCHANGED <<docs, up>>

\* An existing index without a manifest is taken to be of the default that
\* was the only one before manifests.
Adopt(c) ==
    /\ manifest = None
    /\ c \in Adoptable
    /\ index = ShapeOf[c]
    /\ manifest' = c
    /\ UNCHANGED <<index, docs, up>>

\* A process whose configuration is the certified one comes up.
Admit(p, c) ==
    /\ up[p] = None
    /\ manifest = c
    /\ index = ShapeOf[c]
    /\ up' = [up EXCEPT ![p] = c]
    /\ UNCHANGED <<manifest, index, docs>>

\* Synchronisations of a running process store vectors.
Embed(p) ==
    /\ up[p] # None
    /\ docs' = docs \cup {up[p]}
    /\ UNCHANGED <<manifest, index, up>>

Stop(p) ==
    /\ up[p] # None
    /\ up' = [up EXCEPT ![p] = None]
    /\ UNCHANGED <<manifest, index, docs>>

\* The operator's reset, README "Changing the embedding model / dimensions":
\* with everything stopped, drop the index, delete the vectors and delete the
\* manifest. One of the last two may be forgotten.
Reset ==
    /\ \A p \in Procs : up[p] = None
    /\ index' = None
    /\ docs' \in {docs, {}}
    /\ manifest' \in {manifest, None}
    /\ UNCHANGED up

\* The operator's index rebuild, README "Changing the vector index": with
\* everything stopped, only the manifest goes, and the restart is made to
\* adopt what is there.
Rebuild ==
    /\ \A p \in Procs : up[p] = None
    /\ manifest \in Adoptable
    /\ manifest' = None
    /\ UNCHANGED <<index, docs, up>>

Next ==
    \/ \E c \in Configs : Create(c) \/ Adopt(c)
    \/ \E p \in Procs : \E c \in Configs : Admit(p, c)
    \/ \E p \in Procs : Embed(p) \/ Stop(p)
    \/ Reset
    \/ Rebuild

Spec == Init /\ [][Next]_vars

-----------------------------------------------------------------------------
(* Properties. *)

\* Types: manifest, index and vectors belong to known configurations.
TypeOK ==
    /\ manifest \in Configs \cup {None}
    /\ index \in Shapes \cup {None}
    /\ docs \subseteq Configs
    /\ up \in [Procs -> Configs \cup {None}]

\* All stored vectors live in one embedding space.
OneSpace == \A c, d \in docs : c = d

\* A process that is up serves the space the vectors live in, on the index
\* its own configuration calls for.
ServesItsSpace ==
    \A p \in Procs : up[p] # None =>
        /\ manifest = up[p]
        /\ index = ShapeOf[up[p]]
        /\ docs \subseteq {up[p]}

\* The store as the certificate describes it: what makes the above inductive.
StoreInv ==
    /\ OneSpace
    /\ manifest # None =>
         /\ index \in {ShapeOf[manifest], None}
         /\ docs \subseteq {manifest}
    /\ manifest = None /\ index # None =>
         \A c \in docs : c \in Adoptable /\ index = ShapeOf[c]
    /\ \A p \in Procs : up[p] # None => manifest = up[p] /\ index # None

=============================================================================
