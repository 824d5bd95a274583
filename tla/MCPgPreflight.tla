---------------------------- MODULE MCPgPreflight ----------------------------
(* Instances of PgPreflight for TLC. *)
EXTENDS PgPreflight, TLC

CONSTANTS small, other, large, s1536, s3072, n1, n2, p1, p2, p3

\* `small` is the legacy default; `other` is another model of its size.
MCShapeOf == (small :> s1536) @@ (other :> s1536) @@ (large :> s3072)

\* Two processes share a namespace, another has its own.
MCNamespaceOf == (p1 :> n1) @@ (p2 :> n1) @@ (p3 :> n2)

\* p1 and p2 are interchangeable.
MCSymmetry == Permutations({p1, p2})

=============================================================================
