-------------------------- MODULE MCRedisPreflight --------------------------
(* Instances of RedisPreflight for TLC. *)
EXTENDS RedisPreflight, TLC

CONSTANTS small, other, large, s1536, s3072

\* `small` is the legacy default; `other` is another model of its size.
MCShapeOf == (small :> s1536) @@ (other :> s1536) @@ (large :> s3072)

=============================================================================
