---------------------------- MODULE MCSourceLock ----------------------------
(* Instances of SourceLock for TLC. *)
EXTENDS SourceLock, TLC

CONSTANTS s1, s2, t1, t2, t3

\* Three tasks compete for s1.
MCSourceOfThree == (t1 :> s1) @@ (t2 :> s1) @@ (t3 :> s1)

\* Two tasks compete for s1, one has s2 for itself.
MCSourceOfTwo == (t1 :> s1) @@ (t2 :> s1) @@ (t3 :> s2)

=============================================================================
