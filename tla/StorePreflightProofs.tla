------------------------ MODULE StorePreflightProofs ------------------------
(***************************************************************************)
(* Start-up validation keeps every process in one embedding space, for any *)
(* set of processes, configurations and index shapes.                      *)
(***************************************************************************)
EXTENDS StorePreflight, TLAPS

IInv == TypeOK /\ StoreInv

\* A fresh store, a legacy one and leftover keys all satisfy the invariant.
LEMMA InitIInv == Init => IInv
<1> SUFFICES ASSUME Init PROVE IInv
  OBVIOUS
<1> USE ShapeOfAssumption, AdoptableAssumption, NoneAssumption
<1>1. TypeOK
  BY DEF Init, TypeOK
<1>2. OneSpace
  BY DEF Init, OneSpace
<1>3. manifest = None /\ \A p \in Procs : up[p] = None
  BY DEF Init
<1>4. index # None => \A c \in docs : c \in Adoptable /\ index = ShapeOf[c]
  BY DEF Init
<1> QED
  BY <1>1, <1>2, <1>3, <1>4 DEF IInv, StoreInv

\* Every start-up decision, every stored vector and every reset keeps it.
LEMMA StepIInv == IInv /\ [Next]_vars => IInv'
<1> SUFFICES ASSUME IInv, [Next]_vars PROVE IInv'
  OBVIOUS
<1> USE ShapeOfAssumption, AdoptableAssumption, NoneAssumption
<1> USE DEF IInv, TypeOK, StoreInv, OneSpace
<1>1. ASSUME NEW c \in Configs, Create(c) PROVE IInv'
  BY <1>1 DEF Create
<1>2. ASSUME NEW c \in Configs, Adopt(c) PROVE IInv'
  \* The stored vectors are of the one adoptable space, which is c's.
  <2>1. docs \subseteq {c}
    BY <1>2 DEF Adopt
  <2>2. index # None
    BY <1>2 DEF Adopt
  <2> QED
    BY <1>2, <2>1, <2>2 DEF Adopt
<1>3. ASSUME NEW p \in Procs, NEW c \in Configs, Admit(p, c) PROVE IInv'
  <2>1. TypeOK'
    BY <1>3 DEF Admit
  <2>2. index # None
    BY <1>3 DEF Admit
  <2>3. \A q \in Procs : up'[q] # None => manifest' = up'[q] /\ index' # None
    BY <1>3, <2>2 DEF Admit
  <2> QED
    BY <1>3, <2>1, <2>3 DEF Admit
<1>4. ASSUME NEW p \in Procs, Embed(p) PROVE IInv'
  \* What p stores is of the space the manifest certifies.
  <2>1. manifest = up[p] /\ index # None /\ docs \subseteq {up[p]}
    BY <1>4 DEF Embed
  <2>2. docs' = {up[p]} /\ up[p] \in Configs
    BY <1>4, <2>1 DEF Embed
  <2> QED
    BY <1>4, <2>1, <2>2 DEF Embed
<1>5. ASSUME NEW p \in Procs, Stop(p) PROVE IInv'
  BY <1>5 DEF Stop
<1>6. CASE Reset
  BY <1>6 DEF Reset
<1>7. CASE Rebuild
  BY <1>7 DEF Rebuild
<1>8. CASE UNCHANGED vars
  BY <1>8 DEF vars
<1> QED
  BY <1>1, <1>2, <1>3, <1>4, <1>5, <1>6, <1>7, <1>8 DEF Next

LEMMA AlwaysIInv == Spec => []IInv
<1>1. IInv /\ [Next]_vars => IInv'
  BY StepIInv
<1> QED
  BY InitIInv, <1>1, PTL DEF Spec

\* The variables keep their types, whatever starts, stops and resets.
THEOREM StoreTypes == Spec => []TypeOK
<1>1. IInv => TypeOK
  BY DEF IInv
<1> QED
  BY AlwaysIInv, <1>1, PTL

\* The manifest describes the index and the vectors of the store.
THEOREM CertificateHolds == Spec => []StoreInv
<1>1. IInv => StoreInv
  BY DEF IInv
<1> QED
  BY AlwaysIInv, <1>1, PTL

\* No store ever mixes vectors of two embedding configurations.
THEOREM NoMixing == Spec => []OneSpace
<1>1. IInv => OneSpace
  BY DEF IInv, StoreInv
<1> QED
  BY AlwaysIInv, <1>1, PTL

\* A process that came up serves the space its store's vectors live in.
THEOREM ServedFromItsSpace == Spec => []ServesItsSpace
<1>1. IInv => ServesItsSpace
  BY ShapeOfAssumption, NoneAssumption
     DEF IInv, TypeOK, StoreInv, OneSpace, ServesItsSpace
<1> QED
  BY AlwaysIInv, <1>1, PTL

=============================================================================
