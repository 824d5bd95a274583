------------------------ MODULE RedisPreflightProofs ------------------------
(***************************************************************************)
(* _redis_preflight for any number of processes and configurations: while  *)
(* its lock holds, the sequence of commands is the atomic validation of    *)
(* StorePreflight, and no start fails over its own traces.                 *)
(***************************************************************************)
EXTENDS RedisPreflight, TLAPS

Stopped == {"off", "failed", "timed_out"}

Types ==
    /\ manifest \in Configs \cup {None}
    /\ marker \in Configs \cup {None}
    /\ index \in Shapes \cup {None}
    /\ docs \subseteq Configs
    /\ used \subseteq Configs
    /\ pc \in [Procs -> LockedPCs \cup Resting \cup {"lock"}]
    /\ cfg \in [Procs -> Configs \cup {None}]

\* The marker stands only over an empty store.
MarkerOnEmpty == marker # None => docs = {}

\* What a manifest says of the other keys.
Certificate ==
    manifest # None =>
      /\ manifest \in used
      /\ marker \in {None, manifest}
      /\ index \in {ShapeOf[manifest], None}
      /\ index = None => used = Configs

\* An index nobody has certified is the marker's, or the adoptable one.
Uncertified ==
    manifest = None /\ index # None =>
      \/ marker \in used /\ index = ShapeOf[marker]
      \/ marker = None /\ \E c \in Adoptable \cap used : index = ShapeOf[c]

\* Hashes without an index are what a reset forgot.
Forgotten == index = None /\ docs # {} => used = Configs

Keys == MarkerOnEmpty /\ Certificate /\ Uncertified /\ Forgotten

CertifiedPCs == {"certified", "certified_own", "certified_clear", "clear", "done", "up"}
ResumePCs == {"resume", "resume_stale", "resume_own", "resume_manifest"}
AdoptPCs == {"adopt", "adopt_own", "adopt_manifest"}
NoIndexPCs == {"fresh_stale", "fresh_own", "fresh_marker", "fresh_create"}
IndexedPCs == {"fresh_own_again", "fresh_manifest"}

\* What p has read and relies on where it is.
Path(p) ==
    /\ pc[p] \in LockedPCs => lock = p
    /\ pc[p] \notin Stopped => cfg[p] \in used
    /\ pc[p] \in CertifiedPCs =>
         manifest = cfg[p] /\ (pc[p] # "certified" => index = ShapeOf[cfg[p]])
    /\ pc[p] \in {"done", "up"} => marker = None
    /\ pc[p] \in {"exists", "marker"} \cup ResumePCs \cup AdoptPCs
                   \cup NoIndexPCs \cup IndexedPCs => manifest = None
    /\ pc[p] \in {"marker"} \cup ResumePCs \cup AdoptPCs => index # None
    /\ pc[p] \in ResumePCs => marker = cfg[p]
    /\ pc[p] \in AdoptPCs =>
         /\ marker = None
         /\ pc[p] # "adopt" => cfg[p] \in Adoptable /\ index = ShapeOf[cfg[p]]
    /\ pc[p] \in NoIndexPCs => index = None
    /\ pc[p] \in (NoIndexPCs \cup IndexedPCs) \ {"fresh_stale"} => docs = {}
    /\ pc[p] \in {"fresh_create"} \cup IndexedPCs => marker = cfg[p]
    /\ pc[p] \in IndexedPCs => index = ShapeOf[cfg[p]]

IInv == Types /\ Keys /\ \A p \in Procs : Path(p)

-----------------------------------------------------------------------------
(* The invariant, first the parts a step leaves alone. *)

LEMMA InitIInv == Init => IInv
<1> SUFFICES ASSUME Init PROVE IInv
  OBVIOUS
<1> USE ShapeOfAssumption, AdoptableAssumption, NoneAssumption
<1>1. Types
  BY DEF Init, Types, Resting
<1>2. Keys
  BY DEF Init, Keys, MarkerOnEmpty, Certificate, Uncertified, Forgotten
<1>3. \A p \in Procs : Path(p)
  BY DEF Init, Path, Stopped, LockedPCs, CertifiedPCs, ResumePCs, AdoptPCs,
         NoIndexPCs, IndexedPCs
<1> QED
  BY <1>1, <1>2, <1>3 DEF IInv

\* What p holds under the lock nobody else relies on: the others are stopped,
\* waiting, or up on a certified store.
LEMMA OthersKeep ==
    ASSUME IInv, NEW p \in Procs, NEW q \in Procs, q # p,
           pc[p] \in LockedPCs,
           pc'[q] = pc[q], UNCHANGED <<cfg, used>>,
           manifest # None =>
             UNCHANGED <<manifest, index>> /\ marker' \in {marker, None}
    PROVE  Path(q)'
<1>1. pc[q] \notin LockedPCs
  BY DEF IInv, Path
<1>2. pc[q] \in Stopped \cup {"lock", "up"}
  BY <1>1 DEF IInv, Types, Resting, Stopped
<1>3. pc[q] # "up" => Path(q)'
  BY <1>2 DEF IInv, Path, Stopped, LockedPCs, CertifiedPCs, ResumePCs, AdoptPCs,
              NoIndexPCs, IndexedPCs
<1>4. CASE pc[q] = "up"
  <2>1. /\ manifest = cfg[q] /\ cfg[q] \in used /\ marker = None
        /\ index = ShapeOf[cfg[q]]
    BY <1>4 DEF IInv, Path, Stopped, CertifiedPCs
  <2>2. manifest # None
    BY <2>1, NoneAssumption DEF IInv, Types
  <2> QED
    BY <1>4, <2>1, <2>2
       DEF Path, Stopped, LockedPCs, CertifiedPCs, ResumePCs, AdoptPCs,
           NoIndexPCs, IndexedPCs
<1> QED
  BY <1>3, <1>4

\* A command that changes no key.
LEMMA ReadKeeps ==
    ASSUME IInv, NEW p \in Procs, pc[p] \in LockedPCs,
           NEW to \in LockedPCs, Move(p, to), UNCHANGED <<store, lock, cfg, used>>,
           pc'[p] = to => Path(p)'
    PROVE  IInv'
<1>1. Types' /\ pc'[p] = to /\ \A q \in Procs \ {p} : pc'[q] = pc[q]
  BY DEF Move, IInv, Types, store
<1>2. Keys'
  BY DEF IInv, Keys, MarkerOnEmpty, Certificate, Uncertified, Forgotten, store
<1>3. \A q \in Procs \ {p} : Path(q)'
  BY <1>1, OthersKeep DEF store
<1> QED
  BY <1>1, <1>2, <1>3 DEF IInv

\* A command that writes a key.
LEMMA WriteKeeps ==
    ASSUME IInv, NEW p \in Procs, pc[p] \in LockedPCs,
           NEW to \in LockedPCs, Move(p, to), UNCHANGED <<docs, lock, cfg, used>>,
           manifest' \in Configs \cup {None},
           marker' \in Configs \cup {None},
           index' \in Shapes \cup {None},
           manifest # None =>
             UNCHANGED <<manifest, index>> /\ marker' \in {marker, None},
           Keys', pc'[p] = to => Path(p)'
    PROVE  IInv'
<1>1. Types' /\ pc'[p] = to /\ \A q \in Procs \ {p} : pc'[q] = pc[q]
  BY DEF Move, IInv, Types
<1>2. \A q \in Procs \ {p} : Path(q)'
  BY <1>1, OthersKeep
<1> QED
  BY <1>1, <1>2 DEF IInv

\* A process that holds the lock is never told that it lost it.
LEMMA LockIsHeld ==
    ASSUME IInv, NEW p \in Procs, NEW at \in LockedPCs, NEW to,
           ChecksLock(p, at, to)
    PROVE  Move(p, to) /\ pc[p] = at /\ UNCHANGED <<store, lock, cfg, used>>
BY DEF ChecksLock, Reads, IInv, Path

-----------------------------------------------------------------------------
(* The commands of one start. *)

LEMMA ChecksKeep ==
    ASSUME IInv, NEW p \in Procs,
           \/ ChecksLock(p, "certified_own", "certified_clear")
           \/ ChecksLock(p, "resume_own", "resume_manifest")
           \/ ChecksLock(p, "adopt_own", "adopt_manifest")
           \/ ChecksLock(p, "fresh_own", "fresh_marker")
           \/ ChecksLock(p, "fresh_own_again", "fresh_manifest")
    PROVE  IInv'
<1> USE DEF LockedPCs
<1>1. PICK at \in LockedPCs, to \in LockedPCs :
        /\ ChecksLock(p, at, to)
        /\ <<at, to>> \in {<<"certified_own", "certified_clear">>,
                           <<"resume_own", "resume_manifest">>,
                           <<"adopt_own", "adopt_manifest">>,
                           <<"fresh_own", "fresh_marker">>,
                           <<"fresh_own_again", "fresh_manifest">>}
  OBVIOUS
<1>2. Move(p, to) /\ pc[p] = at /\ UNCHANGED <<store, lock, cfg, used>>
  BY <1>1, LockIsHeld
<1>3. Path(p)
  BY DEF IInv
<1>4. pc'[p] = to => Path(p)'
  BY <1>1, <1>2, <1>3 DEF Path, store, Stopped, CertifiedPCs, ResumePCs, AdoptPCs,
                          NoIndexPCs, IndexedPCs
<1> QED
  BY <1>1, <1>2, <1>4, ReadKeeps

LEMMA ReadingsKeep ==
    ASSUME IInv, NEW p \in Procs,
           \/ ReadsManifest(p) \/ ValidatesCertified(p) \/ LooksForIndex(p)
           \/ ReadsMarker(p) \/ ValidatesResumed(p) \/ ScansResumed(p)
           \/ ValidatesLegacy(p) \/ ScansFresh(p)
    PROVE  IInv'
<1> USE DEF LockedPCs
<1>1. Path(p)
  BY DEF IInv
<1>2. PICK at \in LockedPCs, to \in LockedPCs : Reads(p, at, to)
  BY DEF ReadsManifest, ValidatesCertified, LooksForIndex, ReadsMarker,
         ValidatesResumed, ScansResumed, ValidatesLegacy, ScansFresh
<1>3. /\ pc[p] = at /\ Move(p, to) /\ UNCHANGED <<store, lock, cfg, used>>
      /\ (pc'[p] = to => pc[p] = at /\ UNCHANGED <<store, lock, cfg, used>>)
  BY <1>2 DEF Reads
<1>4. pc'[p] = to
  BY <1>3 DEF Move, IInv, Types
<1>5. Path(p)'
  <2> USE DEF Path, Stopped, CertifiedPCs, ResumePCs, AdoptPCs, NoIndexPCs,
              IndexedPCs, store, Reads, Move
  <2>1. pc \in [Procs -> LockedPCs \cup Resting \cup {"lock"}]
    BY DEF IInv, Types
  <2> QED
    BY <1>1, <1>3, <1>4, <2>1
       DEF ReadsManifest, ValidatesCertified, LooksForIndex, ReadsMarker,
         ValidatesResumed, ScansResumed, ValidatesLegacy, ScansFresh, IndexFits,
         NoHashes
<1> QED
  BY <1>3, <1>5, ReadKeeps

\* The commands that write one key: each finds the marker, the index and the
\* manifest as they were when it was decided on.
LEMMA WritingsKeep ==
    ASSUME IInv, NEW p \in Procs,
           \/ ClearsStaleMarker(p) \/ SetsMarker(p) \/ CreatesIndex(p)
           \/ SetsManifest(p) \/ DeletesMarker(p)
    PROVE  IInv'
<1> USE ShapeOfAssumption, NoneAssumption
<1> USE DEF Keys, MarkerOnEmpty, Certificate, Uncertified, Forgotten,
            Path, Stopped, LockedPCs, CertifiedPCs, ResumePCs, AdoptPCs, NoIndexPCs,
            IndexedPCs
<1>1. Path(p) /\ Types /\ Keys
  BY DEF IInv
<1>2. pc[p] \in LockedPCs => cfg[p] \in used /\ cfg[p] \in Configs /\ cfg[p] # None
  BY <1>1 DEF Types
<1>3. CASE ClearsStaleMarker(p)
  <2>1. pc[p] \in LockedPCs /\ Move(p, "done") /\ UNCHANGED <<docs, lock, cfg, used>>
    BY <1>3 DEF ClearsStaleMarker
  <2>2. /\ manifest' \in Configs \cup {None}
        /\ marker' \in Configs \cup {None}
        /\ index' \in Shapes \cup {None}
        /\ manifest # None =>
             UNCHANGED <<manifest, index>> /\ marker' \in {marker, None}
    BY <1>1, <1>3 DEF ClearsStaleMarker, Types
  <2>3. Keys'
    BY <1>1, <1>2, <1>3 DEF ClearsStaleMarker
  <2>4. pc'[p] = "done" => Path(p)'
    BY <1>1, <1>2, <1>3 DEF ClearsStaleMarker
  <2> QED
    BY <2>1, <2>2, <2>3, <2>4, WriteKeeps
<1>4. CASE SetsMarker(p)
  <2>1. pc[p] \in LockedPCs /\ Move(p, "fresh_create")
        /\ UNCHANGED <<docs, lock, cfg, used>>
    BY <1>4 DEF SetsMarker
  <2>2. /\ manifest' \in Configs \cup {None}
        /\ marker' \in Configs \cup {None}
        /\ index' \in Shapes \cup {None}
        /\ manifest = None
    BY <1>1, <1>2, <1>4 DEF SetsMarker, Types
  <2>3. Keys'
    BY <1>1, <1>2, <1>4 DEF SetsMarker
  <2>4. pc'[p] = "fresh_create" => Path(p)'
    BY <1>1, <1>2, <1>4 DEF SetsMarker
  <2> QED
    BY <2>1, <2>2, <2>3, <2>4, WriteKeeps
<1>5. CASE CreatesIndex(p)
  <2>1. pc[p] \in LockedPCs /\ Move(p, "fresh_own_again")
        /\ UNCHANGED <<docs, lock, cfg, used>>
    BY <1>5 DEF CreatesIndex
  <2>2. /\ manifest' \in Configs \cup {None}
        /\ marker' \in Configs \cup {None}
        /\ index' \in Shapes \cup {None}
        /\ manifest = None /\ index' = ShapeOf[cfg[p]]
    BY <1>1, <1>2, <1>5 DEF CreatesIndex, Types
  <2>3. Keys'
    BY <1>1, <1>2, <1>5, <2>2 DEF CreatesIndex
  <2>4. pc'[p] = "fresh_own_again" => Path(p)'
    BY <1>1, <1>2, <1>5, <2>2 DEF CreatesIndex
  <2> QED
    BY <2>1, <2>2, <2>3, <2>4, WriteKeeps
<1>6. CASE SetsManifest(p)
  <2> DEFINE to == IF pc[p] = "adopt_manifest" THEN "done" ELSE "clear"
  <2>1. /\ pc[p] \in LockedPCs /\ Move(p, to) /\ to \in LockedPCs
        /\ UNCHANGED <<docs, lock, cfg, used>>
    BY <1>6 DEF SetsManifest
  <2>2. /\ manifest' \in Configs \cup {None}
        /\ marker' \in Configs \cup {None}
        /\ index' \in Shapes \cup {None}
        /\ manifest = None
    BY <1>1, <1>2, <1>6 DEF SetsManifest, Types
  <2>3. index = ShapeOf[cfg[p]]
    BY <1>1, <1>2, <1>6 DEF SetsManifest
  <2>4. Keys'
    BY <1>1, <1>2, <1>6, <2>3 DEF SetsManifest
  <2>5. pc'[p] = to => Path(p)'
    BY <1>1, <1>2, <1>6, <2>3 DEF SetsManifest
  <2> QED
    BY <2>1, <2>2, <2>4, <2>5, WriteKeeps
<1>7. CASE DeletesMarker(p)
  <2>1. pc[p] \in LockedPCs /\ Move(p, "done") /\ UNCHANGED <<docs, lock, cfg, used>>
    BY <1>7 DEF DeletesMarker
  <2>2. /\ manifest' \in Configs \cup {None}
        /\ marker' \in Configs \cup {None}
        /\ index' \in Shapes \cup {None}
        /\ manifest # None =>
             UNCHANGED <<manifest, index>> /\ marker' \in {marker, None}
    BY <1>1, <1>7 DEF DeletesMarker, Types
  <2>3. Keys'
    BY <1>1, <1>2, <1>7 DEF DeletesMarker
  <2>4. pc'[p] = "done" => Path(p)'
    BY <1>1, <1>2, <1>7 DEF DeletesMarker
  <2> QED
    BY <2>1, <2>2, <2>3, <2>4, WriteKeeps
<1> QED
  BY <1>3, <1>4, <1>5, <1>6, <1>7

-----------------------------------------------------------------------------
(* The lock, the other life of a process, and the operator. *)

LEMMA LockingKeeps ==
    ASSUME IInv, NEW p \in Procs, TakeLock(p) \/ Unlock(p) \/ GiveUp(p) \/ Crash(p)
    PROVE  IInv'
<1> USE DEF Path, Stopped, LockedPCs, CertifiedPCs, ResumePCs, AdoptPCs,
            NoIndexPCs, IndexedPCs, TakeLock, Unlock, GiveUp, Crash, Move, store
<1> USE NoneAssumption, AbandonedAssumption
<1>1. Types /\ Keys /\ \A q \in Procs : Path(q)
  BY DEF IInv
<1>2. Types' /\ UNCHANGED <<store, cfg, used>>
  BY <1>1 DEF Types, Resting
<1>3. Keys'
  BY <1>1, <1>2 DEF Keys, MarkerOnEmpty, Certificate, Uncertified, Forgotten
<1>4. Path(p)'
  BY <1>1, <1>2 DEF Types
<1>5. ASSUME NEW q \in Procs, q # p PROVE Path(q)'
  <2>1. pc'[q] = pc[q]
    BY <1>5, <1>1 DEF Types
  <2>2. lock = q => lock' = q
    BY <1>5
  <2> QED
    BY <1>1, <1>2, <2>1, <2>2
<1> QED
  BY <1>2, <1>3, <1>4, <1>5 DEF IInv

LEMMA StartKeeps == ASSUME IInv, NEW p \in Procs, Start(p) PROVE IInv'
<1>1. PICK c \in Configs :
        /\ pc[p] \in Stopped
        /\ cfg' = [cfg EXCEPT ![p] = c] /\ used' = used \cup {c}
        /\ Move(p, "lock") /\ UNCHANGED <<store, lock>>
  BY DEF Start, Stopped
<1>2. Types'
  BY <1>1 DEF IInv, Types, Move, store
<1>3. Keys'
  BY <1>1 DEF IInv, Types, Keys, MarkerOnEmpty, Certificate, Uncertified, Forgotten, store
<1>4. Path(p)'
  BY <1>1 DEF IInv, Types, Move, Path, Stopped, LockedPCs, CertifiedPCs, ResumePCs,
              AdoptPCs, NoIndexPCs, IndexedPCs
<1>5. ASSUME NEW q \in Procs, q # p PROVE Path(q)'
  <2>1. pc'[q] = pc[q] /\ cfg'[q] = cfg[q] /\ Path(q)
    BY <1>1, <1>5 DEF IInv, Types, Move
  <2> QED
    BY <1>1, <2>1 DEF Path, store
<1> QED
  BY <1>2, <1>3, <1>4, <1>5 DEF IInv

\* Vectors are stored on a certified store, where no start counts on their absence.
LEMMA EmbedKeeps == ASSUME IInv, NEW p \in Procs, Embed(p) PROVE IInv'
<1>1. /\ manifest = cfg[p] /\ cfg[p] \in used /\ marker = None
      /\ index = ShapeOf[cfg[p]] /\ cfg[p] \in Configs
      /\ docs' = docs \cup {cfg[p]} /\ pc[p] = "up"
      /\ UNCHANGED <<manifest, marker, index, lock, pc, cfg, used>>
  BY DEF Embed, IInv, Types, Path, Stopped, CertifiedPCs
<1>2. manifest # None /\ index # None
  BY <1>1, NoneAssumption, ShapeOfAssumption
<1>3. Types'
  BY <1>1 DEF IInv, Types
<1>4. Keys'
  BY <1>1, <1>2 DEF IInv, Keys, MarkerOnEmpty, Certificate, Uncertified, Forgotten
<1>5. ASSUME NEW q \in Procs PROVE Path(q)'
  BY <1>1, <1>2 DEF IInv, Path, NoIndexPCs, IndexedPCs
<1> QED
  BY <1>3, <1>4, <1>5 DEF IInv

LEMMA OperatorKeeps == ASSUME IInv, Reset \/ Rebuild PROVE IInv'
<1>1. /\ \A p \in Procs : pc[p] \in Stopped
      /\ UNCHANGED <<marker, lock, pc, cfg>>
  BY DEF Reset, Rebuild, Stopped
<1>2. \A p \in Procs : Path(p)'
  BY <1>1 DEF Path, Stopped, LockedPCs, CertifiedPCs, ResumePCs, AdoptPCs,
              NoIndexPCs, IndexedPCs
<1>3. Types'
  BY <1>1 DEF IInv, Types, Reset, Rebuild
<1>4. Keys'
  <2> USE DEF IInv, Types, Keys, MarkerOnEmpty, Certificate, Uncertified, Forgotten
  <2>1. CASE Reset
    BY <1>1, <2>1 DEF Reset
  <2>2. CASE Rebuild
    BY <1>1, <2>2, NoneAssumption DEF Rebuild
  <2> QED
    BY <2>1, <2>2
<1> QED
  BY <1>2, <1>3, <1>4 DEF IInv

\* With a lock that holds, only an abandoned one expires.
LEMMA ExpiryKeeps == ASSUME ~LockCanLapse, IInv, LockExpires PROVE IInv'
<1>1. /\ UNCHANGED <<store, pc, cfg, used>>
      /\ \A p \in Procs : lock # p
  BY AbandonedAssumption DEF LockExpires
<1>2. Types' /\ Keys'
  BY <1>1 DEF IInv, Types, Keys, MarkerOnEmpty, Certificate, Uncertified, Forgotten, store
<1>3. \A p \in Procs : Path(p)'
  BY <1>1 DEF IInv, Path, store
<1> QED
  BY <1>2, <1>3 DEF IInv

LEMMA StepIInv == ASSUME ~LockCanLapse PROVE IInv /\ [Next]_vars => IInv'
<1> SUFFICES ASSUME IInv, [Next]_vars PROVE IInv'
  OBVIOUS
<1>1. CASE UNCHANGED vars
  BY <1>1 DEF vars, store, IInv, Types, Keys, MarkerOnEmpty, Certificate, Uncertified,
              Forgotten, Path
<1>2. ASSUME NEW p \in Procs, Preflight(p) PROVE IInv'
  BY <1>2, ReadingsKeep, ChecksKeep, WritingsKeep, LockingKeeps DEF Preflight
<1> QED
  BY <1>1, <1>2, LockingKeeps, StartKeeps, EmbedKeeps, OperatorKeeps, ExpiryKeeps
     DEF Next

\* While the lock holds, every start finds the keys as it read them and the
\* keys agree with each other: what _redis_preflight relies on between commands.
THEOREM KeysAgree == ASSUME ~LockCanLapse PROVE Spec => []IInv
<1>1. Init => IInv
  BY InitIInv
<1>2. IInv /\ [Next]_vars => IInv'
  BY StepIInv
<1> QED
  BY <1>1, <1>2, PTL DEF Spec

-----------------------------------------------------------------------------
(* A start fails only over another configuration. *)

LEMMA FailureHasACause ==
    ASSUME ~LockCanLapse, \A c \in Configs : \E d \in Configs : d # c,
           IInv, [Next]_vars, NEW p \in Procs,
           pc[p] # "failing", pc'[p] = "failing"
    PROVE  \E c \in used : c # cfg[p]
<1>1. Types /\ Keys /\ Path(p)
  BY DEF IInv
<1>2. Preflight(p)
  BY <1>1 DEF Next, vars, Types, Start, Preflight, GiveUp, Embed, Crash, LockExpires,
              Reset, Rebuild, TakeLock, ReadsManifest, ValidatesCertified, ChecksLock,
              ClearsStaleMarker, LooksForIndex, ReadsMarker, ValidatesResumed,
              ScansResumed, ValidatesLegacy, ScansFresh, SetsMarker, CreatesIndex,
              SetsManifest, DeletesMarker, Unlock, Move, Reads
<1>3. \/ ReadsManifest(p) \/ ValidatesCertified(p) \/ ReadsMarker(p)
      \/ ValidatesResumed(p) \/ ScansResumed(p) \/ ValidatesLegacy(p) \/ ScansFresh(p)
  <2>1. \A at \in LockedPCs, to \in LockedPCs \ {"failing"} : ~ChecksLock(p, at, to)
    BY <1>1, LockIsHeld DEF Move, Types
  <2> QED
    BY <1>1, <1>2, <2>1
       DEF Preflight, Types, TakeLock, ClearsStaleMarker, LooksForIndex, SetsMarker,
           CreatesIndex, SetsManifest, DeletesMarker, Unlock, Move, Reads, LockedPCs
<1>4. pc[p] \in LockedPCs /\ cfg[p] \in used /\ cfg[p] \in Configs
  BY <1>1, <1>3 DEF Types, Path, Stopped, Reads, LockedPCs, ReadsManifest,
       ValidatesCertified, ReadsMarker, ValidatesResumed, ScansResumed,
       ValidatesLegacy, ScansFresh
<1>5. used = Configs => \E c \in used : c # cfg[p]
  BY <1>4
\* The manifest is of another configuration.
<1>6. CASE ReadsManifest(p)
  <2>1. manifest # None /\ manifest # cfg[p]
    BY <1>1, <1>6 DEF ReadsManifest, Reads, Move, Types
  <2> QED
    BY <1>1, <2>1 DEF Keys, Certificate
\* The index is not the certified one: it is gone.
<1>7. CASE ValidatesCertified(p)
  <2>1. pc[p] = "certified" /\ index # ShapeOf[cfg[p]]
    BY <1>1, <1>7 DEF ValidatesCertified, IndexFits, Reads, Move, Types
  <2>2. manifest = cfg[p] /\ manifest # None
    BY <1>1, <1>4, <2>1, NoneAssumption DEF Path, CertifiedPCs
  <2> QED
    BY <1>1, <1>5, <2>1, <2>2 DEF Keys, Certificate
\* The marker is another start's.
<1>8. CASE ReadsMarker(p)
  <2>1. pc[p] = "marker" /\ marker # None /\ marker # cfg[p]
    BY <1>1, <1>8 DEF ReadsMarker, Reads, Move, Types
  <2>2. manifest = None /\ index # None
    BY <1>1, <2>1 DEF Path
  <2> QED
    BY <1>1, <2>1, <2>2 DEF Keys, Uncertified
\* What the start's own marker left fits and holds no vectors.
<1>9. CASE ValidatesResumed(p)
  <2>1. pc[p] = "resume" /\ index # ShapeOf[cfg[p]]
    BY <1>1, <1>9 DEF ValidatesResumed, IndexFits, Reads, Move, Types
  <2>2. manifest = None /\ index # None /\ marker = cfg[p] /\ marker # None
    BY <1>1, <1>4, <2>1, NoneAssumption DEF Path, ResumePCs
  <2> QED
    BY <1>1, <2>1, <2>2 DEF Keys, Uncertified
<1>10. CASE ScansResumed(p)
  <2>1. pc[p] = "resume_stale" /\ docs # {}
    BY <1>1, <1>10 DEF ScansResumed, NoHashes, Reads, Move, Types
  <2>2. marker = cfg[p] /\ marker # None
    BY <1>1, <1>4, <2>1, NoneAssumption DEF Path, ResumePCs
  <2> QED
    BY <1>1, <2>1, <2>2 DEF Keys, MarkerOnEmpty
\* A legacy store is of the adoptable configuration, and this one is not it.
<1>11. CASE ValidatesLegacy(p)
  <2>1. pc[p] = "adopt" /\ ~(index = ShapeOf[cfg[p]] /\ cfg[p] \in Adoptable)
    BY <1>1, <1>11 DEF ValidatesLegacy, IndexFits, Reads, Move, Types
  <2>2. manifest = None /\ index # None /\ marker = None
    BY <1>1, <2>1 DEF Path, AdoptPCs
  <2>3. PICK c \in Adoptable \cap used : index = ShapeOf[c]
    BY <1>1, <2>2, NoneAssumption DEF Keys, Uncertified, Types
  <2> QED
    BY <2>1, <2>3
\* Hashes without an index.
<1>12. CASE ScansFresh(p)
  <2>1. pc[p] = "fresh_stale" /\ docs # {}
    BY <1>1, <1>12 DEF ScansFresh, NoHashes, Reads, Move, Types
  <2>2. index = None
    BY <1>1, <2>1 DEF Path, NoIndexPCs
  <2> QED
    BY <1>1, <1>5, <2>1, <2>2 DEF Keys, Forgotten
<1> QED
  BY <1>3, <1>6, <1>7, <1>8, <1>9, <1>10, <1>11, <1>12

\* A start that fails has met another configuration than its own: never the
\* traces of an interrupted start with the same settings.  A reset that forgot
\* keys counts as having met them all, so there must be another one.
THEOREM FailuresHaveACause ==
    ASSUME ~LockCanLapse, \A c \in Configs : \E d \in Configs : d # c
    PROVE  Spec => FailsForACause
<1> DEFINE Cause == \A p \in Procs :
                      pc[p] # "failing" /\ pc'[p] = "failing" =>
                        \E c \in used : c # cfg[p]
<1>1. IInv /\ [Next]_vars => [Cause]_vars
  BY FailureHasACause
<1> QED
  BY <1>1, KeysAgree, PTL DEF Spec, FailsForACause

-----------------------------------------------------------------------------
(* The commands behave as the atomic validation of StorePreflight. *)

\* An index under a marker and without manifest is not there yet.
SeenIndex == IF manifest = None /\ marker # None THEN None ELSE index
Serving == [p \in Procs |-> IF Up(p) THEN cfg[p] ELSE None]

LEMMA InitSimulates == ASSUME Init PROVE Store!Init
BY DEF Init, Store!Init, Up

\* A step that is not seen: the keys read the same and nobody comes up or stops.
LEMMA Unseen ==
    ASSUME UNCHANGED <<manifest, SeenIndex, docs>>,
           \A p \in Procs : Up(p)' = Up(p) /\ (Up(p) => cfg'[p] = cfg[p])
    PROVE  UNCHANGED Store!vars
<1>1. Serving' = Serving
  BY DEF Serving
<1> QED
  BY <1>1 DEF Serving, SeenIndex, Store!vars

LEMMA StepSimulates ==
    ASSUME ~LockCanLapse, IInv, [Next]_vars
    PROVE  [Store!Next]_(Store!vars)
<1>1. Types /\ Keys /\ \A p \in Procs : Path(p)
  BY DEF IInv
<1>2. Serving \in [Procs -> Configs \cup {None}]
  BY <1>1 DEF Serving, Types, Up
<1>3. CASE UNCHANGED vars
  BY <1>3, Unseen DEF vars, store, SeenIndex, Up
<1>4. ASSUME NEW p \in Procs, NEW from \in LockedPCs \cup Stopped \cup {"lock"},
             pc[p] = from, NEW to \in LockedPCs \cup Stopped \cup {"lock"},
             Move(p, to), \A q \in Procs \ {p} : cfg'[q] = cfg[q]
      PROVE  \A q \in Procs : Up(q)' = Up(q) /\ (Up(q) => cfg'[q] = cfg[q])
  BY <1>1, <1>4 DEF Types, Move, Up, LockedPCs, Stopped
<1>5. ASSUME NEW p \in Procs, NEW at \in LockedPCs, NEW to \in LockedPCs,
             Reads(p, at, to)
      PROVE  UNCHANGED Store!vars
  BY <1>4, <1>5, Unseen DEF Reads, store, SeenIndex
<1>6. ASSUME NEW p \in Procs,
             \/ ReadsManifest(p) \/ ValidatesCertified(p) \/ LooksForIndex(p)
             \/ ReadsMarker(p) \/ ValidatesResumed(p) \/ ScansResumed(p)
             \/ ValidatesLegacy(p) \/ ScansFresh(p)
      PROVE  UNCHANGED Store!vars
  <2>1. PICK at \in LockedPCs, to \in LockedPCs : Reads(p, at, to)
    BY <1>6 DEF LockedPCs, ReadsManifest, ValidatesCertified, LooksForIndex,
         ReadsMarker, ValidatesResumed, ScansResumed, ValidatesLegacy, ScansFresh
  <2> QED
    BY <1>5, <2>1
<1>7. ASSUME NEW p \in Procs,
             \/ ChecksLock(p, "certified_own", "certified_clear")
             \/ ChecksLock(p, "resume_own", "resume_manifest")
             \/ ChecksLock(p, "adopt_own", "adopt_manifest")
             \/ ChecksLock(p, "fresh_own", "fresh_marker")
             \/ ChecksLock(p, "fresh_own_again", "fresh_manifest")
      PROVE  UNCHANGED Store!vars
  <2>1. PICK at \in LockedPCs, to \in LockedPCs : ChecksLock(p, at, to)
    BY <1>7 DEF LockedPCs
  <2>2. Reads(p, at, to)
    BY <2>1, LockIsHeld DEF Reads
  <2> QED
    BY <1>5, <2>2
\* The marker goes up before the index is there, and comes down after the
\* manifest certifies it.
<1>8. ASSUME NEW p \in Procs,
             ClearsStaleMarker(p) \/ SetsMarker(p) \/ CreatesIndex(p) \/ DeletesMarker(p)
      PROVE  UNCHANGED Store!vars
  <2>1. /\ pc[p] \in LockedPCs /\ Path(p)
        /\ UNCHANGED <<manifest, docs, cfg>>
        /\ \E to \in LockedPCs : Move(p, to)
    BY <1>1, <1>8 DEF ClearsStaleMarker, SetsMarker, CreatesIndex, DeletesMarker, LockedPCs
  <2>2. cfg[p] # None
    BY <1>1, <2>1, NoneAssumption DEF Path, LockedPCs, Stopped, Types
  <2>3. UNCHANGED SeenIndex
    BY <1>8, <2>1, <2>2 DEF ClearsStaleMarker, SetsMarker, CreatesIndex, DeletesMarker,
         SeenIndex, Path, LockedPCs, CertifiedPCs, NoIndexPCs, IndexedPCs
  <2>4. \A q \in Procs : Up(q)' = Up(q) /\ (Up(q) => cfg'[q] = cfg[q])
    BY <1>4, <2>1
  <2> QED
    BY <2>1, <2>3, <2>4, Unseen
\* SET manifest is the moment of creation, or of adoption.
<1>9. ASSUME NEW p \in Procs, SetsManifest(p)
      PROVE  Store!Next
  <2> DEFINE c == cfg[p]
  <2>1. /\ pc[p] \in {"resume_manifest", "fresh_manifest", "adopt_manifest"}
        /\ Path(p) /\ manifest' = c /\ UNCHANGED <<marker, index, docs, lock, cfg, used>>
        /\ \E to \in LockedPCs : Move(p, to)
    BY <1>1, <1>9 DEF SetsManifest, LockedPCs
  <2>2. c \in used /\ c \in Configs /\ c # None /\ manifest = None
    BY <1>1, <2>1, NoneAssumption
       DEF Path, Stopped, Types, ResumePCs, AdoptPCs, IndexedPCs
  <2>3. SeenIndex' = index /\ index = ShapeOf[c]
    BY <1>1, <2>1, <2>2
       DEF Path, SeenIndex, Keys, Uncertified, ResumePCs, AdoptPCs, IndexedPCs
  <2>4. Serving' = Serving
    <3>1. \A q \in Procs : Up(q)' = Up(q) /\ (Up(q) => cfg'[q] = cfg[q])
      BY <1>4, <2>1 DEF LockedPCs
    <3> QED
      BY <3>1 DEF Serving
  <2>5. CASE pc[p] = "adopt_manifest"
    <3>1. SeenIndex = index /\ c \in Adoptable
      BY <2>1, <2>2, <2>5 DEF Path, AdoptPCs, SeenIndex
    <3>2. Store!Adopt(c)
      BY <2>1, <2>2, <2>3, <2>4, <3>1 DEF Store!Adopt, Serving, SeenIndex
    <3> QED
      BY <2>2, <3>2 DEF Store!Next
  <2>6. CASE pc[p] # "adopt_manifest"
    <3>1. marker = c /\ docs = {}
      BY <1>1, <2>1, <2>2, <2>6
         DEF Path, ResumePCs, IndexedPCs, NoIndexPCs, Keys, MarkerOnEmpty
    <3>2. SeenIndex = None
      BY <2>2, <3>1 DEF SeenIndex
    <3>3. Store!Create(c)
      BY <2>1, <2>2, <2>3, <2>4, <3>1, <3>2 DEF Store!Create, Serving, SeenIndex
    <3> QED
      BY <2>2, <3>3 DEF Store!Next
  <2> QED
    BY <2>5, <2>6
<1>10. ASSUME NEW p \in Procs, TakeLock(p) \/ GiveUp(p) \/ Start(p)
       PROVE  UNCHANGED Store!vars
  <2>1. /\ UNCHANGED store
        /\ pc[p] \in Stopped \cup {"lock"}
        /\ \E to \in LockedPCs \cup Stopped \cup {"lock"} : Move(p, to)
        /\ \A q \in Procs \ {p} : cfg'[q] = cfg[q]
    BY <1>1, <1>10 DEF TakeLock, GiveUp, Start, Stopped, LockedPCs, Types
  <2>2. \A q \in Procs : Up(q)' = Up(q) /\ (Up(q) => cfg'[q] = cfg[q])
    BY <1>4, <2>1
  <2> QED
    BY <2>1, <2>2, Unseen DEF store, SeenIndex
\* The process comes up when it releases the lock.
<1>11. ASSUME NEW p \in Procs, Unlock(p)
       PROVE  [Store!Next]_(Store!vars)
  <2>1. UNCHANGED store /\ UNCHANGED cfg /\ Path(p)
    BY <1>1, <1>11 DEF Unlock
  <2>2. CASE pc[p] = "done"
    <3>1. PICK c \in Configs : c = cfg[p] /\ c # None /\ manifest = c /\ index = ShapeOf[c]
      BY <1>1, <2>1, <2>2, NoneAssumption DEF Path, Stopped, CertifiedPCs, Types
    <3>2. SeenIndex = index /\ SeenIndex' = index
      BY <2>1, <3>1 DEF SeenIndex, store
    <3>3. pc' = [pc EXCEPT ![p] = "up"]
      BY <1>11, <2>2 DEF Unlock, Move
    <3>4. Serving[p] = None /\ Serving' = [Serving EXCEPT ![p] = c]
      BY <1>1, <2>1, <2>2, <3>1, <3>3 DEF Serving, Up, Types
    <3>5. Store!Admit(p, c)
      BY <2>1, <3>1, <3>2, <3>4 DEF Store!Admit, Serving, SeenIndex, store
    <3> QED
      BY <3>1, <3>5 DEF Store!Next
  <2>3. CASE pc[p] # "done"
    <3>1. pc[p] = "failing" /\ Move(p, "failed")
      BY <1>11, <2>3 DEF Unlock
    <3>2. \A q \in Procs : Up(q)' = Up(q) /\ (Up(q) => cfg'[q] = cfg[q])
      BY <1>4, <2>1, <3>1 DEF Stopped, LockedPCs
    <3> QED
      BY <2>1, <3>2, Unseen DEF store, SeenIndex
  <2> QED
    BY <2>2, <2>3
<1>12. ASSUME NEW p \in Procs, Embed(p)
       PROVE  Store!Next
  <2>1. Serving[p] = cfg[p] /\ cfg[p] # None /\ Serving' = Serving /\ SeenIndex' = SeenIndex
    BY <1>1, <1>12, NoneAssumption DEF Embed, Serving, Up, SeenIndex, Path, Stopped, Types
  <2>2. Store!Embed(p)
    BY <1>12, <2>1 DEF Embed, Store!Embed, Serving, SeenIndex
  <2> QED
    BY <2>2 DEF Store!Next
<1>13. ASSUME NEW p \in Procs, Crash(p)
       PROVE  [Store!Next]_(Store!vars)
  <2>1. UNCHANGED store /\ UNCHANGED cfg /\ Move(p, "off")
        /\ pc[p] \in LockedPCs \cup {"lock", "up"}
    BY <1>13 DEF Crash
  <2>2. CASE pc[p] = "up"
    <3>1. Serving[p] # None
      BY <1>1, <2>2, NoneAssumption DEF Serving, Up, Path, Stopped, Types
    <3>2. Serving' = [Serving EXCEPT ![p] = None]
      BY <1>1, <2>1 DEF Serving, Up, Move, Types
    <3>3. Store!Stop(p)
      BY <2>1, <3>1, <3>2 DEF Store!Stop, Serving, SeenIndex, store
    <3> QED
      BY <3>3 DEF Store!Next
  <2>3. CASE pc[p] # "up"
    <3>1. \A q \in Procs : Up(q)' = Up(q) /\ (Up(q) => cfg'[q] = cfg[q])
      BY <1>4, <2>1, <2>3 DEF Stopped
    <3> QED
      BY <2>1, <3>1, Unseen DEF store, SeenIndex
  <2> QED
    BY <2>2, <2>3
<1>14. CASE LockExpires
  BY <1>14, Unseen DEF LockExpires, store, SeenIndex, Up
\* A rebuild after a start that died between the manifest and the marker leaves
\* what reads as an empty store.
<1>15. CASE Reset \/ Rebuild
  <2>1. (\A p \in Procs : ~Up(p)) /\ UNCHANGED <<marker, pc, cfg>>
    BY <1>15 DEF Reset, Rebuild, Up
  <2>2. (\A p \in Procs : Serving[p] = None) /\ Serving' = Serving
    BY <2>1 DEF Serving, Up
  <2>3. CASE Reset
    <3>1. Store!Reset
      BY <2>2, <2>3 DEF Reset, Store!Reset, Serving, SeenIndex
    <3> QED
      BY <3>1 DEF Store!Next
  <2>4. CASE Rebuild /\ marker = None
    <3>1. Store!Rebuild
      BY <2>1, <2>2, <2>4 DEF Rebuild, Store!Rebuild, Serving, SeenIndex
    <3> QED
      BY <3>1 DEF Store!Next
  <2>5. CASE Rebuild /\ marker # None
    <3>1. Store!Reset
      BY <2>1, <2>2, <2>5 DEF Rebuild, Store!Reset, Serving, SeenIndex
    <3> QED
      BY <3>1 DEF Store!Next
  <2> QED
    BY <1>15, <2>3, <2>4, <2>5
<1>16. ASSUME NEW p \in Procs, Preflight(p) PROVE [Store!Next]_(Store!vars)
  BY <1>16, <1>6, <1>7, <1>8, <1>9, <1>10, <1>11 DEF Preflight
<1> QED
  BY <1>3, <1>10, <1>12, <1>13, <1>14, <1>15, <1>16 DEF Next

\* While the lock holds, _redis_preflight implements StorePreflight: whatever
\* interleaves and crashes, stores are created, adopted and served as if each
\* decision were one step.
THEOREM RefinesStore == ASSUME ~LockCanLapse PROVE Spec => ImplementsStore
<1>1. Init => Store!Init
  BY InitSimulates
<1>2. IInv /\ [Next]_vars => [Store!Next]_(Store!vars)
  BY StepSimulates
<1> QED
  BY <1>1, <1>2, KeysAgree, PTL DEF Spec, ImplementsStore, Store!Spec

-----------------------------------------------------------------------------
(* What the contract guarantees holds of the keys. *)

Contract == INSTANCE StorePreflightProofs WITH index <- SeenIndex, up <- Serving

LEMMA ContractHolds == Store!Spec => Contract!Spec
<1>1. Store!Init => Contract!Init
  BY DEF Store!Init, Contract!Init, Serving, SeenIndex
<1>2. [Store!Next]_(Store!vars) => [Contract!Next]_(Contract!vars)
  BY DEF Store!Next, Store!vars, Store!Create, Store!Adopt, Store!Admit, Store!Embed,
         Store!Stop, Store!Reset, Store!Rebuild, Contract!Next, Contract!vars,
         Contract!Create, Contract!Adopt, Contract!Admit, Contract!Embed,
         Contract!Stop, Contract!Reset, Contract!Rebuild, Serving, SeenIndex
<1> QED
  BY <1>1, <1>2, PTL DEF Store!Spec, Contract!Spec

\* A process that is up finds its own certificate, the index its configuration
\* calls for, and vectors of its own embedding space only.
OwnSpaceOnly ==
    \A p \in Procs : Up(p) =>
      /\ manifest = cfg[p]
      /\ index = ShapeOf[cfg[p]]
      /\ docs \subseteq {cfg[p]}

\* While the lock holds, no process ever serves or stores vectors next to those
\* of another configuration, whatever crashed and was reset before.
THEOREM SpacesNeverMix == ASSUME ~LockCanLapse PROVE Spec => []OwnSpaceOnly
<1>1. Contract!ServesItsSpace /\ IInv => OwnSpaceOnly
  <2> SUFFICES ASSUME Contract!ServesItsSpace, IInv, NEW p \in Procs, Up(p)
               PROVE  /\ manifest = cfg[p]
                      /\ index = ShapeOf[cfg[p]]
                      /\ docs \subseteq {cfg[p]}
    BY DEF OwnSpaceOnly
  <2>1. cfg[p] # None /\ manifest = cfg[p] /\ index = ShapeOf[cfg[p]]
    BY NoneAssumption DEF IInv, Types, Path, Up, Stopped, CertifiedPCs
  <2>2. Serving[p] = cfg[p]
    BY DEF Serving
  <2> QED
    BY <2>1, <2>2 DEF Contract!ServesItsSpace
<1>2. Contract!Spec => []Contract!ServesItsSpace
  BY Contract!ServedFromItsSpace, ShapeOfAssumption, AdoptableAssumption,
     NoneAssumption
<1> QED
  BY <1>1, <1>2, ContractHolds, RefinesStore, KeysAgree, PTL DEF ImplementsStore
=============================================================================
