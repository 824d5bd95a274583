---------------------------- MODULE RedisPreflight ----------------------------
(***************************************************************************)
(* _redis_preflight of src/document_store/preflight.py, one Redis command  *)
(* per step, run by any number of processes that start, crash and restart  *)
(* with any configuration.  The start-up lock, the manifest, the           *)
(* initialisation marker, the index and the document hashes are separate   *)
(* keys; nothing but the protocol keeps them together.                     *)
(***************************************************************************)
EXTENDS StoreConfigs

CONSTANTS
    Abandoned,     \* the lock's token belongs to a process that is gone
    LockCanLapse,  \* may the lock expire under a live owner (TTL 60 s)?
    Leftovers      \* may the operator's reset forget the hashes or the manifest?

ASSUME AbandonedAssumption == Abandoned \notin Procs \cup {None}
ASSUME SwitchAssumption == LockCanLapse \in BOOLEAN /\ Leftovers \in BOOLEAN

VARIABLES
    manifest,  \* "<ns>:__manifest__"
    marker,    \* "<ns>:__init__": the fingerprint of a configuration
    index,     \* what the server's index looks like
    docs,      \* the configurations behind the hashes "<ns>:sources:*"
    lock,      \* "<ns>:__preflight_lock__": whose token it holds
    pc,        \* pc[p]: the next command of p, or what became of it
    cfg,       \* cfg[p]: the settings p was started with
    used       \* auxiliary: the configurations met since the store was empty

store == <<manifest, marker, index, docs>>
vars == <<store, lock, pc, cfg, used>>

(***************************************************************************)
(* Each path of the function ends in "done" or "failing", both of which    *)
(* still have to release the lock.                                         *)
(***************************************************************************)
Resting == {"off", "up", "failed", "timed_out"}
LockedPCs ==
    {"manifest", "certified", "certified_own", "certified_clear", "exists",
     "marker", "resume", "resume_stale", "resume_own", "resume_manifest",
     "adopt", "adopt_own", "adopt_manifest", "fresh_stale", "fresh_own",
     "fresh_marker", "fresh_create", "fresh_own_again", "fresh_manifest",
     "clear", "done", "failing"}

Init ==
    /\ manifest = None
    /\ marker = None
    /\ \/ index = None /\ docs = {} /\ used = {}
       \/ \E c \in Adoptable :
            index = ShapeOf[c] /\ docs \in {{}, {c}} /\ used = {c}
       \/ \E c \in Configs :
            Leftovers /\ index = None /\ docs = {c} /\ used = Configs
    /\ lock = None
    /\ pc = [p \in Procs |-> "off"]
    /\ cfg = [p \in Procs |-> None]

Move(p, to) == pc' = [pc EXCEPT ![p] = to]

\* p reads something and branches.
Reads(p, at, to) ==
    /\ pc[p] = at
    /\ Move(p, to)
    /\ UNCHANGED <<store, lock, cfg, used>>

-----------------------------------------------------------------------------
(* The lock. *)

Start(p) ==
    /\ pc[p] \in {"off", "failed", "timed_out"}
    /\ \E c \in Configs : cfg' = [cfg EXCEPT ![p] = c] /\ used' = used \cup {c}
    /\ Move(p, "lock")
    /\ UNCHANGED <<store, lock>>

\* Mutant: SET without NX.
MutantTakeLock(p) ==
    /\ pc[p] = "lock"
    /\ lock' = p
    /\ Move(p, "manifest")
    /\ UNCHANGED <<store, cfg, used>>

\* SET NX EX with a fresh token.
TakeLock(p) ==
    /\ pc[p] = "lock"
    /\ lock = None
    /\ lock' = p
    /\ Move(p, "manifest")
    /\ UNCHANGED <<store, cfg, used>>

\* The wait ends after 75 s: longer than one abandoned lock lasts, but others
\* may have held it since.
GiveUp(p) ==
    /\ pc[p] = "lock"
    /\ lock # None
    /\ Move(p, "timed_out")
    /\ UNCHANGED <<store, lock, cfg, used>>

\* _assert_lock_owned.
ChecksLock(p, at, to) == Reads(p, at, IF lock = p THEN to ELSE "failing")

\* Mutant: An error leaves the lock behind, without an expiry.
MutantUnlock(p) ==
    /\ pc[p] \in {"done", "failing"}
    /\ lock' = IF pc[p] = "done" /\ lock = p THEN None ELSE lock
    /\ Move(p, IF pc[p] = "done" THEN "up" ELSE "failed")
    /\ UNCHANGED <<store, cfg, used>>

\* The compare-and-delete script, whatever the outcome.  An error of Redis in
\* it is only logged: a token that nobody uses again stays until it expires.
Unlock(p) ==
    /\ pc[p] \in {"done", "failing"}
    /\ lock' \in IF lock = p THEN {None, Abandoned} ELSE {lock}
    /\ Move(p, IF pc[p] = "done" THEN "up" ELSE "failed")
    /\ UNCHANGED <<store, cfg, used>>

LockExpires ==
    /\ lock # None
    /\ lock = Abandoned \/ LockCanLapse
    /\ lock' = None
    /\ UNCHANGED <<store, pc, cfg, used>>

-----------------------------------------------------------------------------
(* The decision, command by command. *)

\* _validate_redis_index.
IndexFits(p) == index = ShapeOf[cfg[p]]

NoHashes == docs = {}

\* GET manifest, compare_manifests.
ReadsManifest(p) ==
    Reads(p, "manifest", IF manifest = None THEN "exists"
                         ELSE IF manifest = cfg[p] THEN "certified"
                         ELSE "failing")

\* Certified: the index must still be there and fit; the marker is cleared.
ValidatesCertified(p) ==
    Reads(p, "certified", IF IndexFits(p) THEN "certified_own" ELSE "failing")

ClearsStaleMarker(p) ==
    /\ pc[p] = "certified_clear"
    /\ marker' = None
    /\ Move(p, "done")
    /\ UNCHANGED <<manifest, index, docs, lock, cfg, used>>

\* index.exists(): fresh store or not.
LooksForIndex(p) ==
    Reads(p, "exists", IF index = None THEN "fresh_stale" ELSE "marker")

\* Mutant: The marker is not looked at: an interrupted start is taken for legacy.
MutantReadsMarker(p) == Reads(p, "marker", "adopt")

\* An index without manifest: marked by an interrupted start, or legacy.
ReadsMarker(p) ==
    Reads(p, "marker", IF marker = None THEN "adopt"
                       ELSE IF marker = cfg[p] THEN "resume" ELSE "failing")

ValidatesResumed(p) ==
    Reads(p, "resume", IF IndexFits(p) THEN "resume_stale" ELSE "failing")

ScansResumed(p) ==
    Reads(p, "resume_stale", IF NoHashes THEN "resume_own" ELSE "failing")

\* _adopt_legacy_redis.
ValidatesLegacy(p) ==
    Reads(p, "adopt",
          IF IndexFits(p) /\ cfg[p] \in Adoptable
            THEN "adopt_own" ELSE "failing")

ScansFresh(p) ==
    Reads(p, "fresh_stale", IF NoHashes THEN "fresh_own" ELSE "failing")

SetsMarker(p) ==
    /\ pc[p] = "fresh_marker"
    /\ marker' = cfg[p]
    /\ Move(p, "fresh_create")
    /\ UNCHANGED <<manifest, index, docs, lock, cfg, used>>

\* index.create() leaves an index that exists alone.
CreatesIndex(p) ==
    /\ pc[p] = "fresh_create"
    /\ index' = IF index = None THEN ShapeOf[cfg[p]] ELSE index
    /\ Move(p, "fresh_own_again")
    /\ UNCHANGED <<manifest, marker, docs, lock, cfg, used>>

\* SET manifest, on all three paths; only legacy adoption has no marker.
SetsManifest(p) ==
    /\ pc[p] \in {"resume_manifest", "fresh_manifest", "adopt_manifest"}
    /\ manifest' = cfg[p]
    /\ Move(p, IF pc[p] = "adopt_manifest" THEN "done" ELSE "clear")
    /\ UNCHANGED <<marker, index, docs, lock, cfg, used>>

DeletesMarker(p) ==
    /\ pc[p] = "clear"
    /\ marker' = None
    /\ Move(p, "done")
    /\ UNCHANGED <<manifest, index, docs, lock, cfg, used>>

-----------------------------------------------------------------------------
(* The rest of the world. *)

\* A process that is up stores vectors.
Embed(p) ==
    /\ pc[p] = "up"
    /\ docs' = docs \cup {cfg[p]}
    /\ UNCHANGED <<manifest, marker, index, lock, pc, cfg, used>>

\* A process dies anywhere; its lock stays until it expires.
Crash(p) ==
    /\ pc[p] \in LockedPCs \cup {"lock", "up"}
    /\ lock' = IF lock = p THEN Abandoned ELSE lock
    /\ Move(p, "off")
    /\ UNCHANGED <<store, cfg, used>>

\* The operator's reset with everything stopped. The README's list names the
\* index, the hashes and the manifest, not the marker.
Reset ==
    /\ \A p \in Procs : pc[p] \in {"off", "failed", "timed_out"}
    /\ index' = None
    /\ docs' \in IF Leftovers THEN {docs, {}} ELSE {{}}
    /\ manifest' \in IF Leftovers THEN {manifest, None} ELSE {None}
    /\ used' = IF docs' = {} /\ manifest' = None THEN {} ELSE Configs
    /\ UNCHANGED <<marker, lock, pc, cfg>>

\* The operator's index rebuild: the index is recreated as the configuration
\* wants it and the manifest deleted; the hashes stay.
Rebuild ==
    /\ \A p \in Procs : pc[p] \in {"off", "failed", "timed_out"}
    /\ manifest \in Adoptable
    /\ index # None
    /\ manifest' = None
    /\ UNCHANGED <<marker, index, docs, lock, pc, cfg, used>>

Preflight(p) ==
    \/ TakeLock(p)
    \/ ReadsManifest(p)
    \/ ValidatesCertified(p)
    \/ ChecksLock(p, "certified_own", "certified_clear")
    \/ ClearsStaleMarker(p)
    \/ LooksForIndex(p)
    \/ ReadsMarker(p)
    \/ ValidatesResumed(p)
    \/ ScansResumed(p)
    \/ ChecksLock(p, "resume_own", "resume_manifest")
    \/ ValidatesLegacy(p)
    \/ ChecksLock(p, "adopt_own", "adopt_manifest")
    \/ ScansFresh(p)
    \/ ChecksLock(p, "fresh_own", "fresh_marker")
    \/ SetsMarker(p)
    \/ CreatesIndex(p)
    \/ ChecksLock(p, "fresh_own_again", "fresh_manifest")
    \/ SetsManifest(p)
    \/ DeletesMarker(p)
    \/ Unlock(p)

Next ==
    \/ \E p \in Procs :
         Start(p) \/ Preflight(p) \/ GiveUp(p) \/ Embed(p) \/ Crash(p)
    \/ LockExpires
    \/ Reset
    \/ Rebuild

Spec == Init /\ [][Next]_vars

(***************************************************************************)
(* Fairness: a started process issues its commands, an abandoned lock      *)
(* expires, and a process that finds the lock free again and again gets it *)
(* in the end (the retry loop polls every half second).                    *)
(***************************************************************************)
FairSpec ==
    /\ Spec
    /\ \A p \in Procs :
         /\ WF_vars(Preflight(p) /\ pc[p] # "lock")
         /\ SF_vars(TakeLock(p))
    /\ WF_vars(LockExpires /\ lock = Abandoned)

-----------------------------------------------------------------------------
(* Properties. *)

Up(p) == pc[p] = "up"

\* A start never fails over its own traces: when one ends in an error, the
\* store has met another configuration since the operator last emptied it.
\* Whatever crashed before it, an interrupted initialisation is resumed.
FailsForACause ==
    [][\A p \in Procs :
         pc[p] # "failing" /\ pc'[p] = "failing" =>
            \E c \in used : c # cfg[p]]_vars

\* A start comes to an end: the process is up, has failed, gave up waiting
\* for a live owner, or died.
EveryStartEnds ==
    \A p \in Procs : pc[p] = "lock" ~> pc[p] \in Resting

(***************************************************************************)
(* While the lock holds, the protocol is the atomic one.  An index that    *)
(* still carries its marker and has no manifest is not there yet.          *)
(***************************************************************************)
Store == INSTANCE StorePreflight
           WITH index <- IF manifest = None /\ marker # None
                           THEN None ELSE index,
                up <- [p \in Procs |-> IF Up(p) THEN cfg[p] ELSE None]

\* Command by command, _redis_preflight and its lock behave as the atomic
\* validation of StorePreflight.
ImplementsStore == Store!Spec

=============================================================================
