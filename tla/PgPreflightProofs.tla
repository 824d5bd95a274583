-------------------------- MODULE PgPreflightProofs --------------------------
(***************************************************************************)
(* _pg_preflight for any number of processes, namespaces and               *)
(* configurations: the catalog stays intact, concurrent starts do not      *)
(* write the same object, and each namespace goes through the atomic       *)
(* validation of StorePreflight.                                           *)
(***************************************************************************)
EXTENDS PgPreflight, TLAPS

\* The places past the global lock, past both locks, past the version check.
Locked == InTransaction \ {"global_lock", "committed"}
Held == Locked \ {"ns_lock"}
Versioned == (Held \ {"extension", "version"}) \cup {"committed", "up"}

Types ==
    /\ db = [i \in Items |-> db[i]]
    /\ docs \in [Namespaces -> SUBSET Configs]
    /\ own = [p \in Procs |-> own[p]]
    /\ pc \in [Procs -> InTransaction \cup Resting]
    /\ cfg \in [Procs -> Configs \cup {None}]

Catalog ==
    /\ db[Extension] \in {None, "old", "new"}
    /\ db[ManifestTable] \in BOOLEAN
    /\ \A n \in Namespaces :
         /\ db[Manifest(n)] \in Configs \cup {None}
         /\ db[Table(n)] \in [column : Shapes, indexed : BOOLEAN] \cup {None}

\* What is committed about one namespace.
Intact(n) ==
    /\ db[Manifest(n)] # None /\ db[Table(n)] # None =>
         db[Table(n)].column = ShapeOf[db[Manifest(n)]]
    /\ db[Manifest(n)] = None /\ db[Table(n)] # None =>
         db[Table(n)].column \in {ShapeOf[c] : c \in Adoptable}
    /\ db[Table(n)] = None => docs[n] = {}

\* What p's open transaction has written.
Wrote(p) ==
    /\ DOMAIN own[p] \subseteq
         {Extension, ManifestTable, Manifest(Ns(p)), Table(Ns(p))}
    /\ pc[p] \notin Held => DOMAIN own[p] = {}
    /\ Extension \in DOMAIN own[p] =>
         own[p][Extension] = Package /\ (Package = "new" \/ db[Extension] = None)
    /\ ManifestTable \in DOMAIN own[p] => own[p][ManifestTable] = TRUE
    /\ Manifest(Ns(p)) \in DOMAIN own[p] =>
         pc[p] = "commit" /\ own[p][Manifest(Ns(p))] = cfg[p]
    /\ Table(Ns(p)) \in DOMAIN own[p] =>
         /\ pc[p] \in {"create_indexes", "write_manifest", "commit"}
         /\ own[p][Table(Ns(p))] = TableFor(cfg[p], pc[p] # "create_indexes")

Absent(n) == db[Manifest(n)] = None /\ db[Table(n)] = None
Built(p) == db[Table(Ns(p))] # None /\ db[Table(Ns(p))].column = ShapeOf[cfg[p]]
Stands(p) == db[Manifest(Ns(p))] = cfg[p] /\ Built(p)

\* The three ways to the commit: validated, adopted, created.
Ready(p) ==
    \/ /\ Manifest(Ns(p)) \notin DOMAIN own[p]
       /\ Table(Ns(p)) \notin DOMAIN own[p]
       /\ Stands(p)
    \/ /\ Manifest(Ns(p)) \in DOMAIN own[p]
       /\ Table(Ns(p)) \notin DOMAIN own[p]
       /\ db[Manifest(Ns(p))] = None
       /\ Built(p)
       /\ cfg[p] \in Adoptable
    \/ /\ Manifest(Ns(p)) \in DOMAIN own[p]
       /\ Table(Ns(p)) \in DOMAIN own[p]
       /\ Absent(Ns(p))

\* What p relies on where it is.
Path(p) ==
    /\ pc[p] \in Locked => globalLock = p
    /\ pc[p] \in InTransaction \cup {"up"} => cfg[p] \in Configs
    /\ pc[p] = "validate" => db[Manifest(Ns(p))] = cfg[p]
    /\ pc[p] = "adopt" => db[Manifest(Ns(p))] = None /\ db[Table(Ns(p))] # None
    /\ pc[p] \in {"create_table", "create_indexes", "write_manifest"} =>
         Absent(Ns(p))
    /\ pc[p] \in {"create_indexes", "write_manifest"} =>
         Table(Ns(p)) \in DOMAIN own[p]
    /\ pc[p] = "commit" => Ready(p)
    /\ pc[p] \in {"committed", "up"} => Stands(p)
    /\ pc[p] \in Versioned /\ cfg[p] \in Large => Seen(p, Extension) = "new"

IInv ==
    /\ Types
    /\ Catalog
    /\ \A n \in Namespaces : Intact(n)
    /\ \A p \in Procs : Wrote(p) /\ Path(p)

-----------------------------------------------------------------------------
(* The keys of the catalog, and what a write leaves. *)

LEMMA Keys ==
    /\ Extension \in Items /\ ManifestTable \in Items
    /\ Extension # ManifestTable
    /\ \A n \in Namespaces :
         /\ Manifest(n) \in Items /\ Table(n) \in Items
         /\ Manifest(n) # Extension /\ Manifest(n) # ManifestTable
         /\ Table(n) # Extension /\ Table(n) # ManifestTable
         /\ \A m \in Namespaces :
              /\ Manifest(n) # Table(m)
              /\ Manifest(n) = Manifest(m) => n = m
              /\ Table(n) = Table(m) => n = m
BY DEF Extension, ManifestTable, Manifest, Table, Items

LEMMA NsType == ASSUME NEW p \in Procs PROVE Ns(p) \in Namespaces
BY NamespaceAssumption DEF Ns

LEMMA WritesOne ==
    ASSUME Types, NEW p \in Procs, NEW item, NEW value, Writes(p, item, value)
    PROVE  /\ DOMAIN own'[p] = DOMAIN own[p] \cup {item}
           /\ own'[p][item] = value
           /\ \A i \in DOMAIN own[p] \ {item} : own'[p][i] = own[p][i]
           /\ \A q \in Procs \ {p} : own'[q] = own[q]
           /\ own' = [q \in Procs |-> own'[q]]
           /\ UNCHANGED <<db, docs, globalLock, nsLock, cfg>>
BY DEF Types, Writes, locks

LEMMA TablesExist ==
    ASSUME NEW c \in Configs, NEW b \in BOOLEAN
    PROVE  /\ TableFor(c, b) # None
           /\ TableFor(c, b) \in [column : Shapes, indexed : BOOLEAN]
           /\ TableFor(c, b).column = ShapeOf[c]
BY AbsentAssumption, ShapeOfAssumption DEF TableFor

-----------------------------------------------------------------------------
(* Steps that commit nothing: only the process that takes them is concerned. *)

\* Only p's transaction, place and settings change, and at most p's locks.
Alone(p) ==
    /\ UNCHANGED <<db, docs>>
    /\ own' = [q \in Procs |-> own'[q]]
    /\ \A q \in Procs \ {p} :
         /\ own'[q] = own[q]
         /\ pc'[q] = pc[q]
         /\ cfg'[q] = cfg[q]
         /\ globalLock = q => globalLock' = q

LEMMA StaysWithP ==
    ASSUME IInv, NEW p \in Procs, Alone(p),
           pc' \in [Procs -> InTransaction \cup Resting],
           cfg' \in [Procs -> Configs \cup {None}],
           Wrote(p)', Path(p)'
    PROVE  IInv'
<1>1. Types'
  BY DEF IInv, Types, Alone
<1>2. Catalog' /\ \A n \in Namespaces : Intact(n)'
  BY DEF IInv, Alone, Catalog, Intact, Manifest, Table, Extension, ManifestTable
<1>3. ASSUME NEW q \in Procs, q # p
      PROVE  Wrote(q)' /\ Path(q)'
  <2>1. /\ own'[q] = own[q] /\ pc'[q] = pc[q] /\ cfg'[q] = cfg[q]
        /\ db' = db /\ (globalLock = q => globalLock' = q)
    BY <1>3 DEF Alone
  <2>2. Wrote(q) /\ Path(q)
    BY DEF IInv
  <2>3. Wrote(q)'
    BY <2>1, <2>2 DEF Wrote, Ns, Extension, ManifestTable, Manifest, Table, TableFor
  <2>4. Path(q)'
    BY <2>1, <2>2 DEF Path, Ready, Stands, Built, Absent, Seen, Ns, Extension,
                      Manifest, Table
  <2> QED
    BY <2>3, <2>4
<1> QED
  BY <1>1, <1>2, <1>3 DEF IInv

\* A process that fails or dies leaves nothing behind.
LEMMA AbortKeeps ==
    ASSUME IInv, NEW p \in Procs, NEW to \in {"off", "failed"}, Aborts(p, to)
    PROVE  IInv'
<1>1. DOMAIN <<>> = {}
  OBVIOUS
<1>2. /\ own' = [own EXCEPT ![p] = <<>>] /\ pc' = [pc EXCEPT ![p] = to]
      /\ cfg' = [cfg EXCEPT ![p] = None] /\ UNCHANGED <<db, docs>>
      /\ globalLock' = IF globalLock = p THEN None ELSE globalLock
  BY DEF Aborts, FreesLocks, Move
<1>3. DOMAIN own'[p] = {} /\ pc'[p] = to
  BY <1>1, <1>2 DEF IInv, Types
<1>4. Alone(p)
  BY <1>2 DEF Alone, IInv, Types
<1>5. pc' \in [Procs -> InTransaction \cup Resting]
      /\ cfg' \in [Procs -> Configs \cup {None}]
  BY <1>2 DEF IInv, Types, Resting
<1>6. Wrote(p)'
  BY <1>3 DEF Wrote
<1>7. Path(p)'
  BY <1>3 DEF Path, Versioned, Held, Locked, InTransaction
<1> QED
  BY <1>4, <1>5, <1>6, <1>7, StaysWithP

\* A statement that only reads, or that finds what it would create.
LEMMA ReadKeeps ==
    ASSUME IInv, NEW p \in Procs, NEW to \in InTransaction \cup Resting,
           Move(p, to), UNCHANGED <<db, docs, globalLock, own, cfg>>,
           Wrote(p)', Path(p)'
    PROVE  IInv'
<1>1. Alone(p)
  BY DEF Alone, Move, IInv, Types
<1>2. pc' \in [Procs -> InTransaction \cup Resting]
      /\ cfg' \in [Procs -> Configs \cup {None}]
  BY DEF Move, IInv, Types
<1> QED
  BY <1>1, <1>2, StaysWithP

LEMMA WriteKeeps ==
    ASSUME IInv, NEW p \in Procs, NEW to \in InTransaction, NEW item, NEW value,
           Move(p, to), Writes(p, item, value), Wrote(p)', Path(p)'
    PROVE  IInv'
<1>1. /\ \A q \in Procs \ {p} : own'[q] = own[q]
      /\ own' = [q \in Procs |-> own'[q]]
      /\ UNCHANGED <<db, docs, globalLock, nsLock, cfg>>
  BY WritesOne DEF IInv
<1>2. Alone(p)
  BY <1>1 DEF Alone, Move, IInv, Types
<1>3. pc' \in [Procs -> InTransaction \cup Resting]
      /\ cfg' \in [Procs -> Configs \cup {None}]
  BY <1>1 DEF Move, IInv, Types
<1> QED
  BY <1>2, <1>3, StaysWithP

-----------------------------------------------------------------------------
(* The statements of one start. *)

LEMMA BeginsWell ==
    ASSUME IInv, NEW p \in Procs,
           Start(p) \/ TakesGlobalLock(p) \/ TakesNsLock(p)
    PROVE  IInv'
<1>1. Wrote(p) /\ Path(p)
  BY DEF IInv
<1>2. CASE Start(p)
  <2>1. pc'[p] = "global_lock" /\ cfg'[p] \in Configs
        /\ UNCHANGED <<db, docs, own, globalLock>>
        /\ cfg' \in [Procs -> Configs \cup {None}]
    BY <1>2 DEF Start, Move, IInv, Types, locks
  <2>2. pc[p] \notin Held /\ DOMAIN own[p] = {}
    BY <1>1, <1>2 DEF Start, Wrote, Held, Locked, InTransaction
  <2>3. Wrote(p)' /\ Path(p)'
    BY <2>1, <2>2 DEF Wrote, Path, Held, Locked, Versioned, InTransaction
  <2>4. Alone(p)
    BY <1>2, <2>1 DEF Start, Move, Alone, IInv, Types
  <2>5. pc' \in [Procs -> InTransaction \cup Resting]
    BY <1>2 DEF Start, Move, IInv, Types, InTransaction
  <2> QED
    BY <2>1, <2>3, <2>4, <2>5, StaysWithP
<1>3. CASE TakesGlobalLock(p)
  <2>1. pc'[p] = "ns_lock" /\ globalLock' = p /\ globalLock = None
        /\ pc[p] = "global_lock" /\ UNCHANGED <<db, docs, own, cfg>>
    BY <1>3 DEF TakesGlobalLock, Move, IInv, Types
  <2>2. Wrote(p)' /\ Path(p)'
    BY <1>1, <2>1 DEF Wrote, Path, Held, Locked, Versioned, InTransaction
  <2>3. Alone(p)
    BY <1>3, <2>1, NoneAssumption DEF TakesGlobalLock, Move, Alone, IInv, Types
  <2>4. pc' \in [Procs -> InTransaction \cup Resting]
    BY <1>3 DEF TakesGlobalLock, Move, IInv, Types, InTransaction
  <2>5. cfg' \in [Procs -> Configs \cup {None}]
    BY <2>1 DEF IInv, Types
  <2> QED
    BY <2>2, <2>3, <2>4, <2>5, StaysWithP
<1>4. CASE TakesNsLock(p)
  <2>1. pc'[p] = "extension" /\ pc[p] = "ns_lock" /\ Move(p, "extension")
        /\ UNCHANGED <<db, docs, own, cfg, globalLock>>
    BY <1>4 DEF TakesNsLock, Move, IInv, Types
  <2>2. Wrote(p)' /\ Path(p)'
    BY <1>1, <2>1 DEF Wrote, Path, Held, Locked, Versioned, InTransaction, TableFor
  <2> QED
    BY <2>1, <2>2, ReadKeeps DEF InTransaction
<1> QED
  BY <1>2, <1>3, <1>4

LEMMA ExtensionWell ==
    ASSUME IInv, NEW p \in Procs,
           \/ CreatesExtension(p)
           \/ HasVersion(p)
           \/ UpdatesExtension(p)
           \/ LacksVersion(p)
           \/ CreatesManifestTable(p)
    PROVE  IInv'
<1>1. Wrote(p) /\ Path(p) /\ pc \in [Procs -> InTransaction \cup Resting]
  BY DEF IInv, Types
<1>2. CASE CreatesExtension(p)
  <2>1. pc[p] = "extension" /\ Move(p, "version") /\ pc'[p] = "version"
    BY <1>1, <1>2 DEF CreatesExtension, Move
  <2>2. CASE Seen(p, Extension) = None
    <3>1. Writes(p, Extension, Package)
      BY <1>2, <2>2 DEF CreatesExtension
    <3>2. /\ DOMAIN own'[p] = DOMAIN own[p] \cup {Extension}
          /\ own'[p][Extension] = Package
          /\ \A i \in DOMAIN own[p] \ {Extension} : own'[p][i] = own[p][i]
          /\ UNCHANGED <<db, docs, globalLock, nsLock, cfg>>
      BY <3>1, WritesOne DEF IInv
    <3>3. db[Extension] = None
      BY <1>1, <2>2, AbsentAssumption, ExtensionAssumption DEF Seen, Wrote
    <3>4. Ns(p)' = Ns(p) /\ Manifest(Ns(p)) # Extension /\ Table(Ns(p)) # Extension
          /\ ManifestTable # Extension
      BY Keys, NsType DEF Ns
    <3>5. Wrote(p)'
      BY <1>1, <2>1, <3>2, <3>3, <3>4
         DEF Wrote, Held, Locked, InTransaction, TableFor, Manifest, Table,
             Extension, ManifestTable
    <3>6. Path(p)'
      BY <1>1, <2>1, <3>2 DEF Path, Versioned, Held, Locked, InTransaction
    <3> QED
      BY <2>1, <3>1, <3>5, <3>6, WriteKeeps DEF InTransaction
  <2>3. CASE Seen(p, Extension) # None
    <3>1. UNCHANGED <<db, docs, globalLock, own, cfg>>
      BY <1>2, <2>3 DEF CreatesExtension, locks
    <3>2. Wrote(p)' /\ Path(p)'
      BY <1>1, <2>1, <3>1
         DEF Wrote, Path, Held, Locked, Versioned, InTransaction, TableFor
    <3> QED
      BY <2>1, <3>1, <3>2, ReadKeeps DEF InTransaction
  <2> QED
    BY <2>2, <2>3
<1>3. CASE HasVersion(p)
  <2>1. /\ pc[p] = "version" /\ Move(p, "manifest_table")
        /\ pc'[p] = "manifest_table"
        /\ UNCHANGED <<db, docs, globalLock, own, cfg>>
        /\ ~NeedsNewer(p)
    BY <1>1, <1>3 DEF HasVersion, Reads, Move, locks
  <2>2. Wrote(p)'
    BY <1>1, <2>1 DEF Wrote, Held, Locked, InTransaction, TableFor
  <2>3. Path(p)'
    BY <1>1, <2>1
       DEF Path, Versioned, Held, Locked, InTransaction, NeedsNewer, Seen
  <2> QED
    BY <2>1, <2>2, <2>3, ReadKeeps DEF InTransaction
<1>4. CASE UpdatesExtension(p)
  <2>1. /\ pc[p] = "version" /\ Move(p, "manifest_table")
        /\ pc'[p] = "manifest_table"
        /\ Writes(p, Extension, Package) /\ Package = "new"
    BY <1>1, <1>4 DEF UpdatesExtension, Move
  <2>2. /\ DOMAIN own'[p] = DOMAIN own[p] \cup {Extension}
        /\ own'[p][Extension] = Package
        /\ \A i \in DOMAIN own[p] \ {Extension} : own'[p][i] = own[p][i]
        /\ UNCHANGED <<db, docs, globalLock, nsLock, cfg>>
    BY <2>1, WritesOne DEF IInv
  <2>3. Manifest(Ns(p)) # Extension /\ Table(Ns(p)) # Extension
        /\ ManifestTable # Extension
    BY Keys, NsType
  <2>4. Wrote(p)'
    BY <1>1, <2>1, <2>2, <2>3
       DEF Wrote, Held, Locked, InTransaction, TableFor, Ns, Manifest, Table,
           Extension, ManifestTable
  <2>5. Path(p)'
    BY <1>1, <2>1, <2>2
       DEF Path, Versioned, Held, Locked, InTransaction, Seen, Extension
  <2> QED
    BY <2>1, <2>4, <2>5, WriteKeeps DEF InTransaction
<1>5. CASE LacksVersion(p)
  BY <1>5, AbortKeeps DEF LacksVersion
<1>6. CASE CreatesManifestTable(p)
  <2>1. /\ pc[p] = "manifest_table" /\ Move(p, "manifest")
        /\ pc'[p] = "manifest"
    BY <1>1, <1>6 DEF CreatesManifestTable, Move
  <2>2. CASE Seen(p, ManifestTable)
    <3>1. UNCHANGED <<db, docs, globalLock, own, cfg>>
      BY <1>6, <2>2 DEF CreatesManifestTable, locks
    <3>2. Wrote(p)'
      BY <1>1, <2>1, <3>1 DEF Wrote, Held, Locked, InTransaction, TableFor
    <3>3. Path(p)'
      BY <1>1, <2>1, <3>1 DEF Path, Versioned, Held, Locked, InTransaction, Seen
    <3> QED
      BY <2>1, <3>1, <3>2, <3>3, ReadKeeps DEF InTransaction
  <2>3. CASE ~Seen(p, ManifestTable)
    <3>1. Writes(p, ManifestTable, TRUE)
      BY <1>6, <2>3 DEF CreatesManifestTable
    <3>2. /\ DOMAIN own'[p] = DOMAIN own[p] \cup {ManifestTable}
          /\ own'[p][ManifestTable] = TRUE
          /\ \A i \in DOMAIN own[p] \ {ManifestTable} : own'[p][i] = own[p][i]
          /\ UNCHANGED <<db, docs, globalLock, nsLock, cfg>>
      BY <3>1, WritesOne DEF IInv
    <3>3. Manifest(Ns(p)) # ManifestTable /\ Table(Ns(p)) # ManifestTable
          /\ ManifestTable # Extension
      BY Keys, NsType
    <3>4. Wrote(p)'
      BY <1>1, <2>1, <3>2, <3>3
         DEF Wrote, Held, Locked, InTransaction, TableFor, Ns, Manifest, Table,
             Extension, ManifestTable
    <3>5. Path(p)'
      BY <1>1, <2>1, <3>2, <3>3
         DEF Path, Versioned, Held, Locked, InTransaction, Seen, Extension,
             ManifestTable
    <3> QED
      BY <2>1, <3>1, <3>4, <3>5, WriteKeeps DEF InTransaction
  <2> QED
    BY <2>2, <2>3
<1> QED
  BY <1>2, <1>3, <1>4, <1>5, <1>6

\* Up to the point where the table is created, p sees of its namespace what
\* is committed.
LEMMA SeesCommitted ==
    ASSUME IInv, NEW p \in Procs, pc[p] \in {"manifest", "validate", "adopt"}
    PROVE  /\ Manifest(Ns(p)) \notin DOMAIN own[p]
           /\ Table(Ns(p)) \notin DOMAIN own[p]
           /\ Seen(p, Manifest(Ns(p))) = db[Manifest(Ns(p))]
           /\ Seen(p, Table(Ns(p))) = db[Table(Ns(p))]
BY DEF IInv, Wrote, Seen

LEMMA FittingIsBuilt ==
    ASSUME NEW p \in Procs, cfg[p] \in Configs, Fits(p),
           Seen(p, Table(Ns(p))) = db[Table(Ns(p))]
    PROVE  Built(p)
<1>1. db[Table(Ns(p))] = TableFor(cfg[p], TRUE)
  BY DEF Fits
<1>2. /\ TableFor(cfg[p], TRUE) # None
      /\ TableFor(cfg[p], TRUE).column = ShapeOf[cfg[p]]
  BY TablesExist
<1> QED
  BY <1>1, <1>2 DEF Built

LEMMA DecidesWell ==
    ASSUME IInv, NEW p \in Procs,
           ReadsManifest(p) \/ Validates(p) \/ Adopts(p)
    PROVE  IInv'
<1>1. Wrote(p) /\ Path(p) /\ pc \in [Procs -> InTransaction \cup Resting]
  BY DEF IInv, Types
<1>2. Ns(p) \in Namespaces
  BY NsType
<1>3. CASE ReadsManifest(p)
  <2>1. pc[p] = "manifest"
    BY <1>3 DEF ReadsManifest
  <2>2. /\ Manifest(Ns(p)) \notin DOMAIN own[p] /\ Table(Ns(p)) \notin DOMAIN own[p]
        /\ Seen(p, Manifest(Ns(p))) = db[Manifest(Ns(p))]
        /\ Seen(p, Table(Ns(p))) = db[Table(Ns(p))]
    BY <2>1, SeesCommitted
  <2>3. ASSUME NEW to \in {"create_table", "adopt", "validate"}, Move(p, to),
               UNCHANGED <<db, docs, globalLock, own, cfg>>,
               to = "create_table" => Absent(Ns(p)),
               to = "adopt" => db[Manifest(Ns(p))] = None /\ db[Table(Ns(p))] # None,
               to = "validate" => db[Manifest(Ns(p))] = cfg[p]
        PROVE  IInv'
    <3>1. pc'[p] = to
      BY <1>1, <2>3 DEF Move
    <3>2. Wrote(p)'
      BY <1>1, <2>1, <2>2, <2>3, <3>1
         DEF Wrote, Held, Locked, InTransaction, Ns, Manifest, Table, Extension,
             ManifestTable
    <3>3. Path(p)'
      BY <1>1, <2>1, <2>3, <3>1
         DEF Path, Versioned, Held, Locked, InTransaction, Absent, Ns, Manifest,
             Table, Seen, Extension
    <3> QED
      BY <2>3, <3>2, <3>3, ReadKeeps DEF InTransaction
  <2>4. CASE db[Manifest(Ns(p))] = None /\ db[Table(Ns(p))] = None
    <3>1. Move(p, "create_table") /\ UNCHANGED <<db, docs, globalLock, own, cfg>>
      BY <1>3, <2>2, <2>4 DEF ReadsManifest, locks
    <3> QED
      BY <2>3, <2>4, <3>1 DEF Absent
  <2>5. CASE db[Manifest(Ns(p))] = None /\ db[Table(Ns(p))] # None
    <3>1. Move(p, "adopt") /\ UNCHANGED <<db, docs, globalLock, own, cfg>>
      BY <1>3, <2>2, <2>5 DEF ReadsManifest, locks
    <3> QED
      BY <2>3, <2>5, <3>1
  <2>6. CASE db[Manifest(Ns(p))] # None /\ db[Manifest(Ns(p))] = cfg[p]
    <3>1. Move(p, "validate") /\ UNCHANGED <<db, docs, globalLock, own, cfg>>
      BY <1>3, <2>2, <2>6 DEF ReadsManifest, locks, SameConfig
    <3> QED
      BY <2>3, <2>6, <3>1
  <2>7. CASE db[Manifest(Ns(p))] # None /\ db[Manifest(Ns(p))] # cfg[p]
    <3>1. Aborts(p, "failed")
      BY <1>3, <2>2, <2>7 DEF ReadsManifest, SameConfig
    <3> QED
      BY <3>1, AbortKeeps
  <2> QED
    BY <2>4, <2>5, <2>6, <2>7
<1>4. CASE Validates(p)
  <2>1. pc[p] = "validate"
    BY <1>4 DEF Validates
  <2>2. /\ Manifest(Ns(p)) \notin DOMAIN own[p] /\ Table(Ns(p)) \notin DOMAIN own[p]
        /\ Seen(p, Table(Ns(p))) = db[Table(Ns(p))]
    BY <2>1, SeesCommitted
  <2>3. CASE Fits(p)
    <3>1. /\ Move(p, "commit") /\ pc'[p] = "commit"
          /\ UNCHANGED <<db, docs, globalLock, own, cfg>>
      BY <1>1, <1>4, <2>3 DEF Validates, Move, locks
    <3>2. cfg[p] \in Configs /\ db[Manifest(Ns(p))] = cfg[p]
      BY <1>1, <2>1 DEF Path, InTransaction
    <3>3. Built(p)
      BY <2>2, <2>3, <3>2, FittingIsBuilt
    <3>4. Wrote(p)'
      BY <1>1, <2>1, <2>2, <3>1
         DEF Wrote, Held, Locked, InTransaction, Ns, Manifest, Table, Extension,
             ManifestTable
    <3>5. Ready(p)'
      BY <2>2, <3>1, <3>2, <3>3 DEF Ready, Stands, Built, Ns, Manifest, Table
    <3>6. Path(p)'
      BY <1>1, <2>1, <3>1, <3>5
         DEF Path, Versioned, Held, Locked, InTransaction, Seen, Extension
    <3> QED
      BY <3>1, <3>4, <3>6, ReadKeeps DEF InTransaction
  <2>4. CASE ~Fits(p)
    BY <1>4, <2>4, AbortKeeps DEF Validates
  <2> QED
    BY <2>3, <2>4
<1>5. CASE Adopts(p)
  <2>1. pc[p] = "adopt"
    BY <1>5 DEF Adopts
  <2>2. /\ Manifest(Ns(p)) \notin DOMAIN own[p] /\ Table(Ns(p)) \notin DOMAIN own[p]
        /\ Seen(p, Table(Ns(p))) = db[Table(Ns(p))]
    BY <2>1, SeesCommitted
  <2>3. CASE MayAdopt(p)
    <3>1. /\ Writes(p, Manifest(Ns(p)), cfg[p])
          /\ Move(p, "commit") /\ pc'[p] = "commit"
      BY <1>1, <1>5, <2>3 DEF Adopts, Move
    <3>2. /\ DOMAIN own'[p] = DOMAIN own[p] \cup {Manifest(Ns(p))}
          /\ own'[p][Manifest(Ns(p))] = cfg[p]
          /\ \A i \in DOMAIN own[p] \ {Manifest(Ns(p))} : own'[p][i] = own[p][i]
          /\ UNCHANGED <<db, docs, globalLock, nsLock, cfg>>
      BY <3>1, WritesOne DEF IInv
    <3>3. cfg[p] \in Configs /\ db[Manifest(Ns(p))] = None
      BY <1>1, <2>1 DEF Path, InTransaction
    <3>4. Built(p) /\ cfg[p] \in Adoptable
      BY <2>2, <2>3, <3>3, FittingIsBuilt DEF MayAdopt
    <3>5. /\ Manifest(Ns(p)) # Extension /\ Manifest(Ns(p)) # ManifestTable
          /\ Manifest(Ns(p)) # Table(Ns(p))
      BY <1>2, Keys
    <3>6. Wrote(p)'
      BY <1>1, <2>1, <2>2, <3>1, <3>2, <3>5
         DEF Wrote, Held, Locked, InTransaction, Ns, Manifest, Table, Extension,
             ManifestTable
    <3>7. Ready(p)'
      BY <2>2, <3>1, <3>2, <3>3, <3>4, <3>5 DEF Ready, Built, Ns, Manifest, Table
    <3>8. Path(p)'
      BY <1>1, <2>1, <3>1, <3>2, <3>5, <3>7
         DEF Path, Versioned, Held, Locked, InTransaction, Seen, Extension
    <3> QED
      BY <3>1, <3>6, <3>8, WriteKeeps DEF InTransaction
  <2>4. CASE ~MayAdopt(p)
    BY <1>5, <2>4, AbortKeeps DEF Adopts
  <2> QED
    BY <2>3, <2>4
<1> QED
  BY <1>3, <1>4, <1>5

LEMMA CreatesWell ==
    ASSUME IInv, NEW p \in Procs,
           CreatesTable(p) \/ CreatesIndexes(p) \/ WritesManifest(p)
    PROVE  IInv'
<1>1. Wrote(p) /\ Path(p) /\ pc \in [Procs -> InTransaction \cup Resting]
  BY DEF IInv, Types
<1>2. /\ Manifest(Ns(p)) # Extension /\ Manifest(Ns(p)) # ManifestTable
      /\ Manifest(Ns(p)) # Table(Ns(p))
      /\ Table(Ns(p)) # Extension /\ Table(Ns(p)) # ManifestTable
      /\ Extension # ManifestTable
  BY Keys, NsType
<1>3. pc[p] \in {"create_table", "create_indexes", "write_manifest"}
  BY DEF CreatesTable, CreatesIndexes, WritesManifest
<1>4. Absent(Ns(p)) /\ Manifest(Ns(p)) \notin DOMAIN own[p]
  BY <1>1, <1>3 DEF Path, Wrote
<1>5. ASSUME NEW to \in {"create_indexes", "write_manifest"},
             Move(p, to),
             Writes(p, Table(Ns(p)), TableFor(cfg[p], to # "create_indexes"))
      PROVE  IInv'
  <2>1. pc'[p] = to
    BY <1>1, <1>5 DEF Move
  <2>2. /\ DOMAIN own'[p] = DOMAIN own[p] \cup {Table(Ns(p))}
        /\ own'[p][Table(Ns(p))] = TableFor(cfg[p], to # "create_indexes")
        /\ \A i \in DOMAIN own[p] \ {Table(Ns(p))} : own'[p][i] = own[p][i]
        /\ UNCHANGED <<db, docs, globalLock, nsLock, cfg>>
    BY <1>5, WritesOne DEF IInv
  <2>3. Wrote(p)'
    BY <1>1, <1>2, <1>3, <1>4, <2>1, <2>2
       DEF Wrote, Held, Locked, InTransaction, Ns, Manifest, Table, Extension,
           ManifestTable, TableFor
  <2>4. Path(p)'
    BY <1>1, <1>2, <1>3, <1>4, <2>1, <2>2
       DEF Path, Versioned, Held, Locked, InTransaction, Seen, Absent, Ns,
           Manifest, Table, Extension
  <2> QED
    BY <1>5, <2>3, <2>4, WriteKeeps DEF InTransaction
<1>6. CASE CreatesTable(p)
  BY <1>5, <1>6 DEF CreatesTable
<1>7. CASE CreatesIndexes(p)
  BY <1>5, <1>7 DEF CreatesIndexes
<1>8. CASE WritesManifest(p)
  <2>1. /\ pc[p] = "write_manifest" /\ Move(p, "commit") /\ pc'[p] = "commit"
        /\ Writes(p, Manifest(Ns(p)), cfg[p])
    BY <1>1, <1>8 DEF WritesManifest, Move
  <2>2. /\ DOMAIN own'[p] = DOMAIN own[p] \cup {Manifest(Ns(p))}
        /\ own'[p][Manifest(Ns(p))] = cfg[p]
        /\ \A i \in DOMAIN own[p] \ {Manifest(Ns(p))} : own'[p][i] = own[p][i]
        /\ UNCHANGED <<db, docs, globalLock, nsLock, cfg>>
    BY <2>1, WritesOne DEF IInv
  <2>3. Table(Ns(p)) \in DOMAIN own[p]
    BY <1>1, <2>1 DEF Path
  <2>4. Wrote(p)'
    BY <1>1, <1>2, <2>1, <2>2, <2>3
       DEF Wrote, Held, Locked, InTransaction, Ns, Manifest, Table, Extension,
           ManifestTable, TableFor
  <2>5. Ready(p)'
    BY <1>4, <2>2, <2>3 DEF Ready, Absent, Ns, Manifest, Table
  <2>6. Path(p)'
    BY <1>1, <1>2, <2>1, <2>2, <2>5
       DEF Path, Versioned, Held, Locked, InTransaction, Seen, Extension
  <2> QED
    BY <2>1, <2>4, <2>6, WriteKeeps DEF InTransaction
<1> QED
  BY <1>6, <1>7, <1>8

-----------------------------------------------------------------------------
(* The commit: whoever reaches it holds the global lock alone. *)

LEMMA CommitKeeps ==
    ASSUME IInv, NEW p \in Procs, Commits(p)
    PROVE  /\ IInv'
           /\ pc'[p] = "committed" /\ cfg' = cfg
<1> DEFINE n == Ns(p)
<1>1. Wrote(p) /\ Path(p) /\ pc \in [Procs -> InTransaction \cup Resting]
      /\ n \in Namespaces /\ Catalog /\ Types
  BY NsType DEF IInv, Types
<1>2. /\ pc[p] = "commit" /\ pc'[p] = "committed"
      /\ UNCHANGED <<docs, cfg>>
      /\ db' = [item \in Items |-> Seen(p, item)]
      /\ own' = [own EXCEPT ![p] = <<>>]
      /\ pc' = [pc EXCEPT ![p] = "committed"]
      /\ globalLock' = IF globalLock = p THEN None ELSE globalLock
  BY <1>1 DEF Commits, FreesLocks, Move
<1>3. /\ Ready(p) /\ globalLock = p /\ cfg[p] \in Configs
      /\ (cfg[p] \in Large => Seen(p, Extension) = "new")
  BY <1>1, <1>2 DEF Path, Locked, Versioned, Held, InTransaction
<1>4. DOMAIN <<>> = {}
  OBVIOUS
<1>5. own' = [q \in Procs |-> own'[q]] /\ DOMAIN own'[p] = {}
      /\ \A q \in Procs \ {p} :
           own'[q] = own[q] /\ pc'[q] = pc[q] /\ cfg'[q] = cfg[q]
  BY <1>1, <1>2, <1>4 DEF Types
<1>6. \A q \in Procs \ {p} : pc[q] \notin Locked /\ DOMAIN own[q] = {}
  BY <1>3 DEF IInv, Path, Wrote, Held
<1>7. Types'
  BY <1>1, <1>2, <1>5 DEF Types, InTransaction
<1>8. \A m \in Namespaces \ {n} :
         db'[Manifest(m)] = db[Manifest(m)] /\ db'[Table(m)] = db[Table(m)]
  BY <1>1, <1>2, Keys DEF Wrote, Seen
<1>9. /\ db'[Extension] = Seen(p, Extension)
      /\ db'[ManifestTable] = Seen(p, ManifestTable)
      /\ db'[Manifest(n)] = Seen(p, Manifest(n))
      /\ db'[Table(n)] = Seen(p, Table(n))
  BY <1>1, <1>2, Keys
<1>10. /\ db'[Extension] \in {None, "old", "new"}
       /\ (db[Extension] = "new" => db'[Extension] = "new")
  BY <1>1, <1>9, ExtensionAssumption, AbsentAssumption DEF Catalog, Wrote, Seen
<1>11. db'[ManifestTable] \in BOOLEAN
  BY <1>1, <1>9 DEF Catalog, Wrote, Seen
<1>12. /\ db'[Manifest(n)] = cfg[p]
       /\ db'[Table(n)] # None /\ db'[Table(n)].column = ShapeOf[cfg[p]]
       /\ db'[Table(n)] \in [column : Shapes, indexed : BOOLEAN]
  <2>1. CASE Manifest(n) \notin DOMAIN own[p] /\ Table(n) \notin DOMAIN own[p]
             /\ Stands(p)
    BY <1>1, <1>9, <2>1 DEF Seen, Stands, Built, Catalog
  <2>2. CASE Manifest(n) \in DOMAIN own[p] /\ Table(n) \notin DOMAIN own[p]
             /\ Built(p)
    BY <1>1, <1>9, <2>2 DEF Seen, Built, Catalog, Wrote
  <2>3. CASE Manifest(n) \in DOMAIN own[p] /\ Table(n) \in DOMAIN own[p]
    <3>1. db'[Manifest(n)] = cfg[p] /\ db'[Table(n)] = TableFor(cfg[p], TRUE)
      BY <1>1, <1>2, <1>9, <2>3 DEF Seen, Wrote
    <3>2. /\ TableFor(cfg[p], TRUE) # None
          /\ TableFor(cfg[p], TRUE).column = ShapeOf[cfg[p]]
          /\ TableFor(cfg[p], TRUE) \in [column : Shapes, indexed : BOOLEAN]
      BY <1>3, TablesExist
    <3> QED
      BY <3>1, <3>2
  <2> QED
    BY <1>3, <2>1, <2>2, <2>3 DEF Ready
<1>13. Catalog'
  BY <1>1, <1>3, <1>8, <1>10, <1>11, <1>12
     DEF Catalog, Extension, ManifestTable, Manifest, Table
<1>14. ASSUME NEW m \in Namespaces
       PROVE  Intact(m)'
  <2>1. CASE m = n
    BY <1>3, <1>12, <2>1, NoneAssumption DEF Intact, Manifest, Table, Ns
  <2>2. CASE m # n
    BY <1>2, <1>8, <2>2 DEF IInv, Intact, Manifest, Table
  <2> QED
    BY <2>1, <2>2
<1>15. Wrote(p)'
  BY <1>2, <1>5 DEF Wrote
<1>16. Path(p)'
  <2>1. Stands(p)'
    BY <1>2, <1>12 DEF Stands, Built, Ns, Manifest, Table
  <2>2. cfg[p] \in Large => Seen(p, Extension)' = "new"
    BY <1>3, <1>5, <1>9 DEF Seen, Extension
  <2> QED
    BY <1>2, <1>3, <2>1, <2>2
       DEF Path, Versioned, Held, Locked, InTransaction, Extension, Seen
<1>17. ASSUME NEW q \in Procs, q # p
       PROVE  Wrote(q)' /\ Path(q)'
  <2>1. /\ own'[q] = own[q] /\ pc'[q] = pc[q] /\ cfg'[q] = cfg[q]
        /\ pc[q] \notin Locked /\ DOMAIN own[q] = {}
        /\ Wrote(q) /\ Path(q) /\ Ns(q) \in Namespaces
    BY <1>5, <1>6, <1>17, NsType DEF IInv
  <2>2. Wrote(q)'
    BY <2>1 DEF Wrote
  <2>3. CASE pc[q] \in {"committed", "up"}
    <3>1. Stands(q) /\ cfg[q] \in Configs
      BY <2>1, <2>3 DEF Path, InTransaction
    <3>2. db'[Manifest(Ns(q))] = db[Manifest(Ns(q))]
          /\ db'[Table(Ns(q))] = db[Table(Ns(q))]
      <4>1. CASE Ns(q) # n
        BY <1>8, <2>1, <4>1
      <4>2. CASE Ns(q) = n
        <5>1. db[Manifest(n)] # None
          BY <3>1, <4>2, NoneAssumption DEF Stands
        <5>2. Manifest(n) \notin DOMAIN own[p] /\ Table(n) \notin DOMAIN own[p]
          BY <1>3, <5>1 DEF Ready, Absent
        <5> QED
          BY <1>9, <4>2, <5>2 DEF Seen
      <4> QED
        BY <4>1, <4>2
    <3>3. Stands(q)'
      BY <2>1, <3>1, <3>2 DEF Stands, Built, Ns, Manifest, Table
    <3>4. cfg[q] \in Large => Seen(q, Extension)' = "new"
      BY <1>10, <2>1, <2>3
         DEF Path, Seen, Versioned, Held, Locked, InTransaction, Extension
    <3> QED
      BY <2>1, <2>2, <2>3, <3>1, <3>3, <3>4
         DEF Path, Locked, InTransaction, Versioned, Held, Extension, Seen
  <2>4. CASE pc[q] \notin {"committed", "up"}
    <3>1. pc'[q] \notin Versioned
      BY <2>1, <2>4 DEF Versioned, Held
    <3>2. Path(q)'
      BY <2>1, <2>4, <3>1 DEF Path, Locked, InTransaction
    <3> QED
      BY <2>2, <3>2
  <2> QED
    BY <2>3, <2>4
<1> QED
  BY <1>2, <1>7, <1>13, <1>14, <1>15, <1>16, <1>17 DEF IInv

-----------------------------------------------------------------------------
(* A process that is up, and the operator. *)

LEMMA ServesWell ==
    ASSUME IInv, NEW p \in Procs, ComesUp(p) \/ Embed(p) \/ Crash(p) \/ GivesUp(p)
    PROVE  IInv'
<1>1. Wrote(p) /\ Path(p) /\ Types
  BY DEF IInv
<1>2. CASE ComesUp(p)
  <2>1. /\ pc[p] = "committed" /\ Move(p, "up") /\ pc'[p] = "up"
        /\ UNCHANGED <<db, docs, globalLock, own, cfg>>
    BY <1>1, <1>2 DEF ComesUp, Reads, Move, locks, Types
  <2>2. DOMAIN own[p] = {}
    BY <1>1, <2>1 DEF Wrote, Held, Locked
  <2>3. Wrote(p)'
    BY <2>1, <2>2 DEF Wrote
  <2>4. Path(p)'
    BY <1>1, <2>1
       DEF Path, Versioned, Held, Locked, InTransaction, Stands, Built, Ns,
           Manifest, Table, Seen, Extension
  <2> QED
    BY <2>1, <2>3, <2>4, ReadKeeps DEF Resting
<1>3. CASE Embed(p)
  <2>1. /\ pc[p] = "up" /\ docs' = [docs EXCEPT ![Ns(p)] = @ \cup {cfg[p]}]
        /\ UNCHANGED <<db, globalLock, own, pc, cfg>>
    BY <1>3 DEF Embed, locks
  <2>2. /\ cfg[p] \in Configs /\ db[Table(Ns(p))] # None
        /\ Ns(p) \in Namespaces
    BY <1>1, <2>1, NsType DEF Path, Stands, Built
  <2>3. Types'
    BY <1>1, <2>1, <2>2 DEF Types
  <2>4. Catalog'
    BY <2>1 DEF IInv, Catalog, Extension, ManifestTable, Manifest, Table
  <2>5. ASSUME NEW m \in Namespaces
        PROVE  Intact(m)'
    <3>1. Intact(m) /\ (m # Ns(p) => docs'[m] = docs[m])
      BY <1>1, <2>1 DEF IInv, Types
    <3> QED
      BY <2>1, <2>2, <3>1 DEF Intact, Manifest, Table
  <2>6. ASSUME NEW q \in Procs
        PROVE  Wrote(q)' /\ Path(q)'
    <3>1. Wrote(q) /\ Path(q)
      BY DEF IInv
    <3>2. Wrote(q)'
      BY <2>1, <3>1
         DEF Wrote, Ns, Extension, ManifestTable, Manifest, Table, TableFor
    <3>3. Path(q)'
      BY <2>1, <3>1 DEF Path, Ready, Stands, Built, Absent, Seen, Ns, Extension,
                        Manifest, Table
    <3> QED
      BY <3>2, <3>3
  <2> QED
    BY <2>3, <2>4, <2>5, <2>6 DEF IInv
<1>4. CASE Crash(p)
  BY <1>4, AbortKeeps DEF Crash
<1>5. CASE GivesUp(p)
  BY <1>5, AbortKeeps DEF GivesUp
<1> QED
  BY <1>2, <1>3, <1>4, <1>5

\* What the operator does to a namespace while nobody is at work on it leaves
\* the processes of the others as they are.
LEMMA OperatorKeeps ==
    ASSUME IInv, NEW n \in Namespaces, Stopped(n),
           UNCHANGED <<locks, own, pc, cfg>>,
           db' = [i \in Items |-> db'[i]],
           db'[Extension] = db[Extension],
           db'[ManifestTable] = db[ManifestTable],
           \A m \in Namespaces \ {n} :
             /\ db'[Manifest(m)] = db[Manifest(m)]
             /\ db'[Table(m)] = db[Table(m)]
             /\ docs'[m] = docs[m],
           docs' \in [Namespaces -> SUBSET Configs],
           db'[Manifest(n)] \in Configs \cup {None},
           db'[Table(n)] \in [column : Shapes, indexed : BOOLEAN] \cup {None},
           Intact(n)'
    PROVE  IInv'
<1>1. Types' /\ globalLock' = globalLock
  BY DEF IInv, Types, locks
<1>2. Catalog'
  BY DEF IInv, Catalog, Extension, ManifestTable, Manifest, Table
<1>3. \A m \in Namespaces : Intact(m)'
  BY DEF IInv, Intact, Manifest, Table
<1>4. ASSUME NEW q \in Procs
      PROVE  Wrote(q)' /\ Path(q)'
  <2>1. /\ Wrote(q) /\ Path(q) /\ Ns(q) \in Namespaces
        /\ pc[q] \in InTransaction \cup Resting
    BY NsType DEF IInv, Types
  <2>2. CASE Ns(q) = n
    <3>1. pc[q] \in {"off", "failed"}
      BY <2>1, <2>2 DEF Stopped, Resting
    <3>2. Wrote(q)'
      BY <2>1, <3>1 DEF Wrote, Held, Locked, InTransaction
    <3>3. Path(q)'
      BY <3>1 DEF Path, Versioned, Held, Locked, InTransaction
    <3> QED
      BY <3>2, <3>3
  <2>3. CASE Ns(q) # n
    <3>1. Wrote(q)'
      BY <2>1
         DEF Wrote, Ns, Extension, ManifestTable, Manifest, Table, TableFor
    <3>2. Path(q)'
      BY <1>1, <2>1, <2>3 DEF Path, Ready, Stands, Built, Absent, Seen, Ns,
                              Extension, Manifest, Table
    <3> QED
      BY <3>1, <3>2
  <2> QED
    BY <2>2, <2>3
<1> QED
  BY <1>1, <1>2, <1>3, <1>4 DEF IInv

LEMMA ResetKeeps ==
    ASSUME IInv, NEW n \in Namespaces, Reset(n)
    PROVE  IInv'
<1>1. PICK certified \in {db[Manifest(n)], None} :
         db' = [db EXCEPT ![Table(n)] = None, ![Manifest(n)] = certified]
  BY DEF Reset
<1>2. Stopped(n) /\ docs' = [docs EXCEPT ![n] = {}]
      /\ UNCHANGED <<locks, own, pc, cfg>>
  BY DEF Reset
<1>3. db = [i \in Items |-> db[i]] /\ docs \in [Namespaces -> SUBSET Configs]
      /\ Catalog
  BY DEF IInv, Types
<1>4. /\ db' = [i \in Items |-> db'[i]]
      /\ db'[Extension] = db[Extension]
      /\ db'[ManifestTable] = db[ManifestTable]
      /\ db'[Manifest(n)] = certified
      /\ db'[Table(n)] = None
      /\ \A m \in Namespaces \ {n} :
           db'[Manifest(m)] = db[Manifest(m)] /\ db'[Table(m)] = db[Table(m)]
  BY <1>1, <1>3, Keys
<1>5. /\ docs' \in [Namespaces -> SUBSET Configs] /\ docs'[n] = {}
      /\ \A m \in Namespaces \ {n} : docs'[m] = docs[m]
  BY <1>2, <1>3
<1>6. Intact(n)'
  BY <1>4, <1>5 DEF Intact, Manifest, Table
<1>7. certified \in Configs \cup {None}
  BY <1>1, <1>3 DEF Catalog
<1> QED
  BY <1>2, <1>4, <1>5, <1>6, <1>7, OperatorKeeps

\* A rebuild or a lost index changes the table only in whether it is indexed.
LEMMA Reindexed ==
    ASSUME Catalog, NEW n \in Namespaces, db[Table(n)] # None, NEW b \in BOOLEAN
    PROVE  LET table == [db[Table(n)] EXCEPT !.indexed = b] IN
             /\ table.column = db[Table(n)].column
             /\ table \in [column : Shapes, indexed : BOOLEAN]
BY DEF Catalog

LEMMA RebuildKeeps ==
    ASSUME IInv, NEW n \in Namespaces, Rebuild(n)
    PROVE  IInv'
<1> DEFINE table == [db[Table(n)] EXCEPT !.indexed = TRUE]
<1>1. /\ Stopped(n) /\ UNCHANGED <<docs, locks, own, pc, cfg>>
      /\ db[Manifest(n)] \in Adoptable /\ db[Table(n)] # None
      /\ db' = [db EXCEPT ![Table(n)] = table, ![Manifest(n)] = None]
  BY DEF Rebuild
<1>2. db = [i \in Items |-> db[i]] /\ docs \in [Namespaces -> SUBSET Configs]
      /\ Catalog /\ Intact(n)
  BY DEF IInv, Types
<1>3. /\ table.column = db[Table(n)].column
      /\ table \in [column : Shapes, indexed : BOOLEAN]
  BY <1>1, <1>2, Reindexed
<1> HIDE DEF table
<1>4. /\ db' = [i \in Items |-> db'[i]]
      /\ db'[Extension] = db[Extension]
      /\ db'[ManifestTable] = db[ManifestTable]
      /\ db'[Manifest(n)] = None
      /\ db'[Table(n)] = table
      /\ \A m \in Namespaces \ {n} :
           db'[Manifest(m)] = db[Manifest(m)] /\ db'[Table(m)] = db[Table(m)]
  BY <1>1, <1>2, Keys
<1>5. db[Table(n)].column \in {ShapeOf[c] : c \in Adoptable}
  <2>1. db[Manifest(n)] # None
    BY <1>1, NoneAssumption, AdoptableAssumption
  <2>2. db[Table(n)].column = ShapeOf[db[Manifest(n)]]
    BY <1>1, <1>2, <2>1 DEF Intact
  <2> QED
    BY <1>1, <2>2
<1>6. Intact(n)'
  <2>1. db'[Table(n)] # None
    BY <1>3, <1>4, AbsentAssumption
  <2>2. db'[Table(n)].column \in {ShapeOf[c] : c \in Adoptable}
    BY <1>3, <1>4, <1>5
  <2> QED
    BY <1>4, <2>1, <2>2 DEF Intact, Manifest, Table
<1> QED
  BY <1>1, <1>2, <1>3, <1>4, <1>6, OperatorKeeps

LEMMA DropIndexKeeps ==
    ASSUME IInv, NEW n \in Namespaces, DropIndex(n)
    PROVE  IInv'
<1> DEFINE table == [db[Table(n)] EXCEPT !.indexed = FALSE]
<1>1. /\ UNCHANGED <<docs, globalLock, own, pc, cfg>>
      /\ db[Table(n)] # None
      /\ db' = [db EXCEPT ![Table(n)] = table]
  BY DEF DropIndex, locks
<1>2. db = [i \in Items |-> db[i]] /\ docs \in [Namespaces -> SUBSET Configs]
      /\ Catalog /\ Intact(n)
  BY DEF IInv, Types
<1>3. /\ table.column = db[Table(n)].column
      /\ table \in [column : Shapes, indexed : BOOLEAN]
      /\ table # None
  BY <1>1, <1>2, Reindexed, AbsentAssumption
<1> HIDE DEF table
<1>4. /\ db' = [i \in Items |-> db'[i]]
      /\ db'[Extension] = db[Extension]
      /\ db'[ManifestTable] = db[ManifestTable]
      /\ db'[Table(n)] = table
      /\ \A m \in Namespaces : db'[Manifest(m)] = db[Manifest(m)]
      /\ \A m \in Namespaces \ {n} : db'[Table(m)] = db[Table(m)]
  BY <1>1, <1>2, Keys
<1>5. \A m \in Namespaces :
        /\ db'[Table(m)] = None <=> db[Table(m)] = None
        /\ db[Table(m)] # None => db'[Table(m)].column = db[Table(m)].column
  BY <1>1, <1>3, <1>4
<1>6. Types'
  BY <1>1, <1>4 DEF IInv, Types
<1>7. Catalog'
  BY <1>1, <1>2, <1>3, <1>4 DEF Catalog, Extension, ManifestTable, Manifest, Table
<1>8. ASSUME NEW m \in Namespaces
      PROVE  Intact(m)'
  <2>1. Intact(m)
    BY DEF IInv
  <2> QED
    BY <1>1, <1>4, <1>5, <2>1 DEF Intact, Manifest, Table
<1>9. ASSUME NEW q \in Procs
      PROVE  Wrote(q)' /\ Path(q)'
  <2>1. Wrote(q) /\ Path(q) /\ Ns(q) \in Namespaces
    BY NsType DEF IInv
  <2>2. Wrote(q)'
    BY <1>1, <1>4, <2>1
       DEF Wrote, Ns, Extension, ManifestTable, Manifest, Table, TableFor
  <2>3. /\ db'[Manifest(Ns(q))] = db[Manifest(Ns(q))]
        /\ db'[Table(Ns(q))] = None <=> db[Table(Ns(q))] = None
        /\ db[Table(Ns(q))] # None =>
             db'[Table(Ns(q))].column = db[Table(Ns(q))].column
    BY <1>4, <1>5, <2>1
  <2>4. Path(q)'
    BY <1>1, <1>4, <2>1, <2>3 DEF Path, Ready, Stands, Built, Absent, Seen, Ns,
                              Extension, Manifest, Table
  <2> QED
    BY <2>2, <2>4
<1> QED
  BY <1>6, <1>7, <1>8, <1>9 DEF IInv

\* The catalog of a store that begins, with or without extension and rows.
Beginning(extension, legacy, c) ==
    /\ legacy # {} => c \in Adoptable /\ extension # None
    /\ db = [i \in Items |->
               CASE i = Extension -> extension
                 [] i = ManifestTable -> FALSE
                 [] i[1] = "table" /\ i[2] \in legacy -> TableFor(c, TRUE)
                 [] OTHER -> None]
    /\ docs = [n \in Namespaces |-> IF n \in legacy THEN {c} ELSE {}]
    /\ lacking = [n \in Namespaces |-> IF n \in legacy THEN {"manifest"} ELSE {}]

LEMMA Begins ==
    ASSUME Init
    PROVE  \E extension \in {None, "old", "new"}, legacy \in SUBSET Namespaces,
              c \in Configs : Beginning(extension, legacy, c)
BY DEF Init, Beginning

LEMMA InitIInv == Init => IInv
<1> SUFFICES ASSUME Init PROVE IInv
  OBVIOUS
<1>1. PICK extension \in {None, "old", "new"}, legacy \in SUBSET Namespaces,
           c \in Configs : Beginning(extension, legacy, c)
  BY Begins
<1>2. db[Extension] = extension /\ db[ManifestTable] = FALSE
  BY <1>1, Keys DEF Beginning, Extension, ManifestTable
<1>3. ASSUME NEW n \in Namespaces
      PROVE  /\ db[Manifest(n)] = None
             /\ db[Table(n)] = IF n \in legacy THEN TableFor(c, TRUE) ELSE None
  BY <1>1, <1>3, Keys DEF Beginning, Extension, ManifestTable, Manifest, Table
<1>4. Types
  <2>1. pc = [p \in Procs |-> "off"] /\ cfg = [p \in Procs |-> None]
        /\ own = [p \in Procs |-> <<>>]
    BY DEF Init
  <2> QED
    BY <1>1, <2>1 DEF Beginning, Types, Resting
<1>5. Catalog
  BY <1>2, <1>3, TablesExist DEF Catalog
<1>6. ASSUME NEW n \in Namespaces
      PROVE  Intact(n)
  <2>1. TableFor(c, TRUE) # None /\ TableFor(c, TRUE).column = ShapeOf[c]
    BY TablesExist
  <2>2. db[Manifest(n)] = None
    BY <1>3
  <2>3. CASE n \in legacy
    <3>1. db[Table(n)] = TableFor(c, TRUE)
      BY <1>3, <2>3
    <3>2. ShapeOf[c] \in {ShapeOf[d] : d \in Adoptable}
      BY <1>1, <2>3 DEF Beginning
    <3> QED
      BY <2>1, <2>2, <3>1, <3>2 DEF Intact
  <2>4. CASE n \notin legacy
    <3>1. db[Table(n)] = None /\ docs[n] = {}
      BY <1>1, <1>3, <2>4 DEF Beginning
    <3> QED
      BY <3>1 DEF Intact
  <2> QED
    BY <2>3, <2>4
<1>7. ASSUME NEW p \in Procs
      PROVE  Wrote(p) /\ Path(p)
  <2>1. DOMAIN <<>> = {}
    OBVIOUS
  <2>2. pc[p] = "off" /\ own[p] = <<>>
    BY DEF Init
  <2> QED
    BY <2>1, <2>2 DEF Wrote, Path, Versioned, Held, Locked, InTransaction
<1> QED
  BY <1>4, <1>5, <1>6, <1>7 DEF IInv

LEMMA NextIInv == IInv /\ [Next]_vars => IInv'
<1> SUFFICES ASSUME IInv, [Next]_vars PROVE IInv'
  OBVIOUS
<1>1. ASSUME NEW p \in Procs, Start(p) \/ Preflight(p) \/ GivesUp(p) \/ Embed(p)
                              \/ Crash(p)
      PROVE  IInv'
  BY <1>1, BeginsWell, ExtensionWell, DecidesWell, CreatesWell, CommitKeeps,
     ServesWell DEF Preflight
<1>2. ASSUME NEW n \in Namespaces, Reset(n) \/ Rebuild(n) \/ DropIndex(n)
      PROVE  IInv'
  BY <1>2, ResetKeeps, RebuildKeeps, DropIndexKeeps
<1>3. CASE UNCHANGED vars
  <2>1. UNCHANGED <<db, docs, globalLock, own, pc, cfg>>
    BY <1>3 DEF vars, locks
  <2>2. Types' /\ Catalog'
    BY <2>1 DEF IInv, Types, Catalog, Extension, ManifestTable, Manifest, Table
  <2>3. \A n \in Namespaces : Intact(n)'
    BY <2>1 DEF IInv, Intact, Manifest, Table
  <2>4. ASSUME NEW p \in Procs
        PROVE  Wrote(p)' /\ Path(p)'
    <3>1. Wrote(p) /\ Path(p)
      BY DEF IInv
    <3>2. Wrote(p)'
      BY <2>1, <3>1
         DEF Wrote, Ns, Extension, ManifestTable, Manifest, Table, TableFor
    <3>3. Path(p)'
      BY <2>1, <3>1 DEF Path, Ready, Stands, Built, Absent, Seen, Ns, Extension,
                        Manifest, Table
    <3> QED
      BY <3>2, <3>3
  <2> QED
    BY <2>2, <2>3, <2>4 DEF IInv
<1> QED
  BY <1>1, <1>2, <1>3 DEF Next

\* What every start, every crash and every operator leaves true: the catalog
\* is intact for each namespace, an open transaction has written only what its
\* place in _pg_preflight says, and what it has read still holds.
THEOREM CatalogInvariant == Spec => []IInv
<1>1. Init => IInv
  BY InitIInv
<1>2. IInv /\ [Next]_vars => IInv'
  BY NextIInv
<1> QED
  BY <1>1, <1>2, PTL DEF Spec

\* No two open transactions of _pg_preflight have written the same catalog
\* object, however many namespaces share the database.
THEOREM WritersExclude == Spec => []OneWriter
<1>1. IInv => OneWriter
  BY DEF IInv, Wrote, Path, Held, OneWriter
<1> QED
  BY <1>1, CatalogInvariant, PTL

\* A process that is up on more than 2000 dimensions has the extension it
\* needs, in whosever transaction it was created or updated.
THEOREM LargeIsServed == Spec => []LargeNeedsNew
<1>1. IInv => LargeNeedsNew
  <2> SUFFICES ASSUME IInv, NEW p \in Procs, pc[p] = "up", cfg[p] \in Large
               PROVE  db[Extension] = "new"
    BY DEF LargeNeedsNew, Up
  <2>1. Wrote(p) /\ Path(p)
    BY DEF IInv
  <2> QED
    BY <2>1 DEF Wrote, Path, Versioned, Held, Locked, Seen, InTransaction
<1> QED
  BY <1>1, CatalogInvariant, PTL

(***************************************************************************)
(* What a store lacks.  Most steps change neither what is committed nor    *)
(* what operators took away; a commit puts there what it has written, and  *)
(* a store it has created has all its parts.                               *)
(***************************************************************************)
Accounted ==
    /\ lacking = [n \in Namespaces |-> lacking[n]]
    /\ NothingHalfDone

LEMMA SameMissing ==
    ASSUME NEW n \in Namespaces,
           db'[Manifest(n)] = db[Manifest(n)], db'[Table(n)] = db[Table(n)]
    PROVE  Missing(n)' = Missing(n)
BY DEF Missing, Manifest, Table

LEMMA InitAccounted == Init => Accounted
<1> SUFFICES ASSUME Init PROVE Accounted
  OBVIOUS
<1>1. PICK extension \in {None, "old", "new"}, legacy \in SUBSET Namespaces,
           c \in Configs : Beginning(extension, legacy, c)
  BY Begins
<1>2. lacking = [n \in Namespaces |-> IF n \in legacy THEN {"manifest"} ELSE {}]
  BY <1>1 DEF Beginning
<1>3. ASSUME NEW n \in Namespaces
      PROVE  Missing(n) \subseteq lacking[n]
  <2>1. /\ db[Manifest(n)] = None
        /\ db[Table(n)] = IF n \in legacy THEN TableFor(c, TRUE) ELSE None
    BY <1>1, <1>3, Keys DEF Beginning, Extension, ManifestTable, Manifest, Table
  <2>2. TableFor(c, TRUE).indexed = TRUE
    BY DEF TableFor
  <2> QED
    BY <1>2, <2>1, <2>2 DEF Missing
<1> QED
  BY <1>2, <1>3 DEF Accounted, NothingHalfDone

\* Steps of a process before and after its commit.
LEMMA OthersAccounted ==
    ASSUME Accounted, NEW p \in Procs,
           \/ Start(p) \/ GivesUp(p) \/ Embed(p) \/ Crash(p)
           \/ Preflight(p) /\ ~Commits(p)
    PROVE  UNCHANGED <<db, lacking>>
<1>1. CASE Start(p) \/ GivesUp(p) \/ Embed(p) \/ Crash(p)
  BY <1>1 DEF Start, GivesUp, Embed, Crash, Aborts
<1>2. CASE TakesGlobalLock(p) \/ TakesNsLock(p) \/ HasVersion(p) \/ ComesUp(p)
  BY <1>2 DEF TakesGlobalLock, TakesNsLock, HasVersion, ComesUp, Reads
<1>3. CASE CreatesExtension(p) \/ UpdatesExtension(p) \/ CreatesManifestTable(p)
  BY <1>3 DEF CreatesExtension, UpdatesExtension, CreatesManifestTable, Writes
<1>4. CASE LacksVersion(p) \/ Validates(p) \/ Adopts(p)
  BY <1>4 DEF LacksVersion, Validates, Adopts, Writes, Aborts
<1>5. CASE ReadsManifest(p)
  BY <1>5 DEF ReadsManifest, Aborts
<1>6. CASE CreatesTable(p) \/ CreatesIndexes(p) \/ WritesManifest(p)
  BY <1>6 DEF CreatesTable, CreatesIndexes, WritesManifest, Writes
<1> QED
  BY <1>1, <1>2, <1>3, <1>4, <1>5, <1>6 DEF Preflight

LEMMA CommitAccounted ==
    ASSUME IInv, Accounted, NEW p \in Procs, Commits(p)
    PROVE  Accounted'
<1> DEFINE n == Ns(p)
<1>1. Wrote(p) /\ Path(p) /\ n \in Namespaces
  BY NsType DEF IInv
<1>2. /\ pc[p] = "commit"
      /\ db' = [item \in Items |-> Seen(p, item)]
      /\ lacking' = [lacking EXCEPT ![n] = @ \ PartsWritten(p)]
  BY DEF Commits
<1>3. Ready(p) /\ cfg[p] \in Configs /\ cfg[p] # None
  BY <1>1, <1>2, NoneAssumption DEF Path, InTransaction
<1>4. lacking' = [m \in Namespaces |-> lacking'[m]]
      /\ lacking'[n] = lacking[n] \ PartsWritten(p)
      /\ \A m \in Namespaces \ {n} : lacking'[m] = lacking[m]
  BY <1>1, <1>2 DEF Accounted
<1>5. ASSUME NEW m \in Namespaces, m # n
      PROVE  Missing(m)' \subseteq lacking'[m]
  <2>1. db'[Manifest(m)] = db[Manifest(m)] /\ db'[Table(m)] = db[Table(m)]
    BY <1>1, <1>2, <1>5, Keys DEF Wrote, Seen
  <2> QED
    BY <1>4, <1>5, <2>1, SameMissing DEF Accounted, NothingHalfDone
<1>6. Missing(n)' \subseteq lacking'[n]
  <2>1. /\ db'[Manifest(n)] = Seen(p, Manifest(n))
        /\ db'[Table(n)] = Seen(p, Table(n))
    BY <1>1, <1>2, Keys
  <2>2. Missing(n) \subseteq lacking[n]
    BY <1>1 DEF Accounted, NothingHalfDone
  <2>3. CASE Manifest(n) \notin DOMAIN own[p] /\ Table(n) \notin DOMAIN own[p]
    <3>1. PartsWritten(p) = {}
      BY <2>3 DEF PartsWritten
    <3>2. Missing(n)' = Missing(n)
      BY <1>1, <2>1, <2>3, SameMissing DEF Seen
    <3> QED
      BY <1>4, <2>2, <3>1, <3>2
  <2>4. CASE Manifest(n) \in DOMAIN own[p] /\ Table(n) \notin DOMAIN own[p]
    <3>1. PartsWritten(p) = {"manifest"}
      BY <2>4 DEF PartsWritten
    <3>2. db'[Manifest(n)] # None /\ db'[Table(n)] = db[Table(n)]
          /\ db[Table(n)] # None
      BY <1>1, <1>3, <2>1, <2>4 DEF Wrote, Seen, Ready, Built
    <3>3. Missing(n)' \subseteq Missing(n) \ {"manifest"}
      BY <3>2 DEF Missing, Manifest, Table
    <3> QED
      BY <1>4, <2>2, <3>1, <3>3
  <2>5. CASE Manifest(n) \in DOMAIN own[p] /\ Table(n) \in DOMAIN own[p]
    <3>1. db'[Manifest(n)] = cfg[p] /\ db'[Table(n)] = TableFor(cfg[p], TRUE)
      BY <1>1, <1>2, <2>1, <2>5 DEF Seen, Wrote
    <3>2. TableFor(cfg[p], TRUE) # None /\ TableFor(cfg[p], TRUE).indexed = TRUE
      BY <1>3, TablesExist DEF TableFor
    <3>3. Missing(n)' = {}
      BY <1>3, <3>1, <3>2 DEF Missing, Manifest, Table
    <3> QED
      BY <3>3
  <2> QED
    BY <1>3, <2>3, <2>4, <2>5 DEF Ready
<1>7. \A m \in Namespaces : Missing(m)' \subseteq lacking'[m]
  BY <1>5, <1>6
<1> QED
  BY <1>4, <1>7 DEF Accounted, NothingHalfDone, Missing, Manifest, Table

\* An operator's step accounts for the parts of the one store it is about.
LEMMA OperatorAccounted ==
    ASSUME IInv, Accounted, NEW n \in Namespaces,
           Reset(n) \/ Rebuild(n) \/ DropIndex(n)
    PROVE  Accounted'
<1>1. db = [i \in Items |-> db[i]] /\ Catalog
      /\ lacking = [m \in Namespaces |-> lacking[m]]
      /\ \A m \in Namespaces : Missing(m) \subseteq lacking[m]
  BY DEF IInv, Types, Accounted, NothingHalfDone
<1>2. /\ Manifest(n) \in Items /\ Table(n) \in Items
      /\ Manifest(n) # Table(n)
      /\ \A m \in Namespaces \ {n} :
           Manifest(m) \notin {Manifest(n), Table(n)}
             /\ Table(m) \notin {Manifest(n), Table(n)}
  BY Keys
<1>3. /\ \A m \in Namespaces \ {n} :
           /\ db'[Manifest(m)] = db[Manifest(m)] /\ db'[Table(m)] = db[Table(m)]
           /\ lacking'[m] = lacking[m]
      /\ lacking' = [m \in Namespaces |-> lacking'[m]]
  <2>1. CASE Reset(n)
    BY <1>1, <1>2, <2>1, Keys DEF Reset
  <2>2. CASE Rebuild(n)
    BY <1>1, <1>2, <2>2, Keys DEF Rebuild
  <2>3. CASE DropIndex(n)
    BY <1>1, <1>2, <2>3, Keys DEF DropIndex
  <2> QED
    BY <2>1, <2>2, <2>3
<1>4. Missing(n)' \subseteq lacking'[n]
  <2>1. CASE Reset(n)
    <3>1. PICK certified \in {db[Manifest(n)], None} :
            /\ db' = [db EXCEPT ![Table(n)] = None, ![Manifest(n)] = certified]
            /\ lacking' = [lacking EXCEPT
                             ![n] = IF certified = None THEN {} ELSE {"table"}]
      BY <2>1 DEF Reset
    <3>2. /\ db'[Table(n)] = None /\ db'[Manifest(n)] = certified
          /\ lacking'[n] = IF certified = None THEN {} ELSE {"table"}
      BY <1>1, <1>2, <3>1
    <3> QED
      BY <3>2 DEF Missing, Manifest, Table
  <2>2. CASE Rebuild(n)
    <3> DEFINE table == [db[Table(n)] EXCEPT !.indexed = TRUE]
    <3>1. /\ db[Table(n)] # None
          /\ db' = [db EXCEPT ![Table(n)] = table, ![Manifest(n)] = None]
          /\ lacking' = [lacking EXCEPT ![n] = {"manifest"}]
      BY <2>2 DEF Rebuild
    <3>2. table.indexed = TRUE
      BY <1>1, <3>1 DEF Catalog
    <3> HIDE DEF table
    <3>3. /\ db'[Table(n)] = table /\ db'[Manifest(n)] = None
          /\ lacking'[n] = {"manifest"}
      BY <1>1, <1>2, <3>1
    <3> QED
      BY <3>2, <3>3 DEF Missing, Manifest, Table
  <2>3. CASE DropIndex(n)
    <3> DEFINE table == [db[Table(n)] EXCEPT !.indexed = FALSE]
    <3>1. /\ db[Table(n)] # None
          /\ db' = [db EXCEPT ![Table(n)] = table]
          /\ lacking' = [lacking EXCEPT ![n] = @ \cup {"index"}]
      BY <2>3 DEF DropIndex
    <3>2. table # None
      BY <1>1, <3>1, Reindexed, AbsentAssumption
    <3> HIDE DEF table
    <3>3. /\ db'[Table(n)] = table /\ db'[Manifest(n)] = db[Manifest(n)]
          /\ lacking'[n] = lacking[n] \cup {"index"}
      BY <1>1, <1>2, <3>1
    <3>4. Missing(n)' \subseteq Missing(n) \cup {"index"}
      BY <3>1, <3>2, <3>3 DEF Missing, Manifest, Table
    <3> QED
      BY <1>1, <3>3, <3>4
  <2> QED
    BY <2>1, <2>2, <2>3
<1>5. ASSUME NEW m \in Namespaces
      PROVE  Missing(m)' \subseteq lacking'[m]
  <2>1. CASE m # n
    BY <1>1, <1>3, <2>1, SameMissing
  <2> QED
    BY <1>4, <2>1
<1> QED
  BY <1>3, <1>5 DEF Accounted, NothingHalfDone, Missing, Manifest, Table

\* At whatever statement starts fail or die, and whatever operators do
\* meanwhile, a store lacks nothing of manifest row, table and indexes but
\* what operators took away or what is older than manifests.
THEOREM NothingIsHalfDone == Spec => []NothingHalfDone
<1>1. Init => Accounted
  BY InitAccounted
<1>2. IInv /\ Accounted /\ [Next]_vars => Accounted'
  <2> SUFFICES ASSUME IInv, Accounted, [Next]_vars PROVE Accounted'
    OBVIOUS
  <2>1. CASE UNCHANGED <<db, lacking>>
    <3>1. \A n \in Namespaces : Missing(n)' = Missing(n)
      BY <2>1, SameMissing DEF Manifest, Table
    <3> QED
      BY <2>1, <3>1 DEF Accounted, NothingHalfDone
  <2>2. CASE \E p \in Procs : Commits(p)
    BY <2>2, CommitAccounted
  <2>3. CASE \E n \in Namespaces : Reset(n) \/ Rebuild(n) \/ DropIndex(n)
    BY <2>3, OperatorAccounted
  <2>4. CASE UNCHANGED vars
    BY <2>1, <2>4 DEF vars
  <2> QED
    BY <2>1, <2>2, <2>3, <2>4, OthersAccounted DEF Next
<1>3. Accounted => NothingHalfDone
  BY DEF Accounted
<1> QED
  BY <1>1, <1>2, <1>3, CatalogInvariant, PTL DEF Spec

-----------------------------------------------------------------------------
(* One namespace refines the atomic validation. *)

IndexHere == IF TableHere = None THEN None ELSE TableHere.column
UpHere == [p \in ProcsHere |-> IF Up(p) THEN cfg[p] ELSE None]
StoreHere == <<db[Manifest(Observed)], IndexHere, docs[Observed], UpHere>>

LEMMA StoreVars == Store!vars = StoreHere /\ Store!vars' = StoreHere'
BY DEF Store!vars, StoreHere, IndexHere, UpHere

\* Who is up does not change if nobody comes up or goes down.
LEMMA SameUp ==
    ASSUME \A q \in Procs : (Up(q)' <=> Up(q)) /\ (Up(q) => cfg'[q] = cfg[q])
    PROVE  UpHere' = UpHere
BY DEF UpHere, ProcsHere, Ns, Up

LEMMA SameTable ==
    ASSUME db'[Table(Observed)] = db[Table(Observed)]
    PROVE  IndexHere' = IndexHere
BY DEF IndexHere, TableHere, Table

LEMMA InitStore == Init => Store!Init
<1> SUFFICES ASSUME Init PROVE Store!Init
  OBVIOUS
<1>1. PICK extension \in {None, "old", "new"}, legacy \in SUBSET Namespaces,
           c \in Configs : Beginning(extension, legacy, c)
  BY Begins
<1>2. /\ db[Manifest(Observed)] = None
      /\ TableHere = IF Observed \in legacy THEN TableFor(c, TRUE) ELSE None
      /\ docs[Observed] = IF Observed \in legacy THEN {c} ELSE {}
  BY <1>1, Keys, NamespaceAssumption
     DEF Beginning, Extension, ManifestTable, Manifest, Table, TableHere
<1>3. UpHere = [p \in ProcsHere |-> None]
  BY DEF Init, UpHere, Up, ProcsHere
<1>4. CASE Observed \in legacy
  <2>1. TableFor(c, TRUE) # None /\ TableFor(c, TRUE).column = ShapeOf[c]
    BY TablesExist
  <2>2. IndexHere = ShapeOf[c] /\ docs[Observed] = {c} /\ c \in Adoptable
    BY <1>1, <1>2, <1>4, <2>1 DEF Beginning, IndexHere
  <2> QED
    BY <1>2, <1>3, <2>2 DEF Store!Init, IndexHere, UpHere
<1>5. CASE Observed \notin legacy
  <2>1. IndexHere = None /\ docs[Observed] = {}
    BY <1>2, <1>5 DEF IndexHere
  <2> QED
    BY <1>2, <1>3, <2>1 DEF Store!Init, IndexHere, UpHere
<1> QED
  BY <1>4, <1>5

\* A start that has not come up and commits nothing does not show.
LEMMA Unseen ==
    ASSUME IInv, NEW p \in Procs, UNCHANGED <<db, docs>>,
           \A q \in Procs \ {p} : pc'[q] = pc[q] /\ cfg'[q] = cfg[q],
           ~Up(p), ~Up(p)'
    PROVE  StoreHere' = StoreHere
<1>1. UpHere' = UpHere
  BY SameUp DEF Up
<1>2. IndexHere' = IndexHere
  BY SameTable
<1> QED
  BY <1>1, <1>2 DEF StoreHere, Manifest

LEMMA AbortUnseen ==
    ASSUME IInv, NEW p \in Procs, NEW to \in {"off", "failed"}, Aborts(p, to),
           ~Up(p)
    PROVE  StoreHere' = StoreHere
BY Unseen DEF Aborts, Move, Up, IInv, Types

LEMMA StartUnseen ==
    ASSUME IInv, NEW p \in Procs,
           \/ Start(p) \/ TakesGlobalLock(p) \/ TakesNsLock(p)
           \/ CreatesExtension(p) \/ HasVersion(p) \/ UpdatesExtension(p)
           \/ LacksVersion(p) \/ CreatesManifestTable(p)
           \/ ReadsManifest(p) \/ Validates(p) \/ Adopts(p)
           \/ CreatesTable(p) \/ CreatesIndexes(p) \/ WritesManifest(p)
           \/ GivesUp(p)
           \/ Crash(p) /\ ~Up(p)
    PROVE  StoreHere' = StoreHere
<1>1. pc \in [Procs -> InTransaction \cup Resting]
  BY DEF IInv, Types
<1>2. CASE Start(p) \/ TakesGlobalLock(p) \/ TakesNsLock(p)
  BY <1>1, <1>2, Unseen DEF Start, TakesGlobalLock, TakesNsLock, Move, Up, IInv, Types
<1>3. CASE CreatesExtension(p) \/ HasVersion(p) \/ UpdatesExtension(p)
           \/ CreatesManifestTable(p)
  <2>1. UNCHANGED <<db, docs, cfg>> /\ ~Up(p)
    BY <1>3 DEF CreatesExtension, HasVersion, UpdatesExtension,
                CreatesManifestTable, Writes, Reads, Up
  <2>2. \E to \in {"version", "manifest_table", "manifest"} : Move(p, to)
    BY <1>3 DEF CreatesExtension, HasVersion, UpdatesExtension,
                CreatesManifestTable, Reads
  <2> QED
    BY <1>1, <2>1, <2>2, Unseen DEF Move, Up
<1>4. CASE CreatesTable(p) \/ CreatesIndexes(p) \/ WritesManifest(p)
  <2>1. UNCHANGED <<db, docs, cfg>> /\ ~Up(p)
    BY <1>4 DEF CreatesTable, CreatesIndexes, WritesManifest, Writes, Up
  <2>2. \E to \in {"create_indexes", "write_manifest", "commit"} : Move(p, to)
    BY <1>4 DEF CreatesTable, CreatesIndexes, WritesManifest
  <2> QED
    BY <1>1, <2>1, <2>2, Unseen DEF Move, Up
<1>5. CASE ReadsManifest(p) \/ Validates(p) \/ Adopts(p)
  <2>1. ~Up(p)
    BY <1>5 DEF ReadsManifest, Validates, Adopts, Up
  <2>2. \/ Aborts(p, "failed")
        \/ /\ UNCHANGED <<db, docs, cfg>>
           /\ \E to \in {"create_table", "adopt", "validate", "commit"} : Move(p, to)
    BY <1>5 DEF ReadsManifest, Validates, Adopts, Writes
  <2> QED
    BY <1>1, <2>1, <2>2, Unseen, AbortUnseen DEF Move, Up
<1>6. CASE LacksVersion(p) \/ GivesUp(p) \/ (Crash(p) /\ ~Up(p))
  BY <1>6, AbortUnseen DEF LacksVersion, GivesUp, Crash, Up
<1> QED
  BY <1>2, <1>3, <1>4, <1>5, <1>6

\* The commit is the indivisible creation or adoption, if it is either.
LEMMA CommitIsAtomic ==
    ASSUME IInv, NEW p \in Procs, Commits(p)
    PROVE  (\E c \in Configs : Store!Create(c) \/ Store!Adopt(c))
             \/ StoreHere' = StoreHere
<1> DEFINE n == Ns(p)
<1>1. Wrote(p) /\ Path(p) /\ Types /\ n \in Namespaces /\ Intact(n)
  BY NsType DEF IInv
<1>2. /\ pc[p] = "commit" /\ UNCHANGED <<docs, cfg>>
      /\ db' = [item \in Items |-> Seen(p, item)]
      /\ pc' = [pc EXCEPT ![p] = "committed"]
  BY DEF Commits, Move
<1>3. Ready(p) /\ cfg[p] \in Configs
  BY <1>1, <1>2 DEF Path, InTransaction
<1>4. UpHere' = UpHere
  BY <1>1, <1>2, SameUp DEF Up, Types
<1>5. /\ db'[Manifest(Observed)] = Seen(p, Manifest(Observed))
      /\ db'[Table(Observed)] = Seen(p, Table(Observed))
  BY <1>2, Keys, NamespaceAssumption
<1>6. CASE n # Observed
  <2>1. Manifest(Observed) \notin DOMAIN own[p]
        /\ Table(Observed) \notin DOMAIN own[p]
    BY <1>1, <1>6, Keys, NamespaceAssumption DEF Wrote
  <2> QED
    BY <1>2, <1>4, <1>5, <2>1, SameTable DEF StoreHere, Seen, Manifest, Table
<1>7. CASE n = Observed
  <2>1. CASE Manifest(n) \notin DOMAIN own[p] /\ Table(n) \notin DOMAIN own[p]
    BY <1>2, <1>4, <1>5, <1>7, <2>1, SameTable
       DEF StoreHere, Seen, Manifest, Table
  <2>2. CASE Manifest(n) \in DOMAIN own[p] /\ Table(n) \notin DOMAIN own[p]
    <3>1. db[Manifest(n)] = None /\ Built(p) /\ cfg[p] \in Adoptable
      BY <1>3, <2>2 DEF Ready
    <3>2. db'[Manifest(n)] = cfg[p] /\ db'[Table(n)] = db[Table(n)]
      BY <1>1, <1>5, <1>7, <2>2 DEF Wrote, Seen
    <3>3. IndexHere = ShapeOf[cfg[p]] /\ IndexHere' = IndexHere
      BY <1>7, <3>1, <3>2, SameTable DEF IndexHere, TableHere, Built
    <3>4. docs'[Observed] = docs[Observed]
      BY <1>2
    <3>5. Store!Adopt(cfg[p])
      BY <1>4, <1>7, <3>1, <3>2, <3>3, <3>4
         DEF Store!Adopt, IndexHere, UpHere, Manifest
    <3> QED
      BY <1>3, <3>5
  <2>3. CASE Manifest(n) \in DOMAIN own[p] /\ Table(n) \in DOMAIN own[p]
    <3>1. db[Manifest(n)] = None /\ db[Table(n)] = None /\ docs[n] = {}
      BY <1>1, <1>3, <2>3 DEF Ready, Absent, Intact
    <3>2. db'[Manifest(n)] = cfg[p] /\ db'[Table(n)] = TableFor(cfg[p], TRUE)
      BY <1>1, <1>2, <1>5, <1>7, <2>3 DEF Wrote, Seen
    <3>3. TableFor(cfg[p], TRUE) # None
          /\ TableFor(cfg[p], TRUE).column = ShapeOf[cfg[p]]
      BY <1>3, TablesExist
    <3>4. IndexHere = None /\ IndexHere' = ShapeOf[cfg[p]]
      BY <1>7, <3>1, <3>2, <3>3 DEF IndexHere, TableHere, Table
    <3>5. docs'[Observed] = docs[Observed]
      BY <1>2
    <3>6. Store!Create(cfg[p])
      BY <1>4, <1>7, <3>1, <3>2, <3>4, <3>5
         DEF Store!Create, IndexHere, UpHere, Manifest
    <3> QED
      BY <1>3, <3>6
  <2> QED
    BY <1>3, <2>1, <2>2, <2>3 DEF Ready
<1> QED
  BY <1>6, <1>7

LEMMA UpIsAtomic ==
    ASSUME IInv, NEW p \in Procs,
           ComesUp(p) \/ Embed(p) \/ (Crash(p) /\ Up(p))
    PROVE  Store!Next \/ StoreHere' = StoreHere
<1>1. Path(p) /\ Types /\ Ns(p) \in Namespaces
  BY NsType DEF IInv
<1>2. \A q \in ProcsHere : q \in Procs /\ UpHere[q] = IF Up(q) THEN cfg[q] ELSE None
  BY DEF ProcsHere, UpHere
<1>3. UpHere = [q \in ProcsHere |-> UpHere[q]]
      /\ UpHere' = [q \in ProcsHere |-> IF Up(q)' THEN cfg'[q] ELSE None]
  BY DEF UpHere, ProcsHere, Ns
<1>4. CASE ComesUp(p)
  <2>1. /\ pc[p] = "committed" /\ pc' = [pc EXCEPT ![p] = "up"]
        /\ UNCHANGED <<db, docs, cfg>>
    BY <1>4 DEF ComesUp, Reads, Move
  <2>2. Stands(p) /\ cfg[p] \in Configs
    BY <1>1, <2>1 DEF Path, InTransaction
  <2>3. IndexHere' = IndexHere /\ docs'[Observed] = docs[Observed]
        /\ db'[Manifest(Observed)] = db[Manifest(Observed)]
    BY <2>1, SameTable
  <2>4. CASE Ns(p) = Observed
    <3>1. p \in ProcsHere /\ UpHere[p] = None
      BY <1>2, <2>1, <2>4 DEF ProcsHere, Up
    <3>2. UpHere' = [UpHere EXCEPT ![p] = cfg[p]]
      BY <1>1, <1>2, <1>3, <2>1, <3>1 DEF Up, Types
    <3>3. db[Manifest(Observed)] = cfg[p] /\ IndexHere = ShapeOf[cfg[p]]
      BY <2>2, <2>4 DEF Stands, Built, IndexHere, TableHere
    <3>4. PICK c \in Configs : c = cfg[p]
      BY <2>2
    <3>5. Store!Admit(p, c)
      BY <2>3, <3>1, <3>2, <3>3, <3>4
         DEF Store!Admit, UpHere, IndexHere, Manifest
    <3> QED
      BY <3>1, <3>5 DEF Store!Next
  <2>5. CASE Ns(p) # Observed
    <3>1. UpHere' = UpHere
      BY <1>1, <2>1, <2>5 DEF Up, Types, UpHere, ProcsHere, Ns
    <3> QED
      BY <2>3, <3>1 DEF StoreHere, Manifest
  <2> QED
    BY <2>4, <2>5
<1>5. CASE Embed(p)
  <2>1. /\ pc[p] = "up" /\ docs' = [docs EXCEPT ![Ns(p)] = @ \cup {cfg[p]}]
        /\ UNCHANGED <<db, pc, cfg>>
    BY <1>5 DEF Embed
  <2>2. cfg[p] \in Configs
    BY <1>1, <2>1 DEF Path
  <2>3. IndexHere' = IndexHere /\ UpHere' = UpHere
        /\ db'[Manifest(Observed)] = db[Manifest(Observed)]
    BY <2>1, SameTable, SameUp DEF Up
  <2>4. CASE Ns(p) = Observed
    <3>1. p \in ProcsHere /\ UpHere[p] = cfg[p] /\ UpHere[p] # None
      BY <1>2, <2>1, <2>2, <2>4, NoneAssumption DEF ProcsHere, Up
    <3>2. docs'[Observed] = docs[Observed] \cup {UpHere[p]}
      BY <1>1, <2>1, <2>4, <3>1 DEF Types
    <3>3. Store!Embed(p)
      BY <2>3, <3>1, <3>2 DEF Store!Embed, UpHere, IndexHere, Manifest
    <3> QED
      BY <3>1, <3>3 DEF Store!Next
  <2>5. CASE Ns(p) # Observed
    <3>1. docs'[Observed] = docs[Observed]
      BY <1>1, <2>1, <2>5, NamespaceAssumption DEF Types
    <3> QED
      BY <2>3, <3>1 DEF StoreHere, Manifest
  <2> QED
    BY <2>4, <2>5
<1>6. CASE Crash(p) /\ Up(p)
  <2>1. /\ pc[p] = "up" /\ pc' = [pc EXCEPT ![p] = "off"]
        /\ cfg' = [cfg EXCEPT ![p] = None] /\ UNCHANGED <<db, docs>>
    BY <1>6 DEF Crash, Aborts, Move, Up
  <2>2. cfg[p] \in Configs
    BY <1>1, <2>1 DEF Path
  <2>3. IndexHere' = IndexHere /\ docs'[Observed] = docs[Observed]
        /\ db'[Manifest(Observed)] = db[Manifest(Observed)]
    BY <2>1, SameTable
  <2>4. CASE Ns(p) = Observed
    <3>1. p \in ProcsHere /\ UpHere[p] # None
      BY <1>2, <2>1, <2>2, <2>4, NoneAssumption DEF ProcsHere, Up
    <3>2. UpHere' = [UpHere EXCEPT ![p] = None]
      BY <1>1, <1>2, <1>3, <2>1, <3>1 DEF Up, Types
    <3>3. Store!Stop(p)
      BY <2>3, <3>1, <3>2 DEF Store!Stop, UpHere, IndexHere, Manifest
    <3> QED
      BY <3>1, <3>3 DEF Store!Next
  <2>5. CASE Ns(p) # Observed
    <3>1. UpHere' = UpHere
      BY <1>1, <2>1, <2>5 DEF Up, Types, UpHere, ProcsHere, Ns
    <3> QED
      BY <2>3, <3>1 DEF StoreHere, Manifest
  <2> QED
    BY <2>4, <2>5
<1> QED
  BY <1>4, <1>5, <1>6

LEMMA OperatorIsAtomic ==
    ASSUME IInv, NEW n \in Namespaces, Reset(n) \/ Rebuild(n) \/ DropIndex(n)
    PROVE  Store!Next \/ StoreHere' = StoreHere
<1>1. Types /\ Catalog /\ UpHere' = UpHere
  BY SameUp DEF IInv, Reset, Rebuild, DropIndex, Up
<1>2. n = Observed /\ Stopped(n) => \A p \in ProcsHere : UpHere[p] = None
  BY DEF Stopped, ProcsHere, UpHere, Up
<1>3. Extension # ManifestTable /\ Manifest(n) \in Items /\ Table(n) \in Items
      /\ Manifest(n) # Table(n) /\ Manifest(Observed) # Table(n)
      /\ Manifest(n) # Table(Observed)
      /\ (n # Observed => Manifest(n) # Manifest(Observed)
                          /\ Table(n) # Table(Observed))
  BY Keys, NamespaceAssumption
<1>4. CASE Reset(n)
  <2>1. PICK certified \in {db[Manifest(n)], None} :
          db' = [db EXCEPT ![Table(n)] = None, ![Manifest(n)] = certified]
    BY <1>4 DEF Reset
  <2>2. Stopped(n) /\ docs' = [docs EXCEPT ![n] = {}]
    BY <1>4 DEF Reset
  <2>3. CASE n = Observed
    <3>1. /\ db'[Manifest(Observed)] \in {db[Manifest(Observed)], None}
          /\ db'[Table(Observed)] = None /\ docs'[Observed] = {}
      BY <1>1, <1>3, <2>1, <2>2, <2>3 DEF Types
    <3>2. IndexHere' = None
      BY <3>1 DEF IndexHere, TableHere, Table
    <3>3. Store!Reset
      BY <1>1, <1>2, <2>2, <2>3, <3>1, <3>2
         DEF Store!Reset, UpHere, IndexHere, Manifest
    <3> QED
      BY <3>3 DEF Store!Next
  <2>4. CASE n # Observed
    <3>1. /\ db'[Manifest(Observed)] = db[Manifest(Observed)]
          /\ db'[Table(Observed)] = db[Table(Observed)]
          /\ docs'[Observed] = docs[Observed]
      BY <1>1, <1>3, <2>1, <2>2, <2>4, Keys, NamespaceAssumption DEF Types
    <3> QED
      BY <1>1, <3>1, SameTable DEF StoreHere, Manifest
  <2> QED
    BY <2>3, <2>4
<1>5. CASE Rebuild(n)
  <2> DEFINE table == [db[Table(n)] EXCEPT !.indexed = TRUE]
  <2>1. /\ Stopped(n) /\ docs' = docs
        /\ db[Manifest(n)] \in Adoptable /\ db[Table(n)] # None
        /\ db' = [db EXCEPT ![Table(n)] = table, ![Manifest(n)] = None]
    BY <1>5 DEF Rebuild
  <2>2. table.column = db[Table(n)].column /\ table # None
    BY <1>1, <2>1, Reindexed, AbsentAssumption
  <2> HIDE DEF table
  <2>3. CASE n = Observed
    <3>1. db'[Manifest(Observed)] = None /\ db'[Table(Observed)] = table
      BY <1>1, <1>3, <2>1, <2>3 DEF Types
    <3>2. IndexHere' = IndexHere
      BY <2>1, <2>2, <2>3, <3>1 DEF IndexHere, TableHere, Table
    <3>3. Store!Rebuild
      BY <1>1, <1>2, <2>1, <2>3, <3>1, <3>2
         DEF Store!Rebuild, UpHere, IndexHere, Manifest
    <3> QED
      BY <3>3 DEF Store!Next
  <2>4. CASE n # Observed
    <3>1. /\ db'[Manifest(Observed)] = db[Manifest(Observed)]
          /\ db'[Table(Observed)] = db[Table(Observed)]
      BY <1>1, <1>3, <2>1, <2>4, Keys, NamespaceAssumption DEF Types
    <3> QED
      BY <1>1, <2>1, <3>1, SameTable DEF StoreHere, Manifest
  <2> QED
    BY <2>3, <2>4
<1>6. CASE DropIndex(n)
  <2> DEFINE table == [db[Table(n)] EXCEPT !.indexed = FALSE]
  <2>1. /\ docs' = docs /\ db[Table(n)] # None
        /\ db' = [db EXCEPT ![Table(n)] = table]
    BY <1>6 DEF DropIndex
  <2>2. table.column = db[Table(n)].column /\ table # None
    BY <1>1, <2>1, Reindexed, AbsentAssumption
  <2> HIDE DEF table
  <2>3. /\ db'[Manifest(Observed)] = db[Manifest(Observed)]
        /\ db'[Table(n)] = table
        /\ n # Observed => db'[Table(Observed)] = db[Table(Observed)]
    BY <1>1, <1>3, <2>1, Keys, NamespaceAssumption DEF Types
  <2>4. IndexHere' = IndexHere
    BY <2>1, <2>2, <2>3 DEF IndexHere, TableHere, Table
  <2> QED
    BY <1>1, <2>1, <2>3, <2>4 DEF StoreHere, Manifest
<1> QED
  BY <1>4, <1>5, <1>6

LEMMA StoreStep == IInv /\ [Next]_vars => [Store!Next]_(Store!vars)
<1> SUFFICES ASSUME IInv, [Next]_vars
             PROVE  Store!Next \/ StoreHere' = StoreHere
  BY StoreVars
<1>1. ASSUME NEW p \in Procs, Start(p) \/ Preflight(p) \/ GivesUp(p) \/ Embed(p)
                              \/ Crash(p)
      PROVE  Store!Next \/ StoreHere' = StoreHere
  <2>1. CASE Commits(p)
    BY <2>1, CommitIsAtomic DEF Store!Next
  <2>2. CASE ComesUp(p) \/ Embed(p) \/ (Crash(p) /\ Up(p))
    BY <2>2, UpIsAtomic
  <2> QED
    BY <1>1, <2>1, <2>2, StartUnseen DEF Preflight
<1>2. ASSUME NEW n \in Namespaces, Reset(n) \/ Rebuild(n) \/ DropIndex(n)
      PROVE  Store!Next \/ StoreHere' = StoreHere
  BY <1>2, OperatorIsAtomic
<1>3. CASE UNCHANGED vars
  <2>1. UNCHANGED <<db, docs, pc, cfg>>
    BY <1>3 DEF vars
  <2>2. UpHere' = UpHere /\ IndexHere' = IndexHere
    BY <2>1, SameUp, SameTable DEF Up
  <2> QED
    BY <2>1, <2>2 DEF StoreHere, Manifest
<1> QED
  BY <1>1, <1>2, <1>3 DEF Next

\* Statement by statement, with every interleaving of starts, crashes and
\* operators, and with other namespaces in the same database, one namespace
\* goes through the atomic validation of StorePreflight.
THEOREM RefinesStore == Spec => ImplementsStore
<1>1. Init => Store!Init
  BY InitStore
<1>2. IInv /\ [Next]_vars => [Store!Next]_(Store!vars)
  BY StoreStep
<1> QED
  BY <1>1, <1>2, CatalogInvariant, PTL DEF Spec, ImplementsStore, Store!Spec

-----------------------------------------------------------------------------
(* What the contract guarantees holds of the rows. *)

Contract == INSTANCE StorePreflightProofs
              WITH Procs <- ProcsHere,
                   manifest <- db[Manifest(Observed)],
                   index <- IndexHere,
                   docs <- docs[Observed],
                   up <- UpHere

LEMMA ContractHolds == Store!Spec => Contract!Spec
<1>1. Store!Init => Contract!Init
  BY DEF Store!Init, Contract!Init, UpHere, IndexHere
<1>2. [Store!Next]_(Store!vars) => [Contract!Next]_(Contract!vars)
  BY DEF Store!Next, Store!vars, Store!Create, Store!Adopt, Store!Admit, Store!Embed,
         Store!Stop, Store!Reset, Store!Rebuild, Contract!Next, Contract!vars,
         Contract!Create, Contract!Adopt, Contract!Admit, Contract!Embed,
         Contract!Stop, Contract!Reset, Contract!Rebuild, UpHere, IndexHere
<1> QED
  BY <1>1, <1>2, PTL DEF Store!Spec, Contract!Spec

\* In the namespace observed, a process that is up finds its own manifest, a
\* column for its own vectors, and rows of its own embedding space only.
OwnSpaceOnly ==
    \A p \in ProcsHere : Up(p) =>
      /\ db[Manifest(Observed)] = cfg[p]
      /\ TableHere # None /\ TableHere.column = ShapeOf[cfg[p]]
      /\ docs[Observed] \subseteq {cfg[p]}

\* No process ever serves or stores vectors next to those of another
\* configuration in its namespace, with no condition on timing.
THEOREM SpacesNeverMix == Spec => []OwnSpaceOnly
<1>1. Contract!ServesItsSpace /\ IInv => OwnSpaceOnly
  <2> SUFFICES ASSUME Contract!ServesItsSpace, IInv, NEW p \in ProcsHere, Up(p)
               PROVE  /\ db[Manifest(Observed)] = cfg[p]
                      /\ TableHere # None /\ TableHere.column = ShapeOf[cfg[p]]
                      /\ docs[Observed] \subseteq {cfg[p]}
    BY DEF OwnSpaceOnly
  <2>1. /\ db[Manifest(Observed)] = cfg[p] /\ cfg[p] \in Configs
        /\ TableHere # None /\ TableHere.column = ShapeOf[cfg[p]]
    BY DEF IInv, Path, Up, Stands, Built, ProcsHere, TableHere
  <2>2. UpHere[p] = cfg[p] /\ cfg[p] # None
    BY <2>1, NoneAssumption DEF UpHere
  <2> QED
    BY <2>1, <2>2 DEF Contract!ServesItsSpace
<1>2. Contract!Spec => []Contract!ServesItsSpace
  BY Contract!ServedFromItsSpace, ShapeOfAssumption, AdoptableAssumption,
     NoneAssumption DEF ProcsHere
<1> QED
  BY <1>1, <1>2, ContractHolds, RefinesStore, CatalogInvariant, PTL
     DEF ImplementsStore

=============================================================================
