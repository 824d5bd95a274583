----------------------------- MODULE PgPreflight -----------------------------
(***************************************************************************)
(* _pg_preflight of src/document_store/preflight.py: one transaction per   *)
(* start, two transaction-scoped advisory locks, DDL on objects that all   *)
(* namespaces of the database share.  A transaction's writes are kept in   *)
(* own[p] until it commits; a read sees the committed state under them     *)
(* (READ COMMITTED).                                                       *)
(***************************************************************************)
EXTENDS StoreConfigs

CONSTANTS
    Namespaces,    \* the document stores that share the database
    NamespaceOf,   \* NamespaceOf[p]: DOCUMENT_STORE_NAMESPACE of p
    Observed,      \* the namespace the refinement is stated of
    Large,         \* configurations of more than 2000 dimensions
    Package,       \* the pgvector version the server ships: "old" or "new"
    MayUpdate,     \* the processes started with PG_UPDATE_VECTOR_EXTENSION
    Leftovers      \* may the operator forget the manifest row, or drop indexes?

ASSUME NamespaceAssumption ==
    NamespaceOf \in [Procs -> Namespaces] /\ Observed \in Namespaces
ASSUME ExtensionAssumption ==
    Large \subseteq Configs /\ Package \in {"old", "new"}
ASSUME AbsentAssumption ==
    None \notin {"old", "new"} /\ None \notin [column : Shapes, indexed : BOOLEAN]
ASSUME SwitchAssumption == MayUpdate \subseteq Procs /\ Leftovers \in BOOLEAN

VARIABLES
    db,          \* the committed catalog: a value for each of Items
    lacking,     \* auxiliary: lacking[n], the parts of n's store that operators
                 \* took away, or that are older than manifests
    docs,        \* docs[n]: the configurations behind the rows of n's table
    globalLock,  \* advisory_lock_key("ragpi", "global_ddl")
    nsLock,      \* nsLock[n]: the lock of namespace n
    own,         \* own[p]: what p's open transaction has written
    pc,
    cfg          \* cfg[p]: the settings p runs with, None if it does not

locks == <<globalLock, nsLock>>
vars == <<db, lacking, docs, locks, own, pc, cfg>>

(***************************************************************************)
(* The catalog: the extension and the manifest table are shared by all     *)
(* namespaces, a manifest row and a document table belong to one.          *)
(***************************************************************************)
Extension == <<"extension", None>>
ManifestTable == <<"manifest table", None>>
Manifest(n) == <<"manifest", n>>
Table(n) == <<"table", n>>

Items == {Extension, ManifestTable}
           \cup {Manifest(n) : n \in Namespaces}
           \cup {Table(n) : n \in Namespaces}

\* A table with the embedding column of c, with or without all its indexes.
TableFor(c, indexed) == [column |-> ShapeOf[c], indexed |-> indexed]

\* What p's transaction reads.
Seen(p, item) == IF item \in DOMAIN own[p] THEN own[p][item] ELSE db[item]

Ns(p) == NamespaceOf[p]

Resting == {"off", "up", "failed"}
InTransaction ==
    {"global_lock", "ns_lock", "extension", "version", "manifest_table",
     "manifest", "validate", "adopt", "create_table", "create_indexes",
     "write_manifest", "commit", "committed"}

\* Databases nobody has started on, with or without the extension, whose
\* stores do not exist or were written before there were manifests.
Init ==
    /\ \E extension \in {None, "old", "new"} :
       \E legacy \in SUBSET Namespaces :
       \E c \in Configs :
         /\ legacy # {} => c \in Adoptable /\ extension # None
         /\ db = [i \in Items |->
                    CASE i = Extension -> extension
                      [] i = ManifestTable -> FALSE
                      [] i[1] = "table" /\ i[2] \in legacy -> TableFor(c, TRUE)
                      [] OTHER -> None]
         /\ docs = [n \in Namespaces |-> IF n \in legacy THEN {c} ELSE {}]
         /\ lacking =
              [n \in Namespaces |-> IF n \in legacy THEN {"manifest"} ELSE {}]
    /\ globalLock = None
    /\ nsLock = [n \in Namespaces |-> None]
    /\ own = [p \in Procs |-> <<>>]
    /\ pc = [p \in Procs |-> "off"]
    /\ cfg = [p \in Procs |-> None]

Move(p, to) == pc' = [pc EXCEPT ![p] = to]

\* p reads something and branches.
Reads(p, at, to) ==
    /\ pc[p] = at
    /\ Move(p, to)
    /\ UNCHANGED <<db, lacking, docs, locks, own, cfg>>

\* p's transaction writes an item.
Writes(p, item, value) ==
    /\ own' = [own EXCEPT ![p] =
                 [i \in DOMAIN own[p] \cup {item} |->
                    IF i = item THEN value ELSE own[p][i]]]
    /\ UNCHANGED <<db, lacking, docs, locks, cfg>>

\* The end of p's transaction gives back its advisory locks.
FreesLocks(p) ==
    /\ globalLock' = IF globalLock = p THEN None ELSE globalLock
    /\ nsLock' = [n \in Namespaces |-> IF nsLock[n] = p THEN None ELSE nsLock[n]]
    /\ own' = [own EXCEPT ![p] = <<>>]

\* An error inside `with engine.begin()`: everything is rolled back, and the
\* process ends.
Aborts(p, to) ==
    /\ FreesLocks(p)
    /\ Move(p, to)
    /\ cfg' = [cfg EXCEPT ![p] = None]
    /\ UNCHANGED <<db, lacking, docs>>

-----------------------------------------------------------------------------
(* The start of a process, statement by statement. *)

Start(p) ==
    /\ pc[p] \in {"off", "failed"}
    /\ \E c \in Configs : cfg' = [cfg EXCEPT ![p] = c]
    /\ Move(p, "global_lock")
    /\ UNCHANGED <<db, lacking, docs, locks, own>>

\* Mutant: only the namespace's own lock is taken.
MutantTakesGlobalLock(p) == Reads(p, "global_lock", "ns_lock")

TakesGlobalLock(p) ==
    /\ pc[p] = "global_lock"
    /\ globalLock = None
    /\ globalLock' = p
    /\ Move(p, "ns_lock")
    /\ UNCHANGED <<db, lacking, docs, nsLock, own, cfg>>

TakesNsLock(p) ==
    /\ pc[p] = "ns_lock"
    /\ nsLock[Ns(p)] = None
    /\ nsLock' = [nsLock EXCEPT ![Ns(p)] = p]
    /\ Move(p, "extension")
    /\ UNCHANGED <<db, lacking, docs, globalLock, own, cfg>>

\* pg_try_advisory_xact_lock is polled for 30 s, each lock on its own.
GivesUp(p) ==
    /\ \/ pc[p] = "global_lock" /\ globalLock # None
       \/ pc[p] = "ns_lock" /\ nsLock[Ns(p)] # None
    /\ Aborts(p, "failed")

\* CREATE EXTENSION IF NOT EXISTS vector.
CreatesExtension(p) ==
    /\ pc[p] = "extension"
    /\ IF Seen(p, Extension) = None
         THEN Writes(p, Extension, Package)
         ELSE UNCHANGED <<db, lacking, docs, locks, own, cfg>>
    /\ Move(p, "version")

\* Mutant: a configuration of more than 2000 dimensions is not asked about.
MutantNeedsNewer(p) == FALSE

\* _ensure_extension_version: the large path needs 0.8.2.
NeedsNewer(p) == cfg[p] \in Large /\ Seen(p, Extension) # "new"

HasVersion(p) == ~NeedsNewer(p) /\ Reads(p, "version", "manifest_table")

\* ALTER EXTENSION vector UPDATE brings the server's version.
UpdatesExtension(p) ==
    /\ pc[p] = "version"
    /\ NeedsNewer(p)
    /\ p \in MayUpdate
    /\ Package = "new"
    /\ Writes(p, Extension, Package)
    /\ Move(p, "manifest_table")

LacksVersion(p) ==
    /\ pc[p] = "version"
    /\ NeedsNewer(p)
    /\ ~(p \in MayUpdate /\ Package = "new")
    /\ Aborts(p, "failed")

\* CREATE TABLE IF NOT EXISTS ragpi_store_manifest.
CreatesManifestTable(p) ==
    /\ pc[p] = "manifest_table"
    /\ IF Seen(p, ManifestTable)
         THEN UNCHANGED <<db, lacking, docs, locks, own, cfg>>
         ELSE Writes(p, ManifestTable, TRUE)
    /\ Move(p, "manifest")

\* compare_manifests.
SameConfig(p, certified) == certified = cfg[p]

\* The row, then the table, decide on one of the three paths.
ReadsManifest(p) ==
    /\ pc[p] = "manifest"
    /\ LET certified == Seen(p, Manifest(Ns(p))) IN
         IF certified = None
           THEN /\ Move(p, IF Seen(p, Table(Ns(p))) = None
                             THEN "create_table" ELSE "adopt")
                /\ UNCHANGED <<db, lacking, docs, locks, own, cfg>>
         ELSE IF SameConfig(p, certified)
           THEN /\ Move(p, "validate")
                /\ UNCHANGED <<db, lacking, docs, locks, own, cfg>>
         ELSE Aborts(p, "failed")

\* _validate_physical_store.
Fits(p) == Seen(p, Table(Ns(p))) = TableFor(cfg[p], TRUE)

Validates(p) ==
    /\ pc[p] = "validate"
    /\ IF Fits(p)
         THEN Move(p, "commit") /\ UNCHANGED <<db, lacking, docs, locks, own, cfg>>
         ELSE Aborts(p, "failed")

\* Mutant: any store whose table fits is adopted.
MutantMayAdopt(p) == Fits(p)

\* _adopt_legacy: structure first, then the unverifiable identity.
MayAdopt(p) == Fits(p) /\ cfg[p] \in Adoptable

Adopts(p) ==
    /\ pc[p] = "adopt"
    /\ IF MayAdopt(p)
         THEN /\ Writes(p, Manifest(Ns(p)), cfg[p])
              /\ Move(p, "commit")
         ELSE Aborts(p, "failed")

\* Mutant: DDL runs outside the transaction.
MutantCreatesTable(p) ==
    /\ pc[p] = "create_table"
    /\ db' = [db EXCEPT ![Table(Ns(p))] = TableFor(cfg[p], FALSE)]
    /\ Move(p, "create_indexes")
    /\ UNCHANGED <<lacking, docs, locks, own, cfg>>

\* _create_fresh: create_all, then the indexes, then the manifest.
CreatesTable(p) ==
    /\ pc[p] = "create_table"
    /\ Writes(p, Table(Ns(p)), TableFor(cfg[p], FALSE))
    /\ Move(p, "create_indexes")

CreatesIndexes(p) ==
    /\ pc[p] = "create_indexes"
    /\ Writes(p, Table(Ns(p)), TableFor(cfg[p], TRUE))
    /\ Move(p, "write_manifest")

WritesManifest(p) ==
    /\ pc[p] = "write_manifest"
    /\ Writes(p, Manifest(Ns(p)), cfg[p])
    /\ Move(p, "commit")

\* The parts of its store that p's transaction puts there.
PartsWritten(p) ==
    {part \in {"manifest"} : Manifest(Ns(p)) \in DOMAIN own[p]}
      \cup {part \in {"table", "index"} : Table(Ns(p)) \in DOMAIN own[p]}

Commits(p) ==
    /\ pc[p] = "commit"
    /\ db' = [item \in Items |-> Seen(p, item)]
    /\ lacking' = [lacking EXCEPT ![Ns(p)] = @ \ PartsWritten(p)]
    /\ FreesLocks(p)
    /\ Move(p, "committed")
    /\ UNCHANGED <<docs, cfg>>

\* run_preflight returns and the process serves.
ComesUp(p) == Reads(p, "committed", "up")

-----------------------------------------------------------------------------
(* The rest of the world. *)

\* A process that is up stores vectors.
Embed(p) ==
    /\ pc[p] = "up"
    /\ docs' = [docs EXCEPT ![Ns(p)] = @ \cup {cfg[p]}]
    /\ UNCHANGED <<db, lacking, locks, own, pc, cfg>>

\* A process dies: the server rolls its transaction back.
Crash(p) ==
    /\ pc[p] \in InTransaction \cup {"up"}
    /\ Aborts(p, "off")

Stopped(n) ==
    \A p \in Procs : Ns(p) = n => pc[p] \in Resting \ {"up"}

\* The operator's reset: DROP TABLE and delete the manifest row.
Reset(n) ==
    /\ Stopped(n)
    /\ db[ManifestTable]
    /\ \E certified \in IF Leftovers THEN {db[Manifest(n)], None} ELSE {None} :
         /\ db' = [db EXCEPT ![Table(n)] = None, ![Manifest(n)] = certified]
         /\ lacking' = [lacking EXCEPT
                          ![n] = IF certified = None THEN {} ELSE {"table"}]
    /\ docs' = [docs EXCEPT ![n] = {}]
    /\ UNCHANGED <<locks, own, pc, cfg>>

\* The operator's index rebuild: the manifest row goes, the rows stay.
Rebuild(n) ==
    /\ Stopped(n)
    /\ db[Manifest(n)] \in Adoptable
    /\ db[Table(n)] # None
    /\ db' = [db EXCEPT ![Table(n)].indexed = TRUE, ![Manifest(n)] = None]
    /\ lacking' = [lacking EXCEPT ![n] = {"manifest"}]
    /\ UNCHANGED <<docs, locks, own, pc, cfg>>

\* Somebody drops an index.
DropIndex(n) ==
    /\ Leftovers
    /\ db[Table(n)] # None
    /\ db' = [db EXCEPT ![Table(n)].indexed = FALSE]
    /\ lacking' = [lacking EXCEPT ![n] = @ \cup {"index"}]
    /\ UNCHANGED <<docs, locks, own, pc, cfg>>

Preflight(p) ==
    \/ TakesGlobalLock(p)
    \/ TakesNsLock(p)
    \/ CreatesExtension(p)
    \/ HasVersion(p)
    \/ UpdatesExtension(p)
    \/ LacksVersion(p)
    \/ CreatesManifestTable(p)
    \/ ReadsManifest(p)
    \/ Validates(p)
    \/ Adopts(p)
    \/ CreatesTable(p)
    \/ CreatesIndexes(p)
    \/ WritesManifest(p)
    \/ Commits(p)
    \/ ComesUp(p)

Next ==
    \/ \E p \in Procs :
         Start(p) \/ Preflight(p) \/ GivesUp(p) \/ Embed(p) \/ Crash(p)
    \/ \E n \in Namespaces : Reset(n) \/ Rebuild(n) \/ DropIndex(n)

Spec == Init /\ [][Next]_vars

-----------------------------------------------------------------------------
(* Properties. *)

Up(p) == pc[p] = "up"

\* No two open transactions have written the same catalog object: IF NOT
\* EXISTS does not protect concurrent creators from each other.
OneWriter ==
    \A p, q \in Procs : p # q => DOMAIN own[p] \cap DOMAIN own[q] = {}

\* A process that is up on more than 2000 dimensions has the extension it
\* needs, whoever else's transactions the extension was updated in.
LargeNeedsNew ==
    \A p \in Procs : Up(p) /\ cfg[p] \in Large => db[Extension] = "new"

\* The parts that are not there of a store some part of which is.
Missing(n) ==
    LET row == db[Manifest(n)]
        table == db[Table(n)]
    IN  {part \in {"manifest"} : row = None /\ table # None}
          \cup {part \in {"table"} : row # None /\ table = None}
          \cup {part \in {"index"} : table # None /\ ~table.indexed}

\* What a store lacks, of manifest row, table and indexes, an operator took
\* away or it is older than manifests: at whatever statement starts of
\* _pg_preflight fail or die, they leave no half-built store behind, not even
\* one of a shape that a later start would adopt.
NothingHalfDone == \A n \in Namespaces : Missing(n) \subseteq lacking[n]

(***************************************************************************)
(* A namespace goes through the atomic validation; its table stands for    *)
(* the index there, since the rows live and die with it.                   *)
(***************************************************************************)
ProcsHere == {p \in Procs : Ns(p) = Observed}

TableHere == db[Table(Observed)]

Store == INSTANCE StorePreflight
           WITH Procs <- ProcsHere,
                manifest <- db[Manifest(Observed)],
                index <- IF TableHere = None THEN None ELSE TableHere.column,
                docs <- docs[Observed],
                up <- [p \in ProcsHere |-> IF Up(p) THEN cfg[p] ELSE None]

\* Statement by statement, the transactions of _pg_preflight behave for one
\* namespace as the atomic validation of StorePreflight.
ImplementsStore == Store!Spec

=============================================================================
