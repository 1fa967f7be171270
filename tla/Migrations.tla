----------------------------- MODULE Migrations -----------------------------
(***************************************************************************)
(* The database's migrations: the gate that reads their SQL in CI          *)
(* (tools/arch-checks/src/migration-ddl.ts) and the runner that applies    *)
(* them (packages/persistence/src/migrate.ts, apps/api/src/db/migrate.ts)  *)
(* over Kysely's Migrator, which is external: one lock, one transaction    *)
(* for all that is pending, and a check that what was executed is a prefix *)
(* of what there is.  Several releases run it at once, and any run may be  *)
(* killed.  Of SQL the model keeps what the gate's rules and the database  *)
(* tell apart; names are compared in lower case.                           *)
(***************************************************************************)
EXTENDS Naturals, Sequences, FiniteSets, SequencesExt

CONSTANTS
  Runners,
  Histories,    \* the pairs of releases tried, the second with all files of the first
  Folders,      \* the folders the runner is given
  Registry,     \* schema.table -> [class, horizon]
  LibraryTables,\* tables that keep the library's id
  Reserved, Denied, Plural,   \* words, names with a denied part, plural nouns
  Purposes,     \* what may follow <prefix><table>__ in a name
  MaxName,      \* bytes PostgreSQL keeps of a name
  Nobody        \* no runner, no exit code, no name, no database

ASSUME HistoriesAssumption ==
  /\ Nobody \notin Runners \cup {0, 1}
  /\ \A h \in Histories :
       /\ DOMAIN h = {1, 2} /\ h[1] \subseteq h[2] /\ IsFiniteSet(h[2])
       /\ \A f \in h[2] : f.name \in Nat

VARIABLES
  releases,
  run,       \* each runner's run
  lock,      \* who holds the Migrator's lock
  executed,  \* the files whose migrations are recorded, in order
  database,  \* the statements whose effect stands
  work       \* executed and database in each open transaction

migrationVars == <<releases, run, lock, executed, database, work>>

Idle == [at |-> "idle", plan |-> <<>>, exit |-> Nobody, release |-> {}]
NoWork == [executed |-> <<>>, database |-> {}]

-----------------------------------------------------------------------------
(* Statements.  A file is [folder, name, index, padded, up, does, undoes]: its
   name is its place in the order of names, index the number it begins with.   *)

\* "schema.table"; an unqualified name has the empty schema.
Qualified(s) == s.schema \o "." \o s.table

Of(S, kind) == {s \in S : s.kind = kind}

\* The gate reads a CREATE TABLE, an index, a trigger and an INSERT only in their
\* plain forms: CREATE TABLE IF NOT EXISTS or a quoted name is none of these to it.
Parsed(S, kind) == {s \in Of(S, kind) : s.plain}

\* Every sql`...` of the file's text, those of down() as well.
Text(f) == ToSet(f.does \o f.undoes)
Texts(t) == UNION {Text(f) : f \in t}

-----------------------------------------------------------------------------
(* The gate: one operator per rule, TRUE when the tree keeps it. *)

Fits(name) == Len(name) <= MaxName

\* Tables, columns, named constraints, indexes and triggers.
IdentifierLength(t) ==
  /\ \A s \in Parsed(Texts(t), "table") :
       /\ Fits(Qualified(s)) /\ \A c \in s.columns : Fits(c.name)
       /\ \A k \in s.constraints : k.name # Nobody => Fits(k.name)
  /\ \A s \in Parsed(Texts(t), "index") \cup Parsed(Texts(t), "trigger") :
       s.name # Nobody => Fits(s.name)

Prefix == [PK |-> "pk_", FK |-> "fk_", UNIQUE |-> "uq_", CHECK |-> "ck_",
           INDEX |-> "ix_", TRIGGER |-> "tg_"]

MatchesNamePattern(kind, name, table) ==
  IF kind = "PK" THEN name = "pk_" \o table
                 ELSE \E p \in Purposes : name = Prefix[kind] \o table \o "__" \o p

\* Inline constraints have no name.
ConstraintNaming(t) ==
  /\ \A s \in Parsed(Texts(t), "table"), k \in UNION {x.constraints : x \in Parsed(Texts(t), "table")} :
       k \in s.constraints => k.name # Nobody /\ MatchesNamePattern(k.kind, k.name, s.table)
  /\ \A s \in Parsed(Texts(t), "index") :
       s.name # Nobody /\ MatchesNamePattern(IF s.unique THEN "UNIQUE" ELSE "INDEX", s.name, s.table)
  /\ \A s \in Parsed(Texts(t), "trigger") : MatchesNamePattern("TRIGGER", s.name, s.table)

WordsAreFull(t) ==
  \A s \in Parsed(Texts(t), "table") :
    /\ ({s.table} \cup {c.name : c \in s.columns}) \cap (Reserved \cup Denied) = {}
    /\ s.table \notin Plural

\* Composite keys, projections and the library's tables are exempt.
EntityPrimaryKeyNaming(t) ==
  \A s \in Parsed(Texts(t), "table") :
    \/ Qualified(s) \in DOMAIN Registry /\ Registry[Qualified(s)].class = "projection"
    \/ Qualified(s) \in LibraryTables
    \/ \A k \in s.constraints :
         k.kind = "PK" /\ Cardinality(k.columns) = 1 => k.columns = {s.table \o "_id"}

NoIfNotExistsNoEnum(t) == \A s \in Texts(t) : ~s.ifNotExists /\ s.kind # "enum"

\* Index 0, however many zeros it is written with, is the cluster's.
RootMigrationDiscipline(t) ==
  /\ Cardinality({f \in t : f.index = 0}) <= 1
  /\ \A f \in t : \A s \in Text(f) : (s.kind = "cluster") <=> (f.index = 0)

TimestampAndBoolean(t) ==
  \A s \in Parsed(Texts(t), "table") : \A c \in s.columns :
    c.type # "timestamp" /\ (c.type = "boolean" => c.notNull)

SetsUpdatedAt(s, g) == g.table = s.table /\ g.name = "tg_" \o s.table \o "__set_updated_at"

\* Mutant: the trigger may be in any migration.
UpdatedAtTriggerAnywhere(t) ==
  \A f \in t : \A s \in Parsed(Text(f), "table") :
    (\E c \in s.columns : c.name = "updated_at") =>
      \E g \in Parsed(Texts(t), "trigger") : SetsUpdatedAt(s, g)
\* In the table's own file; the schemas are not compared.
UpdatedAtTrigger(t) ==
  \A f \in t : \A s \in Parsed(Text(f), "table") :
    (\E c \in s.columns : c.name = "updated_at") =>
      \E g \in Parsed(Text(f), "trigger") : SetsUpdatedAt(s, g)

StorageParameterDefaults(t) == \A s \in Parsed(Texts(t), "table") : ~s.restatesDefault

\* <table>_id integer NOT NULL PRIMARY KEY, name text NOT NULL UNIQUE, no more.
IsVocabulary(s) ==
  /\ s.columns = {[name |-> s.table \o "_id", type |-> "integer", notNull |-> TRUE],
                  [name |-> "name", type |-> "text", notNull |-> TRUE]}
  /\ \E k \in s.constraints : k.kind = "PK" /\ k.columns = {s.table \o "_id"}
  /\ \E k \in s.constraints : k.kind = "UNIQUE" /\ k.columns = {"name"}

InsertPlacement(t) ==
  \A f \in {x \in t : x.index # 0} : \A s \in Parsed(Text(f), "insert") :
    \/ s.schema = "reference"
    \/ \E v \in Parsed(Texts(t), "table") : Qualified(v) = Qualified(s) /\ IsVocabulary(v)

\* A row for every table, a horizon for every evidence, a table for every row.
LifecycleRegistry(t) ==
  LET created == {Qualified(s) : s \in Parsed(Texts(t), "table")} IN
  /\ created = DOMAIN Registry
  /\ \A q \in created : Registry[q].class = "evidence" => Registry[q].horizon

CheckMigrationDdl(t) ==
  /\ IdentifierLength(t) /\ ConstraintNaming(t) /\ WordsAreFull(t)
  /\ EntityPrimaryKeyNaming(t) /\ NoIfNotExistsNoEnum(t) /\ RootMigrationDiscipline(t)
  /\ TimestampAndBoolean(t) /\ UpdatedAtTrigger(t) /\ StorageParameterDefaults(t)
  /\ InsertPlacement(t) /\ LifecycleRegistry(t)

-----------------------------------------------------------------------------
(* PostgreSQL: a statement's effect on what stands. *)

Standing(db, s) == {x \in Of(db, "table") : Qualified(x) = Qualified(s)}

\* A trigger's name is its table's, an index's its schema's.
NameTaken(db, s) ==
  \E x \in Of(db, s.kind) :
    x.name = s.name /\ x.schema = s.schema /\ (s.kind = "trigger" => x.table = s.table)

ColumnNames(columns) == {c.name : c \in columns}

\* An "alter" is an ALTER TABLE that adds its columns: no rule of the gate reads it.
Possible(db, s) ==
  CASE s.kind = "table" -> Standing(db, s) = {} \/ s.ifNotExists
    [] s.kind \in {"insert", "drop"} -> Standing(db, s) # {}
    [] s.kind \in {"index", "trigger"} -> Standing(db, s) # {} /\ ~NameTaken(db, s)
    [] s.kind = "alter" -> \E x \in Standing(db, s) : ColumnNames(x.columns) \cap ColumnNames(s.columns) = {}
    [] OTHER -> TRUE

Effect(db, s) ==
  CASE s.kind = "drop" -> {x \in db : x.kind = "enum" \/ Qualified(x) # Qualified(s)}
    [] s.kind = "table" /\ Standing(db, s) # {} -> db
    [] s.kind = "cluster" -> db
    [] s.kind = "alter" ->
         {IF x \in Standing(db, s) THEN [x EXCEPT !.columns = @ \cup s.columns] ELSE x : x \in db}
    [] OTHER -> db \cup {s}

\* What up() leaves, Nobody when a statement of it fails.
Up(db, f) ==
  FoldLeft(LAMBDA d, s : IF d = Nobody \/ ~Possible(d, s) THEN Nobody ELSE Effect(d, s), db, f.does)

-----------------------------------------------------------------------------
(* The runner. *)

\* NNNN-description: four digits.
Listed(t) == {f \in t : f.folder \in Folders /\ f.padded}

Ascending(q) == \A i, j \in DOMAIN q : i < j => q[i].name < q[j].name

\* The Migrator sorts by name.
InOrder(S) == CHOOSE q \in SetToSeqs(S) : Ascending(q)

MigrationsInit ==
  /\ releases \in Histories
  /\ run = [r \in Runners |-> Idle] /\ work = [r \in Runners |-> NoWork]
  /\ lock = Nobody /\ executed = <<>> /\ database = {}

\* Mutant: the run does not wait for its handle to be destroyed: the lock is
\* let go and the transaction is not.
EndsUnlocked(r, exit) ==
  /\ run' = [run EXCEPT ![r].at = "ended", ![r].exit = exit]
  /\ lock' = IF lock = r THEN Nobody ELSE lock
  /\ UNCHANGED work

\* The transaction, if any, is over, and the lock with it.
Ends(r, exit) ==
  /\ run' = [run EXCEPT ![r].at = "ended", ![r].exit = exit]
  /\ lock' = IF lock = r THEN Nobody ELSE lock
  /\ work' = [work EXCEPT ![r] = NoWork]

\* Mutant: of two files of one name the later is kept.
CollectLast(r) ==
  /\ run[r].at = "idle"
  /\ \E t \in ToSet(releases) :
       LET files == Listed(t)
           kept == {f \in files : \A g \in files : g.name = f.name => f = CHOOSE x \in files : x.name = f.name} IN
       IF \E f \in files : ~f.up
         THEN Ends(r, 1)
         ELSE /\ run' = [run EXCEPT ![r].at = "collected", ![r].plan = InOrder(kept), ![r].release = t]
              /\ UNCHANGED <<lock, work>>
  /\ UNCHANGED <<releases, executed, database>>
\* composeConfig and collectMigrations, on a checkout of some release: before the
\* database is touched, two files of one name or one without up() end it.
Collect(r) ==
  /\ run[r].at = "idle"
  /\ \E t \in ToSet(releases) :
       LET files == Listed(t) IN
       IF \E f, g \in files : ~f.up \/ (f # g /\ f.name = g.name)
         THEN Ends(r, 1)
         ELSE /\ run' = [run EXCEPT ![r].at = "collected", ![r].plan = InOrder(files), ![r].release = t]
              /\ UNCHANGED <<lock, work>>
  /\ UNCHANGED <<releases, executed, database>>

NamesOf(files) == [i \in DOMAIN files |-> files[i].name]

\* Under the lock: what was executed must be a prefix of the plan.
Begin(r) ==
  /\ run[r].at = "collected" /\ lock = Nobody
  /\ IF IsPrefix(NamesOf(executed), NamesOf(run[r].plan))
       THEN /\ lock' = r /\ run' = [run EXCEPT ![r].at = "migrating"]
            /\ work' = [work EXCEPT ![r] = [executed |-> executed, database |-> database]]
       ELSE Ends(r, 1)
  /\ UNCHANGED <<releases, executed, database>>

Pending(r) == Len(work[r].executed) < Len(run[r].plan)

\* One migration's up(), and its row.
Apply(r) ==
  /\ run[r].at = "migrating" /\ Pending(r)
  /\ LET f == run[r].plan[Len(work[r].executed) + 1]
         db == Up(work[r].database, f) IN
     IF db = Nobody
       THEN Ends(r, 1)
       ELSE /\ work' = [work EXCEPT ![r] = [executed |-> Append(@.executed, f), database |-> db]]
            /\ UNCHANGED <<run, lock>>
  /\ UNCHANGED <<releases, executed, database>>

\* COMMIT; the report may not come back.
CommitAll(r) ==
  /\ run[r].at = "migrating" /\ ~Pending(r)
  /\ executed' = work[r].executed /\ database' = work[r].database
  /\ \E exit \in {0, 1} : Ends(r, exit)
  /\ UNCHANGED releases

\* Killed, or a connection lost: the transaction is rolled back.
Dies(r) ==
  /\ run[r].at \in {"collected", "migrating"}
  /\ Ends(r, 1)
  /\ UNCHANGED <<releases, executed, database>>

Again(r) ==
  /\ run[r].at = "ended"
  /\ run' = [run EXCEPT ![r] = Idle]
  /\ UNCHANGED <<releases, lock, executed, database, work>>

MigrationsNext ==
  \E r \in Runners : Collect(r) \/ Begin(r) \/ Apply(r) \/ CommitAll(r) \/ Dies(r) \/ Again(r)

MigrationsSpec == MigrationsInit /\ [][MigrationsNext]_migrationVars

-----------------------------------------------------------------------------
(* Properties *)

MigrationsTypeOK ==
  /\ ToSet(executed) \subseteq UNION ToSet(releases)
  /\ \A r \in Runners :
       /\ run[r].at \in {"idle", "collected", "migrating", "ended"}
       /\ run[r].exit \in {0, 1, Nobody}
       /\ work[r] # NoWork => lock = r
  /\ lock \in Runners \cup {Nobody}

\* migrate.ts:20-27 and collect-migrations.ts:21-29: whichever releases run at once
\* and whoever dies, each migration takes effect once and whole, in the order of
\* the names, and a run that exits 0 left nothing of its release's folders out.
AppliedOnceInOrder ==
  /\ Ascending(executed)
  /\ database = FoldLeft(Up, {}, executed)
  /\ \A r \in Runners : run[r].exit = 0 => Listed(run[r].release) \subseteq ToSet(executed)

\* The claim's own bound, what no rule of the gate reads: a file the runner does not
\* run, a statement in another form than the plain one, a DROP in up() or anything else in
\* down(), an updated_at or a change of a vocabulary by ALTER, and the schema: of two
\* tables of one name the gate takes the one's trigger for the other's (1067).
InScope(t) ==
  LET tables == Of(Texts(t), "table") IN
  /\ Listed(t) = t
  /\ \A s \in Texts(t) : s.plain
  /\ \A f \in t : Of(ToSet(f.does), "drop") = {} /\ Of(ToSet(f.undoes), "drop") = ToSet(f.undoes)
  /\ \A s \in Of(Texts(t), "alter") :
       /\ "updated_at" \notin ColumnNames(s.columns)
       /\ \A v \in tables : Qualified(v) = Qualified(s) => ~IsVocabulary(v)
  /\ \A s, g \in tables : s.table = g.table => s = g

\* Every table that stands and has updated_at has on it the trigger that sets it.
UpdatedAtIsSet ==
  \A s \in Of(database, "table") :
    "updated_at" \in ColumnNames(s.columns) =>
      \E g \in Of(database, "trigger") : Qualified(g) = Qualified(s) /\ SetsUpdatedAt(s, g)

\* ADR-0011, ADR-0006 and migration-ddl.ts:1-26: at every commit of migrations from a
\* release the gate accepts and that keeps to the scope, the whole of it or the part an
\* earlier release had, every table with updated_at has its trigger, rows stand only in
\* vocabularies, no name was truncated, and what stands has its row in the registry.
GateKeepsDatabase ==
  CheckMigrationDdl(releases[2]) /\ InScope(releases[2]) =>
    /\ UpdatedAtIsSet
    /\ \A s \in Of(database, "table") : Qualified(s) \in DOMAIN Registry
    /\ \A s \in Of(database, "insert") :
         s.schema = "reference" \/ \E v \in Standing(database, s) : IsVocabulary(v)
    /\ \A s \in database : s.kind \in {"index", "trigger"} => Len(s.name) <= MaxName
    /\ \A s \in Of(database, "table") : \A k \in s.constraints : Len(k.name) <= MaxName
=============================================================================
