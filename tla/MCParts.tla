------------------------------ MODULE MCParts ------------------------------
\* Small instances of parts of the repository that have nothing to say to one
\* another, one machine in a run of its own each: part says which.
EXTENDS Seed, Routes, Extraction, MCMigrations

CONSTANTS
  a1, a2,          \* the addresses
  pa, pb, pc, pd   \* the packages

VARIABLE part

partsVars == <<part, seedVars, call, reviewOf, listed, rights, toolVars, migrationVars>>

Parts == {"accounts", "seed", "routes", "extraction", "migrations"}

MCSeedAccounts == <<a1, a2>>
MCWanted == [a \in Addresses |-> IF a = a1 THEN {"catalogue_manager"} ELSE {}]

\* A workspace whose packages pa to pd depend on the four sets; vitest finds the
\* tests there are, and no package passes without.
Workspace(A, B, C, D, liftable, tests, buildOnly, pinned) ==
  [deps |-> pa :> A @@ pb :> B @@ pc :> C @@ pd :> D,
   liftable |-> liftable, tests |-> tests, globbed |-> tests, lenient |-> {},
   buildOnly |-> buildOnly, pinned |-> pinned]
MCWorkspaces ==
  \* a diamond, a chain with a shortcut
  {Workspace({}, {pa}, {pa}, {pb, pc}, {pa, pb, pd}, {pa, pb}, {pb}, TRUE),
   Workspace({}, {pa}, {pb}, {pa, pc}, {pa, pb, pd}, {pd}, {pb}, TRUE)}
  \* a dependency of itself, an unknown one, a cycle, a chain
  \cup {Workspace(deps[1], deps[2], deps[3], deps[4], {pa, pb}, {pa}, {}, TRUE) :
          deps \in {<<{}, {pc}, {pd}, {pc}>>, <<{Unknown}, {pa}, {}, {}>>,
                    <<{pa}, {}, {}, {pa}>>, <<{pb}, {pc}, {pd}, {}>>}}
  \* nothing pinned; tests that vitest misses, a package that passes without any
  \cup {[Workspace({}, {pa}, {}, {}, {pa, pb}, tests, {}, pinned) EXCEPT !.globbed = {}, !.lenient = {pb}] :
          <<tests, pinned>> \in {<<{}, FALSE>>, <<{}, TRUE>>, <<{pb}, TRUE>>}}

-----------------------------------------------------------------------------

\* Where the machine of a part that is not running rests.
RestScript ==
  /\ at = "ended" /\ ensured = 0 /\ author = 0 /\ held = 0
  /\ product = Nothing /\ review = Nothing /\ rated = 0 /\ meddled = 0
RestRoutes ==
  /\ call = [b \in Callers |-> NoCall] /\ reviewOf = [i \in Ids |-> Nothing] /\ listed = Nothing
  /\ rights = [b \in Callers |-> {}]
RestTool ==
  /\ workspace = Workspace({}, {pa}, {}, {}, {pa, pb}, {}, {}, FALSE)
  /\ command = [kind |-> "all"] /\ queue = <<>> /\ stage = "ended" /\ exit = 1
  /\ closure = {} /\ stack = <<>>
  /\ degree = [p \in Packages |-> 0] /\ ready = <<>> /\ order = <<>>
  /\ next = 1 /\ copied = {} /\ built = {} /\ ranTests = FALSE /\ tested = FALSE
  /\ results = <<>>

RestMigrations ==
  /\ releases = <<{}, {}>> /\ lock = Nobody /\ executed = <<>> /\ database = {}
  /\ run = [r \in Runners |-> Idle] /\ work = [r \in Runners |-> NoWork]

PartsInit ==
  \/ part \in {"accounts", "seed"} /\ SeedInit /\ RestRoutes /\ RestTool /\ RestMigrations
  \/ part = "routes" /\ RoutesInit /\ RestScript /\ RestTool /\ RestMigrations
  \/ part = "extraction" /\ ToolInit /\ SeedInit /\ RestRoutes /\ RestMigrations
  \/ part = "migrations" /\ MigrationsInit /\ SeedInit /\ RestRoutes /\ RestTool

\* Bound: nobody is made a moderator where no part asks for one.
NoModerators == \A i \in Ids : appUser'[i] # Nothing => "moderator" \notin appUser'[i].caps

PartsNext ==
  /\ part' = part
  /\ \/ /\ part = "accounts" /\ AccountsNext /\ NoModerators
        /\ UNCHANGED <<script, catalogue, meddled, call, reviewOf, listed, rights, toolVars, migrationVars>>
     \/ /\ part = "seed" /\ SeedNext /\ NoModerators
        /\ UNCHANGED <<call, reviewOf, listed, rights, toolVars, migrationVars>>
     \/ /\ part = "routes" /\ RoutesNext
        /\ UNCHANGED <<script, catalogue, meddled, toolVars, migrationVars>>
     \/ /\ part = "extraction" /\ ToolNext
        /\ UNCHANGED <<seedVars, call, reviewOf, listed, rights, migrationVars>>
     \/ /\ part = "migrations" /\ MigrationsNext
        /\ UNCHANGED <<seedVars, call, reviewOf, listed, rights, toolVars>>

PartsSpec == PartsInit /\ [][PartsNext]_partsVars

\* Every variable of the parts that run holds a value of its column or set.
PartsTypeOK == part \in Parts /\ SeedTypeOK /\ RoutesTypeOK /\ MigrationsTypeOK
=============================================================================
