----------------------------- MODULE Extraction -----------------------------
(***************************************************************************)
(* The extraction proof (tools/extract-module/src): each target and the    *)
(* packages it reaches over workspace:* edges are copied out of the        *)
(* repository and, in dependency order, installed and built; the target's  *)
(* tests run.  One action per step that can fail on its own.  A workspace  *)
(* is what package.json, moon.yml and git say of the packages: MC modules  *)
(* list the shapes to try.  Packages are told apart by folder; a second    *)
(* root with a folder of the same name would hide the first.               *)
(***************************************************************************)
EXTENDS Naturals, Sequences, FiniteSets, SequencesExt

CONSTANTS
  Packages,    \* folders with a package.json
  Unknown,     \* a workspace:* name that no package declares
  Workspaces   \* the shapes to try

\* Every vitest.config.ts takes its tests out of test/, and may miss some.
Shapes ==
  {w \in [deps      : [Packages -> SUBSET (Packages \cup {Unknown})],
          liftable  : SUBSET Packages,
          tests     : SUBSET Packages,   \* those whose test/ carries a test file
          globbed   : SUBSET Packages,   \* those whose vitest.config.ts matches one
          lenient   : SUBSET Packages,   \* those whose vitest.config.ts says passWithNoTests
          buildOnly : SUBSET Packages,   \* "extraction": "build-only"
          pinned    : BOOLEAN] :         \* the root pins a typescript
     w.globbed \subseteq w.tests}

ASSUME WorkspaceAssumption ==
  IsFiniteSet(Packages) /\ Unknown \notin Packages /\ Workspaces \subseteq Shapes

VARIABLES
  workspace,
  command,   \* what was asked for
  queue,     \* targets still to extract, the one at hand first
  stage,     \* the step it is at
  closure, stack,       \* the search for what the target reaches
  degree, ready, order, \* Kahn's algorithm
  next,      \* position in order of the package at hand
  copied, built,        \* packages in the temporary directory
  ranTests,             \* what the verdict will say of the target's tests
  tested,               \* history: vitest has run tests of the target, and they passed
  results,   \* one per target, and what the copy really went through
  exit

search == <<closure, stack>>
sorting == <<degree, ready, order>>
temporary == <<next, copied, built, ranTests, tested>>
toolVars == <<workspace, command, queue, stage, search, sorting, temporary, results, exit>>

Stages == {"target", "reach", "sort", "copy", "install", "build", "test", "remove", "report"}
Running == stage \in Stages

\* Dependencies and devDependencies alike.
Deps(p) == workspace.deps[p] \ {Unknown}

\* The targets of a command: one folder, the matrix, or what the diff implies.
Targets(c) ==
  CASE c.kind = "name"    -> {c.package}
    [] c.kind = "all"     -> workspace.liftable
    [] c.kind = "changed" -> IF c.global THEN workspace.liftable
                                         ELSE c.touched \cap workspace.liftable

Commands ==
  [kind : {"name"}, package : Packages \cup {Unknown}]
  \cup [kind : {"all"}]
  \cup [kind : {"changed"}, touched : SUBSET Packages, global : BOOLEAN]

\* The diff may not resolve: exit 1 before anything is extracted.
ToolInit ==
  /\ workspace \in Workspaces /\ command \in Commands
  /\ \/ queue \in SetToSeqs(Targets(command)) /\ stage = "target" /\ exit = 0
     \/ command.kind = "changed" /\ queue = <<>> /\ stage = "ended" /\ exit = 1
  /\ closure = {} /\ stack = <<>>
  /\ degree = [p \in Packages |-> 0] /\ ready = <<>> /\ order = <<>>
  /\ next = 1 /\ copied = {} /\ built = {} /\ ranTests = FALSE /\ tested = FALSE
  /\ results = <<>>

Target == Head(queue)

\* The verdict on the target; with it, what is so of its copy.
Verdict(ok, temp) ==
  /\ results' = Append(results, [target |-> Target, ok |-> ok, ranTests |-> ok /\ ranTests,
                                 temp |-> temp, built |-> built, tested |-> tested])
  /\ exit' = IF ok THEN exit ELSE 1
  /\ stage' = "report"

-----------------------------------------------------------------------------
(* extractModule, before anything is copied *)

\* Unknown, not liftable, or no typescript to pin: a failure, and no directory.
ChooseTarget ==
  /\ stage = "target" /\ queue # <<>>
  /\ IF Target \in workspace.liftable /\ workspace.pinned
       THEN stage' = "reach" /\ stack' = <<Target>> /\ UNCHANGED <<results, exit>>
       ELSE Verdict(FALSE, FALSE) /\ UNCHANGED stack
  /\ UNCHANGED <<workspace, command, queue, closure, sorting, temporary>>

\* One turn of the loop over the stack.
Reach ==
  /\ stage = "reach" /\ stack # <<>>
  /\ LET p == Last(stack) IN
     IF p \in closure
       THEN stack' = Front(stack) /\ UNCHANGED <<closure, stage, exit>>
     ELSE IF Unknown \in workspace.deps[p]
       THEN stage' = "ended" /\ exit' = 1 /\ UNCHANGED search
     ELSE /\ closure' = closure \cup {p}
          /\ stack' = Front(stack) \o SetToSeq(Deps(p))
          /\ UNCHANGED <<stage, exit>>
  /\ UNCHANGED <<workspace, command, queue, sorting, temporary, results>>

StartSort ==
  /\ stage = "reach" /\ stack = <<>>
  /\ degree' = [p \in Packages |-> IF p \in closure THEN Cardinality(Deps(p)) ELSE 0]
  /\ ready' = SetToSeq({p \in closure : degree'[p] = 0})
  /\ stage' = "sort"
  /\ UNCHANGED <<workspace, command, queue, search, order, temporary, results, exit>>

\* Mutant: a package is ready once any dependency of it is ordered.
SortEager ==
  /\ stage = "sort" /\ ready # <<>>
  /\ order' = Append(order, Head(ready))
  /\ LET above == {p \in closure : Head(ready) \in Deps(p)} IN
     /\ degree' = [p \in Packages |-> IF p \in above THEN 0 ELSE degree[p]]
     /\ ready' = Tail(ready) \o SetToSeq({p \in above : degree[p] # 0})
  /\ UNCHANGED <<workspace, command, queue, stage, search, temporary, results, exit>>

\* The first of the ready is ordered; its dependants have one dependency less.
Sort ==
  /\ stage = "sort" /\ ready # <<>>
  /\ order' = Append(order, Head(ready))
  /\ LET above == {p \in closure : Head(ready) \in Deps(p)} IN
     /\ degree' = [p \in Packages |-> IF p \in above THEN degree[p] - 1 ELSE degree[p]]
     /\ ready' = Tail(ready) \o SetToSeq({p \in above : degree'[p] = 0})
  /\ UNCHANGED <<workspace, command, queue, stage, search, temporary, results, exit>>

\* A cycle leaves packages unordered: it throws, and no target after it is tried.
Sorted ==
  /\ stage = "sort" /\ ready = <<>>
  /\ IF Len(order) = Cardinality(closure)
       THEN stage' = "copy" /\ UNCHANGED exit
       ELSE stage' = "ended" /\ exit' = 1
  /\ UNCHANGED <<workspace, command, queue, search, sorting, temporary, results>>

-----------------------------------------------------------------------------
(* in the temporary directory: what throws is caught, and the directory stays *)

Here == order[next]

\* The tracked files, with package.json and tsconfig.json rewritten.
Copy ==
  /\ stage = "copy"
  /\ IF next <= Len(order)
       THEN copied' = copied \cup {Here} /\ next' = next + 1 /\ UNCHANGED stage
       ELSE stage' = "install" /\ next' = 1 /\ UNCHANGED copied
  /\ UNCHANGED <<workspace, command, queue, search, sorting, built, ranTests, tested, results, exit>>

Install ==
  /\ stage = "install"
  /\ Deps(Here) \subseteq copied
  /\ stage' = "build"
  /\ UNCHANGED <<workspace, command, queue, search, sorting, temporary, results, exit>>

\* The loop goes on to the next package.
GoesOn ==
  /\ next' = next + 1
  /\ stage' = IF next < Len(order) THEN "install" ELSE "remove"

\* tsc finds the types of a file: dependency in its dist.
Build ==
  /\ stage = "build"
  /\ Deps(Here) \subseteq built
  /\ built' = built \cup {Here}
  /\ IF Here = Target /\ Target \notin workspace.buildOnly
       THEN stage' = "test" /\ UNCHANGED next
       ELSE GoesOn
  /\ UNCHANGED <<workspace, command, queue, search, sorting, copied, ranTests, tested, results, exit>>

\* vitest run exits 0 when it ran tests that pass, or found none and the
\* configuration allows it; --passWithNoTests=false overrules the configuration.
VitestPasses(flagged) ==
  Target \in workspace.globbed \/ (Target \in workspace.lenient /\ ~flagged)

\* Mutant: the configuration is left to decide.
TestUnflagged ==
  /\ stage = "test" /\ GoesOn
  /\ VitestPasses(FALSE)
  /\ ranTests' = (Target \in workspace.tests) /\ tested' = (Target \in workspace.globbed)
  /\ UNCHANGED <<workspace, command, queue, search, sorting, copied, built, results, exit>>
\* The flag is given where tests travelled; the verdict is told of those alone.
Test ==
  /\ stage = "test" /\ GoesOn
  /\ VitestPasses(Target \in workspace.tests)
  /\ ranTests' = (Target \in workspace.tests) /\ tested' = (Target \in workspace.globbed)
  /\ UNCHANGED <<workspace, command, queue, search, sorting, copied, built, results, exit>>

\* Success: the directory is removed.
RemoveTemp ==
  /\ stage = "remove"
  /\ Verdict(TRUE, FALSE)
  /\ UNCHANGED <<workspace, command, queue, search, sorting, temporary>>

\* A copy that throws, a command that fails, is killed or cannot be run.
StepFails ==
  /\ stage \in {"copy", "install", "build", "test", "remove"}
  /\ Verdict(FALSE, TRUE)
  /\ UNCHANGED <<workspace, command, queue, search, sorting, temporary>>

-----------------------------------------------------------------------------
(* the commands *)

Report ==
  /\ stage = "report"
  /\ queue' = Tail(queue) /\ stage' = "target"
  /\ closure' = {} /\ stack' = <<>> /\ order' = <<>>
  /\ next' = 1 /\ copied' = {} /\ built' = {} /\ ranTests' = FALSE /\ tested' = FALSE
  /\ UNCHANGED <<workspace, command, degree, ready, results, exit>>

ToolEnds ==
  /\ stage = "target" /\ queue = <<>>
  /\ stage' = "ended"
  /\ UNCHANGED <<workspace, command, queue, search, sorting, temporary, results, exit>>

ToolNext ==
  \/ ChooseTarget \/ Reach \/ StartSort \/ Sort \/ Sorted
  \/ Copy \/ Install \/ Build \/ Test \/ RemoveTemp \/ StepFails
  \/ Report \/ ToolEnds

ToolSpec == ToolInit /\ [][ToolNext]_toolVars

-----------------------------------------------------------------------------
(* Properties *)

\* What p reaches, itself included.
Reaches(p) ==
  {q \in Packages : \A S \in SUBSET Packages :
     p \in S /\ (\A r \in S : Deps(r) \subseteq S) => q \in S}

\* extract.ts:1-16 and 92-96: a package is installed and built only when everything
\* it depends on stands built beside it, the target is the last, and what is copied
\* is what the target reaches, whatever the shape of the workspace.
BuiltInOrder ==
  stage \in {"install", "build", "test"} =>
    /\ Deps(Here) \subseteq built
    /\ ToSet(order) = Reaches(Target) /\ copied = Reaches(Target)
    /\ Last(order) = Target

\* extract.ts:32-43, extract-changed.ts:14-24: a target passes only with all it
\* reaches built and reports tests exactly when tests ran; a directory is left only by a
\* failure; the command exits 0 only if every target of it was extracted and passed,
\* and a change of a global input makes every liftable package one.
VerdictHonest ==
  /\ \A i \in 1 .. Len(results) :
       LET r == results[i] IN
       /\ r.ok => Reaches(r.target) \subseteq r.built /\ ~r.temp
       /\ r.ranTests <=> r.ok /\ r.tested
       /\ r.ok => r.ranTests \/ r.target \in workspace.buildOnly \/ r.target \notin workspace.tests
  /\ stage = "ended" /\ exit = 0 =>
       /\ \A i \in 1 .. Len(results) : results[i].ok
       /\ {results[i].target : i \in 1 .. Len(results)} =
            CASE command.kind = "name" -> {command.package}
              [] command.kind = "all" -> workspace.liftable
              [] command.kind = "changed" -> {p \in workspace.liftable : command.global \/ p \in command.touched}
=============================================================================
