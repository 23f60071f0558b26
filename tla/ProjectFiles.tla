---------------------------- MODULE ProjectFiles ----------------------------
(***************************************************************************)
(* The files of a live build, from what the model lists to what is on the   *)
(* branch: the manifest is merged with a scaffold (project_generation.py),   *)
(* validated (project_validation.py), given a debug report and listed twice  *)
(* by the reducer (workflow.py), completed for the health check and          *)
(* committed, checked there, and linked from the final report               *)
(* (build_checker.py).  It starts where SourceContext ends.  The nodes in    *)
(* between, and those that raise, are in Workflow.                           *)
(*                                                                         *)
(* A file is who wrote its text, and whether that text would satisfy the     *)
(* validation.  A list of files with distinct names is a function from paths *)
(* to texts; the generated artifacts are a sequence of such lists, of which  *)
(* the last that has a path counts.  Names are paths as the tools normalise  *)
(* them: two spellings of one path are left out.                            *)
(***************************************************************************)
EXTENDS SourceContext

CONSTANTS
    OtherPaths,     \* what the model may list beside the scaffold
    RefusedPaths,   \* those of them that the policy of the tools refuses
    SkippedNames,   \* directories, .env files and empty names
    MaxEntries      \* of a manifest

ASSUME PathsAssumption ==
    /\ RefusedPaths \subseteq OtherPaths
    /\ MaxEntries \in Nat

VARIABLES
    stage,              \* the node that comes next
    scaffoldFits,       \* the scaffold of this idea satisfies the validation
    manifest,           \* what the model listed
    generated_artifacts,
    mvp_validation,     \* passed
    committed,          \* the files of the commit
    links               \* of the final report

fileVars == <<stage, scaffoldFits, manifest, generated_artifacts, mvp_validation,
              committed, links>>

allVars == <<sourceVars, fileVars>>

SourcePaths == {"src/main.jsx", "src/App.jsx", "src/lib/api.js",
                "src/state/projectState.js", "src/styles.css", "backend/main.py",
                "backend/models.py", "backend/services.py", "backend/db.py"}

Scaffold == SourcePaths \cup
    {"README.md", "package.json", "index.html", "requirements.txt",
     "tests/test_backend.py", "docs/PROJECT_PLAN.md", "docs/ARCHITECTURE.md",
     "docs/API_SPEC.md", "docs/DATABASE_SCHEMA.sql", "docs/TESTING_STRATEGY.md",
     "docs/DEPLOY.md", "docs/AGENT_LOG.md", "docs/BUILD_LOG.md",
     "docs/KNOWN_LIMITATIONS.md", "docs/WALKTHROUGH.md", "demo/demo_script.md",
     ".env.example"}

DebugReport == "docs/DEBUG_REPORT.md"

\* The health check accepts either of some, and any source.
BuildLogs  == {"docs/BUILD_LOG.md", "logs/build_log.md"}
Demos      == {"demo/demo_script.md", "demo_script.md", "docs/WALKTHROUGH.md"}
Packages   == {"package.json", "requirements.txt"}
AnySources == SourcePaths \cup {"src/__init__.py", "src/app.py"}

Paths == Scaffold \cup OtherPaths \cup BuildLogs \cup Demos \cup AnySources
           \cup {DebugReport}

\* A name that is skipped is not a path.
ASSUME NamesAssumption == SkippedNames \cap Paths = {}

\* Of the model, one that fits the validation and one that does not.
Bodies == {"specific", "generic"}
Texts  == Bodies \cup {"scaffold", "stub", "report"}

NoFiles == [p \in Paths |-> "none"]

FileLists == [Paths -> Texts \cup {"none"}]

Has(files, p) == files[p] # "none"

HasAny(files, paths) == \E p \in paths : Has(files, p)

-----------------------------------------------------------------------------
(* The manifest.                                                           *)

\* A null, empty or blank text is "none".
Entries == [name : Scaffold \cup OtherPaths \cup {DebugReport} \cup SkippedNames,
            body : Bodies \cup {"none"}]

ScaffoldFiles == [p \in Paths |-> IF p \in Scaffold THEN "scaffold" ELSE "none"]

\* Without the script, for which the health check takes the walkthrough.
MutantBase == [ScaffoldFiles EXCEPT !["demo/demo_script.md"] = "none"]

Base == ScaffoldFiles

\* The scaffold over the model, as merge_scaffold_over_model has it.
MutantListed(files, entry) ==
    IF \/ entry.name \in SkippedNames
       \/ entry.body = "none"
       \/ Has(files, entry.name)
    THEN files
    ELSE [files EXCEPT ![entry.name] = entry.body]

\* An entry without a text leaves the one there is.
Listed(files, entry) ==
    IF entry.name \in SkippedNames \/ entry.body = "none"
    THEN files
    ELSE [files EXCEPT ![entry.name] = entry.body]

\* hydrate_file_manifest
Hydrated(entries) ==
    LET upTo[k \in 0..Len(entries)] ==
            IF k = 0 THEN Base ELSE Listed(upTo[k - 1], entries[k])
    IN  upTo[Len(entries)]

-----------------------------------------------------------------------------
(* The validation, which reads the last artifact of a name.                *)

Newest(lists, p) ==
    LET having == {k \in 1..Len(lists) : Has(lists[k], p)}
    IN  IF having = {} THEN "none"
        ELSE lists[CHOOSE k \in having : \A j \in having : j <= k][p]

ReadPaths    == {"README.md", "src/App.jsx", "docs/ARCHITECTURE.md",
                 "docs/API_SPEC.md", "docs/DATABASE_SCHEMA.sql"}
PresentPaths == {"backend/models.py", "backend/services.py", "src/lib/api.js",
                 "src/state/projectState.js", "tests/test_backend.py",
                 "docs/DEPLOY.md"}

Fits(text) == text = "specific" \/ (text = "scaffold" /\ scaffoldFits)

FilesPass(lists) ==
    /\ \A p \in ReadPaths    : Fits(Newest(lists, p))
    /\ \A p \in PresentPaths : Newest(lists, p) # "none"

-----------------------------------------------------------------------------
(* The commit.                                                             *)

\* _files_from_generated_artifacts, of which the last of a path is committed.
FilesFrom(lists) == [p \in Paths |-> Newest(lists, p)]

HealthScaffold == {"README.md", "docs/BUILD_LOG.md", "docs/ARCHITECTURE.md",
                   "demo/demo_script.md", "requirements.txt", "src/__init__.py",
                   "src/app.py"}

\* The paths that stand in for a path of the health scaffold.
Alternatives(p) ==
    CASE p \in BuildLogs  -> BuildLogs
      [] p \in Demos      -> Demos
      [] p \in Packages   -> Packages
      [] p \in AnySources -> AnySources
      [] OTHER            -> {p}

MutantMergeRepoHealthScaffold(files) ==
    [p \in Paths |-> IF p \in HealthScaffold
                     THEN "stub" ELSE files[p]]

\* merge_repo_health_scaffold fills what is missing, and only that.
MergeRepoHealthScaffold(files) ==
    [p \in Paths |-> IF p \in HealthScaffold /\ ~HasAny(files, Alternatives(p))
                     THEN "stub" ELSE files[p]]

Healthy(files) ==
    /\ Has(files, "README.md")
    /\ Has(files, "docs/ARCHITECTURE.md")
    /\ \A group \in {BuildLogs, Demos, Packages, AnySources} : HasAny(files, group)

-----------------------------------------------------------------------------
FilesInit ==
    /\ SourceInit
    /\ stage = "retrieve_context"
    /\ scaffoldFits \in BOOLEAN
    /\ manifest = <<>>
    /\ generated_artifacts = <<>>
    /\ mvp_validation = FALSE
    /\ committed = NoFiles
    /\ links = {}

RetrieveContext ==
    /\ stage = "retrieve_context"
    /\ \/ SourceNext /\ stage' = stage
       \/ visited = Len(submitted) /\ stage' = "generate_files" /\ UNCHANGED sourceVars
    /\ UNCHANGED <<scaffoldFits, manifest, generated_artifacts, mvp_validation,
                   committed, links>>

GenerateFiles ==
    /\ stage = "generate_files"
    /\ manifest' \in BoundedSeq(Entries, MaxEntries) \ {<<>>}
    /\ generated_artifacts' = <<Hydrated(manifest')>>
    /\ stage' = "validate_mvp"
    /\ UNCHANGED <<sourceVars, scaffoldFits, mvp_validation, committed, links>>

\* The other critical checks are about the requirements, not about the files.
ValidateMvp ==
    /\ stage = "validate_mvp"
    /\ mvp_validation' \in {FALSE, FilesPass(generated_artifacts)}
    /\ stage' = IF mvp_validation' THEN "debug_generated_files" ELSE "failed"
    /\ UNCHANGED <<sourceVars, scaffoldFits, manifest, generated_artifacts,
                   committed, links>>

\* The node returns the list it was given with its report, and the reducer
\* appends that to the list it was given.
DebugGeneratedFiles ==
    /\ stage = "debug_generated_files"
    /\ generated_artifacts' =
          generated_artifacts \o generated_artifacts
             \o <<[NoFiles EXCEPT ![DebugReport] = "report"]>>
    /\ stage' = "commit_progress"
    /\ UNCHANGED <<sourceVars, scaffoldFits, manifest, mvp_validation, committed, links>>

\* One refused path refuses the whole commit; a commit that fails may have
\* landed.
CommitProgress ==
    LET files == MergeRepoHealthScaffold(FilesFrom(generated_artifacts))
    IN  /\ stage = "commit_progress"
        /\ \/ /\ ~HasAny(files, RefusedPaths)
              /\ committed' = files
              /\ stage' \in {"verify_build", "failed"}
           \/ committed' = committed /\ stage' = "failed"
        /\ UNCHANGED <<sourceVars, scaffoldFits, manifest, generated_artifacts,
                       mvp_validation, links>>

\* A path GitHub does not answer for counts as missing.
VerifyBuild ==
    /\ stage = "verify_build"
    /\ \/ Healthy(committed) /\ stage' = "generate_final_package"
       \/ stage' = "failed"
    /\ UNCHANGED <<sourceVars, scaffoldFits, manifest, generated_artifacts,
                   mvp_validation, committed, links>>

GenerateFinalPackage ==
    /\ stage = "generate_final_package"
    /\ links' = {"docs/BUILD_LOG.md", "docs/ARCHITECTURE.md", "demo/demo_script.md"}
    /\ stage' = "completed"
    /\ UNCHANGED <<sourceVars, scaffoldFits, manifest, generated_artifacts,
                   mvp_validation, committed>>

FilesNext ==
    \/ RetrieveContext \/ GenerateFiles \/ ValidateMvp \/ DebugGeneratedFiles
    \/ CommitProgress \/ VerifyBuild \/ GenerateFinalPackage

FilesSpec == FilesInit /\ [][FilesNext]_allVars

-----------------------------------------------------------------------------
(* Properties.                                                             *)

\* The lists, the verdict and the report have the shape the nodes give them.
FilesTypeOK ==
    /\ SourceTypeOK
    /\ stage \in {"retrieve_context", "generate_files", "validate_mvp",
                  "debug_generated_files", "commit_progress", "verify_build",
                  "generate_final_package", "completed", "failed"}
    /\ scaffoldFits \in BOOLEAN
    /\ manifest \in Seq(Entries)
    /\ generated_artifacts \in Seq(FileLists)
    /\ mvp_validation \in BOOLEAN
    /\ committed \in FileLists
    /\ links \subseteq Paths

Committed == committed # NoFiles

\* What is committed under a path the validation read is what it read, and
\* fits: neither the debug report, nor the second listing of the artifacts, nor
\* the health scaffold changes it.
ValidatedIsCommitted ==
    Committed => /\ \A p \in ReadPaths : Fits(committed[p])
                 /\ \A p \in Scaffold : committed[p] = Newest(generated_artifacts, p)

\* What a commit should have under a path: the last text the model wrote for
\* it, or the scaffold's; of what the model only named, nothing.
Expected(p) ==
    LET written == {k \in 1..Len(manifest) :
                      manifest[k].name = p /\ manifest[k].body # "none"}
    IN  CASE p = DebugReport  -> "report"
          [] p # DebugReport /\ written # {} ->
                manifest[CHOOSE k \in written : \A j \in written : j <= k].body
          [] OTHER -> IF p \in Scaffold THEN "scaffold" ELSE "none"

\* The commit has, of every path, what the manifest and the scaffold say,
\* however the manifest repeats, leaves out or only names its paths.
ManifestIsCommitted == Committed => \A p \in Paths : committed[p] = Expected(p)

\* What a commit has satisfies the health check of the build, whatever the
\* model listed: a verification fails only when GitHub does not answer.
CommittedIsHealthy == Committed => Healthy(committed)

\* Every path the final report links is in the commit.
LinksResolve == \A p \in links : Has(committed, p)
=============================================================================
