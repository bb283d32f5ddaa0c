---------------------------- MODULE ToolRegistry ----------------------------
(***************************************************************************)
(* The tool service's registry: rows of tool.tools, seeded at every start  *)
(* from what is compiled in and what the operator's two files say, and     *)
(* created, reviewed and activated by users while the service runs.        *)
(*                                                                         *)
(* validate_tool and activate_tool read a row, decide, and write only its  *)
(* status: two calls may be between their read and their write at once.    *)
(***************************************************************************)
EXTENDS Naturals, Sequences, SequencesExt, FiniteSets

CONSTANTS
  Users,        \* owners of tools
  BuiltIns,     \* RESERVED_FOR_SYSTEM_TOOLS
  Custom,       \* every other slug
  Calls,        \* validate and activate calls in flight
  MaxStarts,    \* bound: starts of the service
  MaxErrors     \* bound: reads and writes of the table that fail

VARIABLES
  rows,     \* tool.tools, by owner and slug (tools_owner_slug_idx)
  boot,     \* main(): what is left to seed, what could not be
  config,   \* the operator's files at the last start
  calls,    \* per call: the row it has read and what it is about to do
  passed,   \* (checking only) rows a review found to meet every criterion
  starts, errors

registryVars == <<rows, boot, config, calls, passed, starts, errors>>

System == "system"           \* user_id NULL
Owners == Users \cup {System}
Slugs == BuiltIns \cup Custom

\* No user is the system, and a slug is reserved or it is not.
ASSUME RegistryAssumption ==
  System \notin Users /\ BuiltIns \cap Custom = {} /\ IsFiniteSet(BuiltIns)

Risks == {"read_only", "write", "destructive"}

\* CreateTool, ValidateTool and ActivateTool refuse a call without a principal; Execute and
\* ListTools take one.
Principals == Users
Callers == Users \cup {System}

\* tool::Model: text is its name, description and input schema; sources is what a
\* declarative row races.
Row == [status : {"draft", "validated", "active"}, risk : Risks,
        text : {"own", "shipped", "renamed", "declared"}, sources : BOOLEAN]
NoRow == [status |-> "none"]
Exists(r) == r # NoRow

-----------------------------------------------------------------------------
(* The operator's files *)

\* A row of the declarative file; sound says parse_sources and NewTool::checked take it.
FileRow == [slug : Slugs, sound : BOOLEAN]
Files == {<<>>} \cup {<<r>> : r \in FileRow} \cup {<<r, q>> : r, q \in FileRow}

\* read_rows: one bad row refuses the file.
ReadRows(file) ==
  IF /\ \A i \in DOMAIN file : file[i].sound /\ file[i].slug \notin BuiltIns
     /\ \A i, j \in DOMAIN file : file[i].slug = file[j].slug => i = j
  THEN file ELSE <<>>

\* built_in_overrides::load: by built-in, whether it is in use and what it is called; a
\* file that cannot be read applies nothing.
NoOverride == [enabled |-> TRUE, text |-> "shipped"]
Overrides ==
  {[b \in BuiltIns |-> NoOverride]}
  \cup [BuiltIns -> [enabled : BOOLEAN, text : {"shipped", "renamed"}]]

\* The order of seed_system_tools, then of load_rows.
ToSeed(file) ==
  SetToSeq(BuiltIns) \o [i \in DOMAIN ReadRows(file) |-> ReadRows(file)[i].slug]

-----------------------------------------------------------------------------
(* Seeding *)

Fault == errors < MaxErrors /\ errors' = errors + 1
\* with_operator_name_and_description.
Named(slug) == config.overrides[slug].text

\* What NewTool::checked has let pass.
Row0(risk, text) == [status |-> "draft", risk |-> risk, text |-> text, sources |-> FALSE]

\* main up to the seeding: the files are read once.
Start ==
  /\ boot.pc = "down" /\ starts < MaxStarts
  /\ starts' = starts + 1
  /\ \E overrides \in Overrides, file \in Files :
       /\ config' = [overrides |-> overrides, declared |-> ToSet(ToSeed(file)) \ BuiltIns]
       /\ boot' = [pc |-> "seeding", todo |-> ToSeed(file), made |-> FALSE, failed |-> {}]
  /\ UNCHANGED <<rows, calls, passed, errors>>

Slug == Head(boot.todo)
Stored == rows[System, Slug]
Seeded(row) ==
  /\ rows' = [rows EXCEPT ![<<System, Slug>>] = row]
  /\ boot' = [boot EXCEPT !.todo = Tail(@), !.made = FALSE]
Seeding(slugs) == boot.pc = "seeding" /\ boot.todo # <<>> /\ Slug \in slugs

\* enabled == Some(false): withdraw_system_tool, if the tool is in use.
Withdraw ==
  /\ Seeding(BuiltIns) /\ ~config.overrides[Slug].enabled
  /\ Seeded(IF Exists(Stored) /\ Stored.status = "active"
            THEN [Stored EXCEPT !.status = "draft"] ELSE Stored)
  /\ UNCHANGED <<config, calls, passed, starts, errors>>

\* Mutant: a row that is there counts as seeded.
SeedingFinishedWhenThere(row, text) == Exists(row)

\* seeding_already_finished.
SeedingAlreadyFinished(row, text) == Exists(row) /\ row.status = "active" /\ row.text = text

\* seed_pre_vetted_system_tool, for a row that exists: activate_without_llm_review, unless
\* there is nothing to change.
SeedStored ==
  /\ Seeding(BuiltIns) /\ config.overrides[Slug].enabled /\ Exists(Stored)
  /\ LET text == Named(Slug) IN
     Seeded(IF SeedingAlreadyFinished(Stored, text) /\ ~boot.made THEN Stored
            ELSE [Stored EXCEPT !.status = "active", !.text = text])
  /\ UNCHANGED <<config, calls, passed, starts, errors>>

\* create_tool with no user, the first half of create_and_activate.
SeedCreates ==
  /\ Seeding(Slugs) /\ ~Exists(Stored)
  /\ Slug \in BuiltIns => config.overrides[Slug].enabled
  /\ rows' = [rows EXCEPT ![<<System, Slug>>] =
                Row0("read_only", IF Slug \in BuiltIns THEN Named(Slug)
                                  ELSE "declared")]
  /\ boot' = [boot EXCEPT !.made = TRUE]
  /\ UNCHANGED <<config, calls, passed, starts, errors>>

\* upsert: update_declarative_tool.
SeedDeclared ==
  /\ Seeding(Custom) /\ Exists(Stored)
  /\ Seeded([status |-> "active", risk |-> "read_only", text |-> "declared", sources |-> TRUE])
  /\ UNCHANGED <<config, calls, passed, starts, errors>>

\* A lookup or a write fails: logged, and the next tool is seeded.
SeedFails ==
  /\ Seeding(Slugs) /\ Fault
  /\ boot' = [boot EXCEPT !.todo = Tail(@), !.made = FALSE, !.failed = @ \cup {Slug}]
  /\ UNCHANGED <<rows, config, calls, passed, starts>>

\* axum::serve.
Serve ==
  /\ boot.pc = "seeding" /\ boot.todo = <<>>
  /\ boot' = [boot EXCEPT !.pc = "serving"]
  /\ UNCHANGED <<rows, config, calls, passed, starts, errors>>

Idle == [pc |-> "idle", key |-> <<System, "none">>]

\* The process ends, wherever it is; calls in flight are lost.
Crash ==
  /\ boot.pc # "down"
  /\ boot' = [pc |-> "down", todo |-> <<>>, made |-> FALSE, failed |-> {}]
  /\ calls' = [c \in Calls |-> Idle]
  /\ UNCHANGED <<rows, config, passed, starts, errors>>

-----------------------------------------------------------------------------
(* Users' calls *)

ClaimsReservedSlug(u, slug) == u # System /\ slug \in BuiltIns

\* create_tool: the unique index refuses a second row of the owner's.
CreateTool(u, slug, risk) ==
  /\ boot.pc = "serving"
  /\ ~ClaimsReservedSlug(u, slug) /\ ~Exists(rows[u, slug])
  /\ rows' = [rows EXCEPT ![<<u, slug>>] = Row0(risk, "own")]
  /\ UNCHANGED <<boot, config, calls, passed, starts, errors>>

AllCriteria ==
  {"input_schema", "output_schema", "description_purpose", "timeout", "description_changes"}

\* criteria_for.
CriteriaFor(risk) ==
  IF risk \in {"write", "destructive"} THEN AllCriteria
  ELSE AllCriteria \ {"description_changes"}

\* Mutant: one criterion met is enough.
ApprovedByAny(risk, met) == CriteriaFor(risk) \cap met # {}

\* validate_tool's verdict: met are the ids answered by a noul of APPROVAL_THRESHOLD or more.
Approved(risk, met) == CriteriaFor(risk) \subseteq met

\* validate_tool up to Decide: user_owned_tool, already_reviewed.
ValidateReads(c, u, slug) ==
  /\ boot.pc = "serving" /\ calls[c].pc = "idle"
  /\ rows[u, slug].status = "draft"
  /\ calls' = [calls EXCEPT ![c] = [pc |-> "review", key |-> <<u, slug>>]]
  /\ UNCHANGED <<rows, boot, config, passed, starts, errors>>

\* Decide answers: the status is written whatever has become of the row.
ValidateWrites(c) ==
  /\ calls[c].pc = "review"
  /\ \E met \in SUBSET AllCriteria :
       LET key == calls[c].key  risk == rows[key].risk IN
       /\ rows' = [rows EXCEPT ![key].status = IF Approved(risk, met) THEN "validated"
                                               ELSE "draft"]
       /\ passed' = IF CriteriaFor(risk) \subseteq met THEN passed \cup {key} ELSE passed
  /\ calls' = [calls EXCEPT ![c] = Idle]
  /\ UNCHANGED <<boot, config, starts, errors>>

\* activate_tool: the read and its check.
ActivateReads(c, u, slug) ==
  /\ boot.pc = "serving" /\ calls[c].pc = "idle"
  /\ rows[u, slug].status = "validated"
  /\ calls' = [calls EXCEPT ![c] = [pc |-> "activate", key |-> <<u, slug>>]]
  /\ UNCHANGED <<rows, boot, config, passed, starts, errors>>

ActivateWrites(c) ==
  /\ calls[c].pc = "activate"
  /\ rows' = [rows EXCEPT ![calls[c].key].status = "active"]
  /\ calls' = [calls EXCEPT ![c] = Idle]
  /\ UNCHANGED <<boot, config, passed, starts, errors>>

\* Decide or the table fails: nothing is written (decide_call_error).
CallFails(c) ==
  /\ calls[c].pc # "idle" /\ Fault
  /\ calls' = [calls EXCEPT ![c] = Idle]
  /\ UNCHANGED <<rows, boot, config, passed, starts>>

-----------------------------------------------------------------------------
(* Execute *)

\* list_tools.
ListTools(caller) ==
  {k \in {System, caller} \X Slugs : rows[k].status = "active"}

\* find_tool: the caller's own before the system's.
FindTool(caller, slug) ==
  IF caller # System /\ rows[caller, slug].status = "active" THEN <<caller, slug>>
  ELSE IF rows[System, slug].status = "active" THEN <<System, slug>>
  ELSE <<>>

\* check_policy.
RequiresApproval(risk) == risk \in {"write", "destructive"}

\* execute: how a call ends, or what it goes on to run.
Execute(caller, slug) ==
  LET key == FindTool(caller, slug) IN
  IF key = <<>> THEN "unavailable"
  ELSE IF RequiresApproval(rows[key].risk) THEN "requires_approval"
  ELSE IF rows[key].sources THEN "race"
  ELSE IF slug \in BuiltIns THEN "built_in"
  ELSE "not_executable"

-----------------------------------------------------------------------------
RegistryInit ==
  /\ rows = [k \in Owners \X Slugs |-> NoRow]
  /\ boot = [pc |-> "down", todo |-> <<>>, made |-> FALSE, failed |-> {}]
  /\ config = [overrides |-> [b \in BuiltIns |-> NoOverride], declared |-> {}]
  /\ calls = [c \in Calls |-> Idle] /\ passed = {}
  /\ starts = 0 /\ errors = 0

RegistryNext ==
  \/ Start \/ Withdraw \/ SeedStored \/ SeedCreates \/ SeedDeclared \/ SeedFails \/ Serve
  \/ Crash
  \/ \E u \in Principals, slug \in Slugs :
       \/ \E risk \in Risks : CreateTool(u, slug, risk)
       \/ \E c \in Calls : ValidateReads(c, u, slug) \/ ActivateReads(c, u, slug)
  \/ \E c \in Calls : ValidateWrites(c) \/ ActivateWrites(c) \/ CallFails(c)

RegistrySpec == RegistryInit /\ [][RegistryNext]_registryVars

-----------------------------------------------------------------------------
(* Properties *)

\* Once the service serves, the built-in tools are the ones the operator has left in use,
\* under the operator's names, and every row of an accepted file is in use with its sources,
\* whatever an earlier start left half done; only what failed in this start is exempt.
SeededAsConfigured ==
  boot.pc = "serving" =>
    /\ \A b \in BuiltIns \ boot.failed :
         LET row == rows[System, b] IN
         IF config.overrides[b].enabled
         THEN row.status = "active" /\ row.text = config.overrides[b].text
         ELSE row.status # "active"
    /\ \A d \in config.declared \ boot.failed :
         Execute(System, d) = "race"

\* Whatever calls overlap, a user's tool is in the catalog only if a review once found it to
\* meet every criterion of its risk, and what Execute runs without approval is read-only and
\* the operator's.
ActiveWasReviewed ==
  \A caller \in Callers :
    /\ \A k \in ListTools(caller) : k[1] # System => k \in passed
    /\ \A slug \in Slugs : Execute(caller, slug) \in {"race", "built_in"} =>
         LET key == FindTool(caller, slug) IN
         key[1] = System /\ rows[key].risk = "read_only"
=============================================================================
