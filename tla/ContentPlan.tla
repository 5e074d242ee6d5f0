------------------------------ MODULE ContentPlan ------------------------------
(***************************************************************************)
(* From a content pack to the plan of a target: the cross-checks of the     *)
(* loader (src/ch_diag/content_loader.py), the transports the collector     *)
(* opens for a request (planner.py, collector.py), the nearest LTS branch   *)
(* of the server that answers (versioning.py), and the plan (planner.py).   *)
(* The transports are chosen before the server's version is known, by a     *)
(* function other than the one that builds the plan.                        *)
(***************************************************************************)
EXTENDS Integers

CONSTANTS
  Items,         \* report items; each owns its sources
  Branches,      \* supported_lts_versions; versions are numbered in their order
  Versions,      \* the server versions to consider
  ItemDefs       \* the definitions an item may have in a pack

Scopes == {"node", "cluster"}
Kinds == {"query", "script", "sql_metric", "host_metric"}
Modes == {"local", "remote", "remote-db-only"}

\* A definition has the variants of its query and of its fallback's query.
ASSUME PlanAssumption ==
  /\ Branches \subseteq Nat \ {0}
  /\ Versions \subseteq Nat \ {0}
  /\ \A d \in ItemDefs :
       /\ d.kind \in Kinds
       /\ d.fallback \in {"none", "query", "script"}
       /\ \A v \in d.variants \cup d.fallbackVariants : v.scopes \subseteq Scopes

VARIABLES
  pack,      \* the definition of each item
  stage,     \* "loading", "rejected", "loaded", "connected", "refused" (a
             \* request that needs other options), "unsupported" (a server older
             \* than every branch), "failed" (an internal error), "planned",
             \* "collected" (the report's items are decided)
  request,   \* mode, scope and selection of the run
  opened,    \* "ssh", "host" (a host runner) and "adapter"
  version,   \* server_version of the runtime context, 0 for None
  branch,    \* compatibility_lts_version, 0 for None
  plan,      \* status, matching variants and fallback's status of each item
  report     \* what the report holds of each item

vars == <<pack, stage, request, opened, version, branch, plan, report>>

Requests == [snapshots : BOOLEAN, mode : Modes, scope : Scopes,
             selected : SUBSET Items, ssh : BOOLEAN]

NotPlanned == [status |-> "unselected", variants |-> {}, fallback |-> "none"]

TypeOK ==
  /\ pack \in [Items -> ItemDefs]
  /\ stage \in {"loading", "rejected", "loaded", "connected", "refused", "unsupported",
                "failed", "planned", "collected"}
  /\ request \in Requests
  /\ opened \subseteq {"ssh", "host", "adapter"}
  /\ version \in Versions \cup {0}
  /\ branch \in Branches \cup {0}
  /\ \A i \in Items :
       /\ plan[i].status \in {"unselected", "planned", "skipped"}
       /\ plan[i].variants \subseteq pack[i].variants
       /\ plan[i].fallback \in {"none", "planned", "skipped"}
  /\ report \in [Items -> {"omitted", "invoked", "empty"}]

Init ==
  /\ pack \in [Items -> ItemDefs]
  /\ stage = "loading"
  /\ request = [snapshots |-> FALSE, mode |-> "local", scope |-> "node",
                selected |-> {}, ssh |-> FALSE]
  /\ opened = {}
  /\ version = 0
  /\ branch = 0
  /\ plan = [i \in Items |-> NotPlanned]
  /\ report = [i \in Items |-> "omitted"]

--------------------------------------------------------------------------------
(* Loading the pack.                                                        *)

UsesSql(kind) == kind \in {"query", "sql_metric"}
IsMetric(kind) == kind \in {"sql_metric", "host_metric"}

\* _query_scopes: the scopes a query declares.
QueryScopes(variants) == UNION {v.scopes : v \in variants}

\* Mutant: gaps in the coverage are accepted.
ValidVariantsSparse(variants) ==
  \A v, w \in variants : v # w /\ v.scopes \cap w.scopes # {} => v.lts \cap w.lts = {}

\* Mutant: two variants may serve one branch.
ValidVariantsOverlapping(variants) ==
  \A scope \in QueryScopes(variants), b \in Branches :
    \E v \in variants : scope \in v.scopes /\ b \in v.lts

\* What each variant has to declare.
DeclaredVariants(variants) ==
  variants # {} /\ \A v \in variants :
    v.lts # {} /\ v.lts \subseteq Branches /\ v.scopes # {}

\* Every scope a query declares has exactly one variant per supported branch.
ValidVariants(variants) ==
  /\ DeclaredVariants(variants)
  /\ \A v, w \in variants : v # w /\ v.scopes \cap w.scopes # {} => v.lts \cap w.lts = {}
  /\ \A scope \in QueryScopes(variants), b \in Branches :
       \E v \in variants : scope \in v.scopes /\ b \in v.lts

\* Mutant: the scopes of the fallback's query are not compared.
ValidFallbackAnyScope(d) == d.fallback # "none" => d.fallback = d.kind

\* A fallback has the kind of its item and covers its scopes.
ValidFallback(d) ==
  d.fallback # "none" =>
    /\ d.fallback = d.kind
    /\ d.kind = "query" => QueryScopes(d.variants) \subseteq QueryScopes(d.fallbackVariants)

Accepted(d) ==
  /\ UsesSql(d.kind) => ValidVariants(d.variants)
  /\ d.fallback = "query" => ValidVariants(d.fallbackVariants)
  /\ ValidFallback(d)

Load ==
  /\ stage = "loading"
  /\ stage' = IF \A i \in Items : Accepted(pack[i]) THEN "loaded" ELSE "rejected"
  /\ UNCHANGED <<pack, request, opened, version, branch, plan, report>>

--------------------------------------------------------------------------------
(* Opening what the request needs.                                          *)

DbOnly(r) == r.mode = "remote-db-only"

\* Mutant: the run's mode is not considered.
RequiredInAnyRun(r, i) ==
  i \in r.selected /\ ~(DbOnly(r) /\ ~UsesSql(pack[i].kind))

\* Mutant: SQL metrics are left to the sampling.
RequiredOnce(r, i) ==
  i \in r.selected /\ ~IsMetric(pack[i].kind) /\ ~(DbOnly(r) /\ ~UsesSql(pack[i].kind))

\* The items collection_requirements counts.
Required(r, i) ==
  /\ i \in r.selected
  /\ IsMetric(pack[i].kind) => r.snapshots
  /\ ~(DbOnly(r) /\ ~UsesSql(pack[i].kind))

RequiresHost(r) == \E i \in Items : Required(r, i) /\ ~UsesSql(pack[i].kind)
RequiresDatabase(r) ==
  r.scope = "cluster" \/ \E i \in Items : Required(r, i) /\ UsesSql(pack[i].kind)
RequiresSsh(r) == r.mode = "remote" /\ (RequiresHost(r) \/ RequiresDatabase(r))

\* In remote mode the SSH session is the host runner, and carries the tunnel.
Opened(r) ==
  (IF RequiresSsh(r) THEN {"ssh", "host"} ELSE {})
    \cup (IF r.mode = "local" /\ RequiresHost(r) THEN {"host"} ELSE {})
    \cup (IF RequiresDatabase(r) THEN {"adapter"} ELSE {})

OptionsFit(r) == IF r.mode = "remote" THEN RequiresSsh(r) => r.ssh ELSE ~r.ssh

\* The resources of _collect up to detect_runtime_context.
Connect ==
  /\ stage = "loaded"
  /\ \E r \in Requests :
       /\ request' = r
       /\ IF OptionsFit(r)
            THEN /\ stage' = "connected"
                 /\ opened' = Opened(r)
                 /\ version' \in IF RequiresDatabase(r) THEN Versions ELSE {0}
            ELSE /\ stage' = "refused"
                 /\ UNCHANGED <<opened, version>>
  /\ UNCHANGED <<pack, branch, plan, report>>

--------------------------------------------------------------------------------
(* The plan of a target.                                                    *)

\* resolve_lts_branch: the latest supported branch that is not newer.
Nearest(b) ==
  b \in Branches /\ b <= version /\ \A c \in Branches : c <= version => c <= b

\* The matches of select_variant, which raises if there are two.
Matches(b, variants) == {v \in variants : b \in v.lts /\ request.scope \in v.scopes}
Overlap(b, variants) == \E v, w \in Matches(b, variants) : v # w

\* A query that is planned without a version, or whose variants overlap.
PlanFails(b) ==
  \/ RequiresDatabase(request) /\ version = 0
  \/ \E i \in request.selected :
       \/ pack[i].kind = "query" /\ (version = 0 \/ Overlap(b, pack[i].variants))
       \/ pack[i].fallback = "query" /\ (version = 0 \/ Overlap(b, pack[i].fallbackVariants))

\* Metrics select their variants when they are sampled (collect_metric_items).
ItemStatus(b, i) ==
  LET d == pack[i]
      inapplicable ==
        \/ d.kind = "query" /\ Matches(b, d.variants) = {}
        \/ d.kind = "script" /\ DbOnly(request)
        \/ IsMetric(d.kind) /\ ~request.snapshots
        \/ d.kind = "host_metric" /\ DbOnly(request)
  IN IF i \notin request.selected THEN "unselected"
     ELSE IF inapplicable THEN "skipped" ELSE "planned"

FallbackStatus(b, i) ==
  LET d == pack[i]
      inapplicable ==
        \/ d.fallback = "query" /\ Matches(b, d.fallbackVariants) = {}
        \/ d.fallback = "script" /\ DbOnly(request)
  IN IF i \notin request.selected \/ d.fallback = "none" THEN "none"
     ELSE IF inapplicable THEN "skipped" ELSE "planned"

PlanOf(b) ==
  [i \in Items |-> [status |-> ItemStatus(b, i),
                    variants |-> IF i \in request.selected /\ UsesSql(pack[i].kind)
                                   THEN Matches(b, pack[i].variants) ELSE {},
                    fallback |-> FallbackStatus(b, i)]]

\* build_plan once the branch is known, 0 for a run without a server.
PlanWith(b) ==
  IF PlanFails(b) THEN stage' = "failed" /\ UNCHANGED <<branch, plan>>
  ELSE stage' = "planned" /\ branch' = b /\ plan' = PlanOf(b)

BuildPlan ==
  /\ stage = "connected"
  /\ \/ version = 0 /\ PlanWith(0)
     \/ \E b \in Branches \cup Versions : version # 0 /\ Nearest(b) /\ PlanWith(b)
     \/ /\ version # 0 /\ \A b \in Branches : b > version
        /\ stage' = "unsupported" /\ UNCHANGED <<branch, plan>>
  /\ UNCHANGED <<pack, request, opened, version, report>>

--------------------------------------------------------------------------------
(* What becomes of the plan.                                                *)

\* Mutant: a query without a variant is executed all the same.
InvokedUnchecked(i) == plan[i].status = "planned"

\* A metric whose query has no variant here is left out of the sampling.
Invoked(i) ==
  plan[i].status = "planned" /\ (UsesSql(pack[i].kind) => plan[i].variants # {})

\* The loops over the plan in _collect_target: what is skipped, or found
\* unsupported by the server or the host, is omitted from the report.
Collect ==
  /\ stage = "planned"
  /\ stage' = "collected"
  /\ \E unsupported \in SUBSET Items :
       report' = [i \in Items |->
         IF plan[i].status # "planned" \/ i \in unsupported THEN "omitted"
         ELSE IF Invoked(i) THEN "invoked" ELSE "empty"]
  /\ UNCHANGED <<pack, request, opened, version, branch, plan>>

Next == Load \/ Connect \/ BuildPlan \/ Collect

Spec == Init /\ [][Next]_vars

--------------------------------------------------------------------------------
(* Properties.                                                              *)

Served(sql) == IF sql THEN "adapter" \in opened ELSE "host" \in opened

\* What is planned can be executed: the transports chosen before the version was
\* known serve every planned item and its fallback (collection_requirements
\* against build_plan).
PlannedIsServed ==
  stage = "planned" => \A i \in Items :
    /\ plan[i].status = "planned" => Served(UsesSql(pack[i].kind))
    /\ plan[i].status = "planned" /\ plan[i].fallback = "planned" =>
         Served(pack[i].fallback = "query")

\* No connection is opened in vain: behind each is an item that is planned on it
\* or has no variant in this scope, or the discovery of a cluster.
NothingOpenedInVain ==
  LET uses(i, sql) == plan[i].status = "planned" /\ UsesSql(pack[i].kind) = sql
      outOfScope(i) == plan[i].status = "skipped" /\ pack[i].kind = "query"
      database == request.scope = "cluster" \/ \E i \in Items : uses(i, TRUE) \/ outOfScope(i)
  IN stage = "planned" =>
       /\ "adapter" \in opened => database
       /\ "host" \in opened =>
            (\E i \in Items : uses(i, FALSE)) \/ ("ssh" \in opened /\ database)

\* A query of an accepted pack is planned exactly in the scopes it declares, with
\* the one variant for the latest branch that is not newer than the server.
VariantsAreExact ==
  stage = "planned" => \A i \in request.selected :
    pack[i].kind = "query" =>
      IF request.scope \in QueryScopes(pack[i].variants)
        THEN /\ plan[i].status = "planned"
             /\ \E v \in pack[i].variants :
                  /\ plan[i].variants = {v}
                  /\ \E b \in v.lts : /\ b <= version
                                      /\ \A c \in Branches : c <= version => c <= b
        ELSE plan[i].status = "skipped"

\* A planned item never loses its fallback to the scope or the mode.
FallbackIsPlanned ==
  stage = "planned" => \A i \in Items :
    plan[i].status = "planned" /\ pack[i].fallback # "none" => plan[i].fallback = "planned"

\* For an accepted pack build_plan raises nothing but UnsupportedClickHouseVersion.
PlanDoesNotFail == stage # "failed"

\* The kinds of item a run collects (the table of content/README.md).
ApplicableKinds(r) == {k \in Kinds : (IsMetric(k) => r.snapshots) /\ (DbOnly(r) => UsesSql(k))}

\* Mode, scope and version: the kind is collected in this run, and a variant of an
\* item that uses SQL covers the scope and the server's nearest branch.
Applies(i) ==
  /\ i \in request.selected /\ pack[i].kind \in ApplicableKinds(request)
  /\ UsesSql(pack[i].kind) =>
       \E v \in pack[i].variants, b \in Branches :
         Nearest(b) /\ b \in v.lts /\ request.scope \in v.scopes

\* "Version-, scope- and mode-inapplicable items are not invoked and do not appear in
\* the final artifact" (content/README.md:351). Nothing inapplicable is invoked. The
\* second half is kept for queries, scripts and host metrics only: a SQL metric whose
\* query does not declare the scope is planned (planner.py:291), left without a source
\* (snapshots.py:267) and shown, with nothing in it. That is the one exception.
InapplicableIsNotInvoked ==
  stage = "collected" => \A i \in Items :
    /\ report[i] = "invoked" => Applies(i)
    /\ report[i] = "empty" => /\ pack[i].kind = "sql_metric" /\ request.snapshots
                              /\ request.scope \notin QueryScopes(pack[i].variants)
================================================================================
