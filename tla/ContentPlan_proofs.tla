--------------------------- MODULE ContentPlan_proofs ---------------------------
(***************************************************************************)
(* The plan is sound for every set of items, every list of supported        *)
(* branches, every server version and every definition of the items.        *)
(* Nothing in the argument counts items or branches: the invariant says     *)
(* that the request was opened by Opened, that the pack was accepted before *)
(* that, and that the plan is PlanOf the nearest branch.                    *)
(***************************************************************************)
EXTENDS ContentPlan, TLAPS

Connected == {"connected", "unsupported", "failed", "planned", "collected"}

PackAccepted ==
  stage \in {"loaded", "refused"} \cup Connected => \A i \in Items : Accepted(pack[i])

\* The adapter is open, and the version known, exactly if it is required.
RequestOpened ==
  stage \in Connected =>
    /\ OptionsFit(request)
    /\ opened = Opened(request)
    /\ version = 0 <=> ~RequiresDatabase(request)

PlanIsOfBranch ==
  stage \in {"planned", "collected"} =>
    /\ plan = PlanOf(branch)
    /\ ~PlanFails(branch)
    /\ IF version = 0 THEN branch = 0 ELSE Nearest(branch)

IInv == TypeOK /\ PackAccepted /\ RequestOpened /\ PlanIsOfBranch /\ PlanDoesNotFail

--------------------------------------------------------------------------------
(* The checks of the loader and the choice of the variant.                  *)

\* At most one variant of an accepted query serves a branch in a scope.
LEMMA OneMatch ==
  ASSUME NEW b, NEW variants, ValidVariants(variants)
  PROVE  ~Overlap(b, variants)
BY DEF Overlap, Matches, ValidVariants

\* In a scope the query declares, exactly one variant serves each branch; in
\* another scope there is none.
LEMMA MatchesInScope ==
  ASSUME NEW b \in Branches, NEW variants, ValidVariants(variants)
  PROVE  IF request.scope \in QueryScopes(variants)
           THEN \E v \in variants : Matches(b, variants) = {v} /\ b \in v.lts
           ELSE Matches(b, variants) = {}
<1>1. CASE request.scope \in QueryScopes(variants)
  <2>1. PICK v \in variants : request.scope \in v.scopes /\ b \in v.lts
    BY <1>1 DEF ValidVariants
  <2>2. v \in Matches(b, variants)
    BY <2>1 DEF Matches
  <2>3. Matches(b, variants) = {v}
    BY <2>2, OneMatch DEF Overlap
  <2>. QED  BY <1>1, <2>1, <2>3
<1>2. CASE request.scope \notin QueryScopes(variants)
  BY <1>2 DEF QueryScopes, Matches
<1>. QED  BY <1>1, <1>2

\* A query among the selected items, or as a fallback of one, needs the server.
LEMMA QueryNeedsDatabase ==
  ASSUME NEW i \in Items, NEW r, i \in r.selected, Accepted(pack[i]),
         pack[i].kind = "query" \/ pack[i].fallback = "query"
  PROVE  RequiresDatabase(r)
<1>1. pack[i].kind = "query"
  BY DEF Accepted, ValidFallback
<1>2. Required(r, i)
  BY <1>1 DEF Required, IsMetric, UsesSql
<1>. QED  BY <1>1, <1>2 DEF RequiresDatabase, UsesSql

\* Planning an accepted pack over what was opened for the request cannot fail.
LEMMA PlanSucceeds ==
  ASSUME TypeOK, PackAccepted, RequestOpened, stage \in Connected, NEW b
  PROVE  ~PlanFails(b)
<1>1. ~(RequiresDatabase(request) /\ version = 0)
  BY DEF RequestOpened
<1>2. ASSUME NEW i \in request.selected, pack[i].kind = "query"
      PROVE  version # 0 /\ ~Overlap(b, pack[i].variants)
  <2>1. i \in Items /\ Accepted(pack[i])
    BY <1>2 DEF TypeOK, Requests, PackAccepted, Connected
  <2>. QED  BY <1>1, <1>2, <2>1, QueryNeedsDatabase, OneMatch DEF Accepted, UsesSql
<1>3. ASSUME NEW i \in request.selected, pack[i].fallback = "query"
      PROVE  version # 0 /\ ~Overlap(b, pack[i].fallbackVariants)
  <2>1. i \in Items /\ Accepted(pack[i])
    BY <1>3 DEF TypeOK, Requests, PackAccepted, Connected
  <2>. QED  BY <1>1, <1>3, <2>1, QueryNeedsDatabase, OneMatch DEF Accepted
<1>. QED  BY <1>1, <1>2, <1>3 DEF PlanFails

--------------------------------------------------------------------------------
(* The invariant.                                                           *)

LEMMA InitInv == Init => IInv
BY PlanAssumption DEF Init, IInv, TypeOK, PackAccepted, RequestOpened, PlanIsOfBranch,
  PlanDoesNotFail, Connected, NotPlanned, Requests, Modes, Scopes

\* Every plan is well formed.
LEMMA PlanTyped ==
  ASSUME NEW b, NEW i \in Items
  PROVE  /\ PlanOf(b)[i].status \in {"unselected", "planned", "skipped"}
         /\ PlanOf(b)[i].variants \subseteq pack[i].variants
         /\ PlanOf(b)[i].fallback \in {"none", "planned", "skipped"}
<1>1. ItemStatus(b, i) \in {"unselected", "planned", "skipped"}
  BY DEF ItemStatus
<1>2. FallbackStatus(b, i) \in {"none", "planned", "skipped"}
  BY DEF FallbackStatus
<1>. QED  BY <1>1, <1>2 DEF PlanOf, Matches

LEMMA LoadInv == IInv /\ Load => IInv'
BY DEF Load, IInv, TypeOK, PackAccepted, RequestOpened, PlanIsOfBranch, PlanDoesNotFail,
  Connected, Accepted

LEMMA ConnectInv == IInv /\ Connect => IInv'
<1>. SUFFICES ASSUME IInv, Connect PROVE IInv'
  OBVIOUS
<1>. USE DEF IInv
<1>1. PICK r \in Requests :
        /\ request' = r
        /\ IF OptionsFit(r)
             THEN /\ stage' = "connected"
                  /\ opened' = Opened(r)
                  /\ version' \in IF RequiresDatabase(r) THEN Versions ELSE {0}
             ELSE /\ stage' = "refused"
                  /\ UNCHANGED <<opened, version>>
  BY DEF Connect
<1>2. stage = "loaded" /\ UNCHANGED <<pack, branch, plan, report>>
  BY DEF Connect
<1>3. Opened(r) \subseteq {"ssh", "host", "adapter"}
  BY DEF Opened
<1>4. TypeOK'
  BY <1>1, <1>2, <1>3 DEF TypeOK
<1>5. RequestOpened'
  <2>1. Opened(r)' = Opened(r) /\ RequiresDatabase(r)' = RequiresDatabase(r)
    BY <1>2 DEF Opened, RequiresSsh, RequiresHost, RequiresDatabase, Required
  <2>2. OptionsFit(r)' = OptionsFit(r)
    BY <1>2 DEF OptionsFit, RequiresSsh, RequiresHost, RequiresDatabase, Required
  <2>3. 0 \notin Versions
    BY PlanAssumption
  <2>. QED  BY <1>1, <2>1, <2>2, <2>3 DEF RequestOpened, Connected
<1>6. (PackAccepted /\ PlanIsOfBranch /\ PlanDoesNotFail)'
  BY <1>1, <1>2 DEF PackAccepted, PlanIsOfBranch, PlanDoesNotFail, Connected
<1>. QED  BY <1>4, <1>5, <1>6

LEMMA BuildPlanInv == IInv /\ BuildPlan => IInv'
<1>. SUFFICES ASSUME IInv, BuildPlan PROVE IInv'
  OBVIOUS
<1>. USE DEF IInv
<1>1. stage = "connected" /\ UNCHANGED <<pack, request, opened, version, report>>
  BY DEF BuildPlan
<1>2. ASSUME NEW b, PlanWith(b)
      PROVE  stage' = "planned" /\ branch' = b /\ plan' = PlanOf(b)
  BY <1>1, <1>2, PlanSucceeds DEF PlanWith, Connected
<1>3. ASSUME NEW b \in Branches \cup {0}, PlanWith(b),
             IF version = 0 THEN b = 0 ELSE Nearest(b)
      PROVE  IInv'
  <2>1. TypeOK'
    BY <1>1, <1>2, <1>3, PlanTyped DEF TypeOK
  <2>2. (PackAccepted /\ RequestOpened /\ PlanDoesNotFail)'
    BY <1>1, <1>2, <1>3 DEF PackAccepted, RequestOpened, PlanDoesNotFail, Connected,
      Accepted, OptionsFit, Opened, RequiresSsh, RequiresHost, RequiresDatabase, Required
  <2>3. PlanIsOfBranch'
    <3>1. PlanOf(b)' = PlanOf(b) /\ PlanFails(b)' = PlanFails(b) /\ Nearest(b)' = Nearest(b)
      BY <1>1 DEF PlanOf, PlanFails, Nearest, ItemStatus, FallbackStatus, Matches, Overlap,
        DbOnly, RequiresDatabase, Required
    <3>2. ~PlanFails(b)
      BY <1>1, PlanSucceeds DEF Connected
    <3>. QED  BY <1>1, <1>2, <1>3, <3>1, <3>2 DEF PlanIsOfBranch
  <2>. QED  BY <2>1, <2>2, <2>3
<1>4. CASE version = 0 /\ PlanWith(0)
  BY <1>3, <1>4
<1>5. ASSUME NEW b \in Branches \cup Versions, version # 0, Nearest(b), PlanWith(b)
      PROVE  IInv'
  BY <1>3, <1>5 DEF Nearest
<1>6. CASE stage' = "unsupported" /\ UNCHANGED <<branch, plan>>
  BY <1>1, <1>6 DEF TypeOK, PackAccepted, RequestOpened, PlanIsOfBranch, PlanDoesNotFail,
    Connected, Accepted, OptionsFit, Opened, RequiresSsh, RequiresHost, RequiresDatabase,
    Required
<1>. QED  BY <1>4, <1>5, <1>6 DEF BuildPlan

LEMMA CollectInv == IInv /\ Collect => IInv'
<1>. SUFFICES ASSUME IInv, Collect PROVE IInv'
  OBVIOUS
<1>. USE DEF IInv
<1>1. /\ stage = "planned" /\ stage' = "collected"
      /\ UNCHANGED <<pack, request, opened, version, branch, plan>>
  BY DEF Collect
<1>2. report' \in [Items -> {"omitted", "invoked", "empty"}]
  BY DEF Collect
<1>3. (PackAccepted /\ RequestOpened /\ PlanDoesNotFail)'
  BY <1>1 DEF PackAccepted, RequestOpened, PlanDoesNotFail, Connected, Accepted, OptionsFit,
    Opened, RequiresSsh, RequiresHost, RequiresDatabase, Required
<1>4. PlanIsOfBranch'
  BY <1>1 DEF PlanIsOfBranch, PlanOf, PlanFails, Nearest, ItemStatus, FallbackStatus,
    Matches, Overlap, DbOnly, RequiresDatabase, Required
<1>5. TypeOK'
  BY <1>1, <1>2 DEF TypeOK
<1>. QED  BY <1>3, <1>4, <1>5

LEMMA StepInv == IInv /\ [Next]_vars => IInv'
<1>1. IInv /\ UNCHANGED vars => IInv'
  BY DEF vars, IInv, TypeOK, PackAccepted, RequestOpened, PlanIsOfBranch, PlanDoesNotFail,
    Accepted, OptionsFit, Opened, RequiresSsh, RequiresHost, RequiresDatabase, Required,
    PlanOf, PlanFails, Nearest, ItemStatus, FallbackStatus, Matches, Overlap, DbOnly
<1>. QED  BY <1>1, LoadInv, ConnectInv, BuildPlanInv, CollectInv DEF Next

THEOREM Invariance == Spec => []IInv
BY InitInv, StepInv, PTL DEF Spec

--------------------------------------------------------------------------------
(* The theorems.                                                            *)

\* Type correctness for every pack and every request; in particular the plan's
\* branch is a supported one (resolve_lts_branch).
THEOREM TypeCorrect == Spec => []TypeOK
BY Invariance, PTL DEF IInv

\* build_plan raises nothing but UnsupportedClickHouseVersion for a pack that the
\* loader accepted.
THEOREM PlanningSucceeds == Spec => []PlanDoesNotFail
BY Invariance, PTL DEF IInv

\* What a selected item needs, by its status in the plan (collection_requirements
\* against the branches of build_plan).
LEMMA PlannedIsRequired ==
  ASSUME IInv, stage = "planned", NEW i \in Items, plan[i].status = "planned"
  PROVE  Required(request, i)
<1>1. plan[i].status = ItemStatus(branch, i)
  BY DEF IInv, PlanIsOfBranch, PlanOf
<1>2. pack[i].kind \in Kinds
  BY PlanAssumption DEF IInv, TypeOK
<1>. QED  BY <1>1, <1>2 DEF ItemStatus, Required, IsMetric, UsesSql, Kinds

LEMMA ServedInv == IInv => PlannedIsServed
<1>. SUFFICES ASSUME IInv, stage = "planned", NEW i \in Items, plan[i].status = "planned"
              PROVE  /\ Served(UsesSql(pack[i].kind))
                     /\ plan[i].fallback = "planned" => Served(pack[i].fallback = "query")
  BY DEF PlannedIsServed
<1>1. Required(request, i) /\ opened = Opened(request) /\ Accepted(pack[i])
  BY PlannedIsRequired DEF IInv, RequestOpened, PackAccepted, Connected
<1>2. CASE UsesSql(pack[i].kind)
  <2>1. "adapter" \in opened
    BY <1>1, <1>2 DEF Opened, RequiresDatabase
  <2>2. pack[i].fallback \in {"none", "query"}
    BY <1>1, <1>2, PlanAssumption DEF Accepted, ValidFallback, UsesSql, IInv, TypeOK
  <2>3. pack[i].fallback = "none" => plan[i].fallback = "none"
    BY DEF IInv, PlanIsOfBranch, PlanOf, FallbackStatus
  <2>. QED  BY <1>2, <2>1, <2>2, <2>3 DEF Served
<1>3. CASE ~UsesSql(pack[i].kind)
  <2>1. RequiresHost(request) /\ ~DbOnly(request)
    BY <1>1, <1>3 DEF RequiresHost, Required
  <2>2. "host" \in opened
    BY <1>1, <2>1 DEF Opened, RequiresSsh, DbOnly, IInv, TypeOK, Requests, Modes
  <2>3. pack[i].fallback # "query"
    BY <1>1, <1>3 DEF Accepted, ValidFallback, UsesSql
  <2>. QED  BY <1>3, <2>2, <2>3 DEF Served
<1>. QED  BY <1>2, <1>3

\* The transports opened before the version was known serve every planned item
\* and its fallback.
THEOREM PlannedItemsAreServed == Spec => []PlannedIsServed
BY Invariance, ServedInv, PTL

LEMMA InVainInv == IInv => NothingOpenedInVain
<1>. SUFFICES ASSUME IInv, stage = "planned" PROVE NothingOpenedInVain
  BY DEF NothingOpenedInVain
<1>. DEFINE uses(i, sql) == plan[i].status = "planned" /\ UsesSql(pack[i].kind) = sql
            outOfScope(i) == plan[i].status = "skipped" /\ pack[i].kind = "query"
            database == request.scope = "cluster"
                          \/ \E i \in Items : uses(i, TRUE) \/ outOfScope(i)
<1>1. opened = Opened(request) /\ \A i \in Items : plan[i].status = ItemStatus(branch, i)
  BY DEF IInv, RequestOpened, PlanIsOfBranch, PlanOf, Connected
<1>2. \A i \in Items : pack[i].kind \in Kinds
  BY PlanAssumption DEF IInv, TypeOK
<1>3. RequiresDatabase(request) => database
  <2>. SUFFICES ASSUME NEW i \in Items, Required(request, i), UsesSql(pack[i].kind)
                PROVE  uses(i, TRUE) \/ outOfScope(i)
    BY DEF RequiresDatabase
  <2>. QED  BY <1>1 DEF Required, UsesSql, IsMetric, ItemStatus
<1>4. RequiresHost(request) => \E i \in Items : uses(i, FALSE)
  <2>. SUFFICES ASSUME NEW i \in Items, Required(request, i), ~UsesSql(pack[i].kind)
                PROVE  uses(i, FALSE)
    BY DEF RequiresHost
  <2>. QED  BY <1>1, <1>2 DEF Required, UsesSql, IsMetric, ItemStatus, Kinds
<1>5. "adapter" \in opened => database
  BY <1>1, <1>3 DEF Opened
<1>6. "host" \in opened => (\E i \in Items : uses(i, FALSE)) \/ ("ssh" \in opened /\ database)
  BY <1>1, <1>3, <1>4 DEF Opened, RequiresSsh
<1>. QED  BY <1>5, <1>6 DEF NothingOpenedInVain

\* Behind every connection is an item that is planned on it, a query that has no
\* variant in this scope, or the discovery of a cluster.
THEOREM ConnectionsAreUsed == Spec => []NothingOpenedInVain
BY Invariance, InVainInv, PTL

\* The branch of a plan with a query is the nearest one.
LEMMA BranchIsNearest ==
  ASSUME IInv, stage = "planned", NEW i \in Items, i \in request.selected,
         pack[i].kind = "query"
  PROVE  Nearest(branch) /\ Accepted(pack[i])
<1>1. Accepted(pack[i])
  BY DEF IInv, PackAccepted, Connected
<1>2. version # 0
  BY <1>1, QueryNeedsDatabase DEF IInv, RequestOpened, Connected
<1>. QED  BY <1>1, <1>2 DEF IInv, PlanIsOfBranch

LEMMA ExactInv == IInv => VariantsAreExact
<1>. SUFFICES ASSUME IInv, stage = "planned", NEW i \in request.selected,
                     pack[i].kind = "query"
              PROVE  IF request.scope \in QueryScopes(pack[i].variants)
                       THEN /\ plan[i].status = "planned"
                            /\ \E v \in pack[i].variants :
                                 /\ plan[i].variants = {v}
                                 /\ \E b \in v.lts :
                                      /\ b <= version
                                      /\ \A c \in Branches : c <= version => c <= b
                       ELSE plan[i].status = "skipped"
  BY DEF VariantsAreExact
<1>1. i \in Items
  BY DEF IInv, TypeOK, Requests
<1>2. Nearest(branch) /\ ValidVariants(pack[i].variants)
  BY <1>1, BranchIsNearest DEF Accepted, UsesSql
<1>3. /\ plan[i].status = ItemStatus(branch, i)
      /\ plan[i].variants = Matches(branch, pack[i].variants)
  BY <1>1 DEF IInv, PlanIsOfBranch, PlanOf, UsesSql
<1>4. branch \in Branches
  BY <1>2 DEF Nearest
<1>5. CASE request.scope \in QueryScopes(pack[i].variants)
  <2>1. PICK v \in pack[i].variants :
          Matches(branch, pack[i].variants) = {v} /\ branch \in v.lts
    BY <1>2, <1>4, <1>5, MatchesInScope
  <2>2. plan[i].status = "planned"
    BY <1>3, <2>1 DEF ItemStatus, IsMetric
  <2>. QED  BY <1>2, <1>3, <1>5, <2>1, <2>2 DEF Nearest
<1>6. CASE request.scope \notin QueryScopes(pack[i].variants)
  <2>1. Matches(branch, pack[i].variants) = {}
    BY <1>2, <1>4, <1>6, MatchesInScope
  <2>. QED  BY <1>3, <1>6, <2>1 DEF ItemStatus
<1>. QED  BY <1>5, <1>6

\* A query is planned exactly in the scopes it declares, with the one variant for
\* the latest branch that is not newer than the server.
THEOREM VariantsOfPlan == Spec => []VariantsAreExact
BY Invariance, ExactInv, PTL

LEMMA FallbackInv == IInv => FallbackIsPlanned
<1>. SUFFICES ASSUME IInv, stage = "planned", NEW i \in Items, plan[i].status = "planned",
                     pack[i].fallback # "none"
              PROVE  plan[i].fallback = "planned"
  BY DEF FallbackIsPlanned
<1>1. /\ plan[i].status = ItemStatus(branch, i)
      /\ plan[i].fallback = FallbackStatus(branch, i)
  BY DEF IInv, PlanIsOfBranch, PlanOf
<1>2. i \in request.selected /\ Accepted(pack[i])
  BY <1>1 DEF ItemStatus, IInv, PackAccepted, Connected
<1>3. pack[i].fallback = pack[i].kind
  BY <1>2 DEF Accepted, ValidFallback
<1>4. CASE pack[i].kind = "query"
  <2>1. Nearest(branch) /\ branch \in Branches
    BY <1>2, <1>4, BranchIsNearest DEF Nearest
  <2>2. Matches(branch, pack[i].variants) # {}
    BY <1>1, <1>2, <1>4 DEF ItemStatus
  <2>3. request.scope \in QueryScopes(pack[i].fallbackVariants)
    BY <1>2, <1>3, <1>4, <2>2 DEF Matches, QueryScopes, Accepted, ValidFallback
  <2>4. Matches(branch, pack[i].fallbackVariants) # {}
    BY <1>2, <1>3, <1>4, <2>1, <2>3, MatchesInScope DEF Accepted
  <2>. QED  BY <1>1, <1>2, <1>3, <1>4, <2>4 DEF FallbackStatus
<1>5. CASE pack[i].kind # "query"
  <2>1. pack[i].fallback = "script" => ~DbOnly(request)
    BY <1>1, <1>2, <1>3 DEF ItemStatus
  <2>. QED  BY <1>1, <1>2, <1>3, <1>5, <2>1 DEF FallbackStatus
<1>. QED  BY <1>4, <1>5

\* A planned item never loses its fallback to the scope or the mode.
THEOREM FallbacksArePlanned == Spec => []FallbackIsPlanned
BY Invariance, FallbackInv, PTL

LEMMA CollectInapplicable == IInv /\ Collect => InapplicableIsNotInvoked'
<1>. SUFFICES ASSUME IInv, Collect, NEW i \in Items, report'[i] # "omitted"
              PROVE  /\ report'[i] = "invoked" => Applies(i)
                     /\ report'[i] = "empty" =>
                          /\ pack[i].kind = "sql_metric" /\ request.snapshots
                          /\ request.scope \notin QueryScopes(pack[i].variants)
  BY DEF InapplicableIsNotInvoked, Collect, Applies, Nearest, ApplicableKinds, DbOnly
<1>1. stage = "planned" /\ plan[i].status = "planned"
  BY DEF Collect
<1>2. report'[i] = IF Invoked(i) THEN "invoked" ELSE "empty"
  BY DEF Collect
<1>3. plan[i].status = ItemStatus(branch, i) /\ Required(request, i)
  BY <1>1, PlannedIsRequired DEF IInv, PlanIsOfBranch, PlanOf
<1>4. i \in request.selected /\ pack[i].kind \in ApplicableKinds(request)
  BY <1>3, PlanAssumption DEF Required, ApplicableKinds, IInv, TypeOK
<1>5. CASE ~UsesSql(pack[i].kind)
  BY <1>1, <1>2, <1>4, <1>5 DEF Invoked, Applies
<1>6. CASE UsesSql(pack[i].kind)
  <2>1. version # 0 /\ Accepted(pack[i])
    BY <1>1, <1>3, <1>6 DEF IInv, RequestOpened, PackAccepted, Connected, RequiresDatabase
  <2>2. branch \in Branches /\ Nearest(branch) /\ ValidVariants(pack[i].variants)
    BY <1>1, <1>6, <2>1 DEF IInv, PlanIsOfBranch, Nearest, Accepted
  <2>3. plan[i].variants = Matches(branch, pack[i].variants)
    BY <1>1, <1>4, <1>6 DEF IInv, PlanIsOfBranch, PlanOf
  <2>4. CASE request.scope \in QueryScopes(pack[i].variants)
    <3>1. plan[i].variants # {}
      BY <2>2, <2>3, <2>4, MatchesInScope
    <3>2. \E v \in pack[i].variants : branch \in v.lts /\ request.scope \in v.scopes
      BY <2>3, <3>1 DEF Matches
    <3>. QED  BY <1>1, <1>2, <1>4, <2>2, <3>1, <3>2 DEF Invoked, Applies
  <2>5. CASE request.scope \notin QueryScopes(pack[i].variants)
    <3>1. plan[i].variants = {}
      BY <2>2, <2>3, <2>5, MatchesInScope
    <3>2. pack[i].kind = "sql_metric"
      BY <1>1, <1>3, <1>6, <2>3, <3>1 DEF ItemStatus, UsesSql
    <3>. QED  BY <1>1, <1>2, <1>3, <1>6, <2>5, <3>1, <3>2 DEF Invoked, Required, IsMetric
  <2>. QED  BY <2>4, <2>5
<1>. QED  BY <1>5, <1>6

LEMMA StepInapplicable ==
  IInv /\ InapplicableIsNotInvoked /\ [Next]_vars => InapplicableIsNotInvoked'
<1>. SUFFICES ASSUME IInv, InapplicableIsNotInvoked, [Next]_vars
              PROVE  InapplicableIsNotInvoked'
  OBVIOUS
<1>1. CASE Collect
  BY <1>1, CollectInapplicable
<1>2. CASE Load \/ Connect \/ BuildPlan
  <2>1. stage' # "collected"
    BY <1>2 DEF Load, Connect, BuildPlan, PlanWith
  <2>. QED  BY <2>1 DEF InapplicableIsNotInvoked
<1>3. CASE UNCHANGED vars
  BY <1>3 DEF vars, InapplicableIsNotInvoked, Applies, ApplicableKinds, DbOnly, Nearest
<1>. QED  BY <1>1, <1>2, <1>3 DEF Next

\* Nothing is invoked that the mode, the scope or the version of the server makes
\* inapplicable, and nothing inapplicable is shown but a SQL metric of another scope.
THEOREM InapplicableStaysOut == Spec => []InapplicableIsNotInvoked
<1>1. Init => InapplicableIsNotInvoked
  BY DEF Init, InapplicableIsNotInvoked
<1>2. QED
  BY <1>1, StepInapplicable, Invariance, PTL DEF Spec
================================================================================
