----------------------------- MODULE MCContentPlan -----------------------------
(***************************************************************************)
(* Instances of ContentPlan: packs whose queries are complete, split at a   *)
(* branch, limited to a scope, overlapping or incomplete.                   *)
(***************************************************************************)
EXTENDS ContentPlan, TLC

MCBranches == {2, 4}
MCVersions == {1, 2, 3, 5}

Variant(n, lts, scopes) == [id |-> n, lts |-> lts, scopes |-> scopes]

Complete == {Variant("a", {2, 4}, {"node", "cluster"})}
NodeOnly == {Variant("a", {2, 4}, {"node"})}
SplitAtBranch == {Variant("a", {2}, {"node"}), Variant("b", {4}, {"node"}),
                  Variant("c", {2, 4}, {"cluster"})}
Overlapping == {Variant("a", {2, 4}, {"node"}), Variant("b", {4}, {"node", "cluster"}),
                Variant("c", {2}, {"cluster"})}
Incomplete == {Variant("a", {4}, {"node", "cluster"})}

VariantLists == {Complete, NodeOnly, SplitAtBranch, Overlapping, Incomplete}

Def(kind, variants, fallback, fallbackVariants) ==
  [kind |-> kind, variants |-> variants, fallback |-> fallback,
   fallbackVariants |-> fallbackVariants]

\* Scripts and sampler metrics have no variants of their own.
WithFallback(kind, variants) ==
  {Def(kind, variants, "none", {}), Def(kind, variants, "script", {})}
    \cup {Def(kind, variants, "query", f) : f \in VariantLists}

MCItemDefs ==
  UNION {WithFallback(kind, variants) : kind \in {"query", "sql_metric"}, variants \in VariantLists}
    \cup UNION {WithFallback(kind, {}) : kind \in {"script", "host_metric"}}

ItemSymmetry == Permutations(Items)
================================================================================
