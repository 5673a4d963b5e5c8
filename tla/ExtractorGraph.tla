--------------------------- MODULE ExtractorGraph ---------------------------
(***************************************************************************)
(* The declarative extractor DAG: which extraction kind waits for which.   *)
(* Pure structure, built once at boot; ExtractionPipeline schedules on it. *)
(***************************************************************************)
EXTENDS Integers, Sequences

CONSTANTS
    Kinds,        \* the registered extraction kinds
    Deps,         \* edges [of, kind, requires, group]: `of` waits for `kind`
    NoGroup,      \* the group of an ungrouped (AND) edge
    Roots         \* the kinds without edges, in declaration order

GroupNames == {e.group : e \in Deps}

ASSUME DepsAssumption ==
    Deps \subseteq [of : Kinds, kind : Kinds, requires : {"succeeded", "settled"}, group : GroupNames]

\* The constructor refuses an extractor that waits for itself or twice for one kind.
ASSUME NoSelfDependency == \A e \in Deps : e.of # e.kind
ASSUME NoDuplicateDependency == \A d, e \in Deps : d.of = e.of /\ d.kind = e.kind => d = e

\* graph.roots(): exactly the extractors that wait for nothing.
ASSUME RootsAssumption ==
    /\ Roots \in Seq(Kinds)
    /\ Roots # <<>>
    /\ {Roots[i] : i \in DOMAIN Roots} = {k \in Kinds : \A e \in Deps : e.of # k}

\* Ungrouped edges of k (AND semantics).
PlainDeps(k) == {e \in Deps : e.of = k /\ e.group = NoGroup}

\* The OR-groups k declares, and the edges in one of them.
Groups(k) == {e.group : e \in {d \in Deps : d.of = k}} \ {NoGroup}
Members(k, g) == {e \in Deps : e.of = k /\ e.group = g}

\* Kinds k waits for, and the kinds that wait for k.
DependsOn(k) == {e.kind : e \in {d \in Deps : d.of = k}}
DependentsOf(k) == {e.of : e \in {d \in Deps : d.kind = k}}

\* assertAcyclic: among any kinds there is one that waits for none of them.
ASSUME Acyclic == \A ks \in SUBSET Kinds : ks # {} => \E k \in ks : DependsOn(k) \cap ks = {}
=============================================================================
