----------------------------- MODULE MCIngestion -----------------------------
(***************************************************************************)
(* Instances of Ingestion: one push of one repository, delivered twice,    *)
(* beside calls that register the repository, change it or remove it.  The *)
(* push and the calls reconcile the same child job.                        *)
(***************************************************************************)
EXTENDS Ingestion, TLC

CONSTANTS d1, h1, h2, i1, i2, n1, main, o1, o2, o3

OneDelivery == {d1}
MCRepoOf == [d \in Deliveries |-> n1]
MCJobOf == [d \in Deliveries |-> main]
TwoHooks == {h1, h2}
MCDeliveryOf == [h \in Hooks |-> d1]
OneId == {i1}
TwoIds == {i1, i2}
MCNameOf == [i \in Ids |-> n1]
OneName == {n1}
OneJob == {main}
OneOperator == {o1}
ThreeOperators == {o1, o2, o3}
EveryKind == {"register", "scan", "unregister", "disable", "touch"}
OnlyRegister == {"register"}

Symmetry == Permutations(Hooks) \cup Permutations(Ids) \cup Permutations(Operators)

\* State constraint: an await that raises or a restart, not both.
OneMishap == faults + crashes <= 1
=============================================================================
