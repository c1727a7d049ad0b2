-------------------------- MODULE MCExtensionRunner --------------------------
(***************************************************************************)
(* Two calls race on one key; the one that wins has its extension run.     *)
(* Calls with different keys share no row and no process.                  *)
(***************************************************************************)
EXTENDS ExtensionRunner, TLC

CONSTANTS c1, c2, k1

TwoCalls == {c1, c2}
OneKey == {k1}
OnOneKey == [c \in TwoCalls |-> k1]
=============================================================================
