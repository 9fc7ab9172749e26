-------------------------- MODULE MCServiceWorker --------------------------
(* Model-checking instances of ServiceWorker.                               *)
EXTENDS ServiceWorker

Faults(kinds, most) == [kinds |-> kinds, most |-> most]

\* One fault of any kind, or two that leave one caller at a time and the token
\* alone.
AnyFault == {Faults(Fault, 1), Faults({"restart", "kill", "revoke", "slow"}, 2)}

\* A token is pasted, and nothing else goes wrong.
OnePaste == {Faults({"paste"}, 1)}
=============================================================================
