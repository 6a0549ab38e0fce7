------------------------------ MODULE MCOutbox ------------------------------
(* Export threads for the runs over Outbox. *)
EXTENDS Outbox

CONSTANTS p1, p2

\* One process exports, the other has only leftovers to send.
OneExporter  == {<<p1, "logs">>}
=============================================================================
