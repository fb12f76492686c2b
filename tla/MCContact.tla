------------------------------ MODULE MCContact ------------------------------
(* A host over a renewal or two, or at one moment while its documents change. *)
EXTENDS Contact

Over(until, may, often, fail, times) ==
    [until |-> until, acts |-> may, changes |-> often, faults |-> fail, failures |-> times]

\* Two renewals with an interruption; renewals lost one after another; a file that does not survive; a host
\* withdrawn or suspended around a renewal; documents that change while reports are lost.
AllSituations ==
    {Over(9, {}, 0, {"lost", "crash"}, 1),
     Over(5, {}, 0, {"lost", "limited"}, 3),
     Over(6, {}, 0, {"corrupt"}, 1),
     Over(5, {"revoke", "delete", "suspend"}, 2, {"lost"}, 1),
     Over(0, {"change"}, 2, {"lost", "crash", "store"}, 2)}

Undisturbed == {Over(8, {}, 0, {}, 0)}
=============================================================================
