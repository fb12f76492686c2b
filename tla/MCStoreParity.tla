---------------------------- MODULE MCStoreParity ----------------------------
(* Two fleets and one or two of everything that hangs from them. *)
EXTENDS StoreParity, TLC

Interchangeable == Permutations(HostIDs) \cup Permutations(Fingerprints) \cup Permutations(AccountIDs)

\* No action reads the last answer; the properties about it are about steps.
Stored == <<area, mem, pg, now, drawn>>
=============================================================================
