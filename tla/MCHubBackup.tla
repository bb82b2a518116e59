----------------------------- MODULE MCHubBackup -----------------------------
(* A hub and a directory to restore into: events are appended and pushed     *)
(* again around a backup, or buckets registered while identities change.     *)
EXTENDS HubBackup

Bounds(i, b, w, c) == [identities |-> i, buckets |-> b, writes |-> w, crashes |-> c, backups |-> 1, restores |-> 1]
MCBudgets == {Bounds(1, 0, 3, 1), Bounds(2, 1, 1, 1)}
=============================================================================
