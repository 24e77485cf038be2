---------------------------- MODULE BucketsRaces ----------------------------
(***************************************************************************)
(* Buckets with a history of what a save of the settings has not seen.     *)
(* The console and PutBucketVersioning read the row, change a field and    *)
(* write every column, with neither a lock nor a transaction around the    *)
(* two statements, and a read that fails counts as the default settings.   *)
(***************************************************************************)
EXTENDS Buckets

VARIABLE missed     \* missed[c]: columns that c will write and has not seen as they are

raceVars == <<vars, missed>>

Columns == {"versioning", "rule"}
Differing(a, b) == {f \in Columns : a[f] # b[f]}
Saving(c) == pc[c] \in {"save", "put"}

RaceInit == Init /\ missed = [c \in Clients |-> {}]

\* A column is missed by a read that failed, or when somebody else changes it
\* between the read and the save.
RaceNext ==
    /\ Next
    /\ missed' = [c \in Clients |->
         IF ~Saving(c)' THEN {}
         ELSE IF ~Saving(c) THEN Differing(seen'[c], SettingsOf(id[c]))
         ELSE missed[c] \cup Differing(settings, settings')]

RaceSpec == RaceInit /\ [][RaceNext]_raceVars

-----------------------------------------------------------------------------

\* "Never back to unversioned: S3 does not allow it" (console/settings.go): while a
\* bucket exists, its versioning is switched back to unversioned only by the
\* console's save, and by one that did not see it turned on: its read had failed, or
\* it was turned on after the read.
OnlyBlindSavesUnversion ==
    [][bucket' = bucket /\ settings.versioning # "unversioned"
            /\ settings'.versioning = "unversioned"
         => \E c \in Clients : pc[c] = "save" /\ pc'[c] = "idle" /\ "versioning" \in missed[c]]_vars

\* What else is saved for a bucket survives a PutBucketVersioning, unless that had
\* failed to read it, or it was changed after the read.
OnlyBlindSavesLoseRules ==
    [][\A c \in Clients : pc[c] = "put" /\ pc'[c] = "idle" /\ settings'.rule # settings.rule
         => "rule" \in missed[c]]_vars
=============================================================================
