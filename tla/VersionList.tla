---------------------------- MODULE VersionList ----------------------------
(***************************************************************************)
(* What S3 versioning promises about one key, as the comments of           *)
(* db/versioning_state.go, db/current.go, db/objects.go and                *)
(* db/version_access.go put it: a list of versions, oldest first, of which *)
(* the last is current, and a plain GET that shows the current one unless  *)
(* it is a delete marker.                                                  *)
(***************************************************************************)
EXTENDS Integers, SequencesExt

CONSTANTS
    Contents,     \* what can be stored
    Ids,          \* the version ids that can be minted
    NullId,       \* the id of a version written outside an enabled bucket
    Marker,       \* the body of a delete marker
    Nothing       \* what a GET shows when it answers 404

VARIABLES
    mode,         \* the bucket's versioning state
    list,         \* the versions of the key, oldest first
    visible       \* what a plain GET shows

absVars == <<mode, list, visible>>

Version == [id : Ids \cup {NullId}, body : Contents \cup {Marker}]

IdsOf(l) == {l[i].id : i \in DOMAIN l}

\* A list has an id once.
Without(l, id) ==
    IF id \in IdsOf(l) THEN RemoveAt(l, CHOOSE i \in DOMAIN l : l[i].id = id) ELSE l

Shown(l) == IF l = <<>> \/ Last(l).body = Marker THEN Nothing ELSE Last(l).body

Become(l) ==
    /\ list' = l
    /\ visible' = Shown(l)
    /\ mode' = mode

\* Only an enabled bucket mints ids; elsewhere there is one null version, and
\* the new one takes the place of the old.
Add(body) ==
    IF mode = "enabled"
    THEN \E id \in Ids \ IdsOf(list) : Become(Append(list, [id |-> id, body |-> body]))
    ELSE Become(Append(Without(list, NullId), [id |-> NullId, body |-> body]))

Put == \E c \in Contents : Add(c)

\* A versioned delete is a write of a marker, a plain one removes the object.
Delete ==
    IF mode = "unversioned" THEN Become(Without(list, NullId)) ELSE Add(Marker)

\* The one operation that destroys a version: the others stay as they were,
\* and whatever is last now is current.
DeleteVersion == \E id \in IdsOf(list) : Become(Without(list, id))

\* Once on, versioning can be suspended and resumed but never removed.
SetMode ==
    /\ mode' \in {"enabled", "suspended"}
    /\ UNCHANGED <<list, visible>>

Init == mode = "unversioned" /\ list = <<>> /\ visible = Nothing
Next == Put \/ Delete \/ DeleteVersion \/ SetMode
Spec == Init /\ [][Next]_absVars
=============================================================================
