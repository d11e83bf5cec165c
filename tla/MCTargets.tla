------------------------------ MODULE MCTargets -------------------------------
(* Targets with two names, and environments that list both, one, none, a   *)
(* name twice, an empty entry or a bad one.                                *)
EXTENDS Targets

CONSTANTS local, share, none, blank, malformed

Entries == {<<>>, <<local, share>>, <<share, blank, local>>, <<share>>,
            <<local, local>>, <<blank, local, malformed>>, <<blank>>}

SomeEnvironments == [entries : Entries, backupDir : {TRUE}]
                        \cup [entries : {<<>>, <<share>>}, backupDir : {FALSE}]

ASSUME MCTargetsAssumption ==
    Cardinality({local, share, none, blank, malformed}) = 5
===============================================================================
