------------------------------- MODULE Domain -------------------------------
(***************************************************************************)
(* The sets every part of a zipper talks about.                            *)
(***************************************************************************)

CONSTANTS
    Conns,      \* the connections, standing for the ids incrID gives them
    Tags,       \* data tags
    NoTag,      \* no tag
    Targets,    \* values of the target and wanted-target metadata keys
    NoTarget    \* the key is absent

ASSUME DomainAssumption ==
    /\ NoTag \notin Tags
    /\ NoTarget \notin Targets
=============================================================================
