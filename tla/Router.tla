------------------------------- MODULE Router -------------------------------
(***************************************************************************)
(* The default router of a zipper (core/router/router.go): which           *)
(* connections observe which tags, and which target each of them wants.    *)
(* Every method runs under r.mu, so each one is a single atomic update of  *)
(* the two maps, or a single read of them.                                 *)
(***************************************************************************)

EXTENDS Domain

VARIABLES
    targets,    \* connID -> wanted target, or NoTarget where there is no entry
    data        \* tag -> the connIDs that observe it

routerVars == <<targets, data>>

RouterTypeOK ==
    /\ targets \in [Conns -> Targets \union {NoTarget}]
    /\ data \in [Tags -> SUBSET Conns]

\* Default(): two empty maps.
RouterInit ==
    /\ targets = [c \in Conns |-> NoTarget]
    /\ data = [t \in Tags |-> {}]

\* Mutant: a new observer replaces the earlier ones.
RouterAddReplaces(c, tags, wanted) ==
    /\ targets' = IF wanted = NoTarget THEN targets
                  ELSE [targets EXCEPT ![c] = wanted]
    /\ data' = [t \in Tags |-> IF t \in tags THEN {c} ELSE data[t]]

\* Add: a connection without a wanted target leaves the targets map alone.
RouterAdd(c, tags, wanted) ==
    /\ targets' = IF wanted = NoTarget THEN targets
                  ELSE [targets EXCEPT ![c] = wanted]
    /\ data' = [t \in Tags |-> IF t \in tags THEN data[t] \union {c}
                               ELSE data[t]]

\* Mutant: a function without a wanted target gets targeted frames too.
RouteUntargeted(tag, target) ==
    {c \in data[tag] : target # NoTarget => targets[c] \in {target, NoTarget}}

\* Route: the observers of the tag; when the frame names a target, only those
\* of them that want exactly that target.
Route(tag, target) ==
    {c \in data[tag] : target # NoTarget => targets[c] = target}

\* Remove: no entry of the connection is left.
RouterRemove(c) ==
    /\ targets' = [targets EXCEPT ![c] = NoTarget]
    /\ data' = [t \in Tags |-> data[t] \ {c}]

\* Release: both maps are cleared.
RouterRelease ==
    /\ targets' = [c \in Conns |-> NoTarget]
    /\ data' = [t \in Tags |-> {}]
=============================================================================
