------------------------------ MODULE Register ------------------------------
(***************************************************************************)
(* The register of LLM functions (pkg/bridge/ai/register/register.go): a   *)
(* sync.Map from connection id to the connected function, of which the     *)
(* model keeps the tag.  The key is the connection id alone, so that a     *)
(* second registration of the same connection replaces the first.          *)
(***************************************************************************)
EXTENDS Domain, FiniteSets

VARIABLE functions      \* connID -> tag of its function, or NoTag

RegisterTypeOK == functions \in [Conns -> Tags \union {NoTag}]

RegisterInit == functions = [c \in Conns |-> NoTag]

RegisterFunction(c, tag) == functions' = [functions EXCEPT ![c] = tag]

UnregisterFunction(c) == functions' = [functions EXCEPT ![c] = NoTag]

\* ListToolCalls: one tool per tag, whatever the number of connections.
ListToolCalls == {functions[c] : c \in Conns} \ {NoTag}

\* SfnFactor: how many connections registered the tag.
SfnFactor(tag) == Cardinality({c \in Conns : functions[c] = tag})
=============================================================================
