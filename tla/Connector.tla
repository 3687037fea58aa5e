----------------------------- MODULE Connector -----------------------------
(***************************************************************************)
(* The connector of a zipper (core/connector.go): the table of the         *)
(* connections that finished their handshake, with a context that ends     *)
(* its use.  The table is a sync.Map and the context is looked at before   *)
(* the table is touched, with no lock around the two.                      *)
(*                                                                         *)
(* Store is split at that point, because a Close between the check and the *)
(* write is visible afterwards.  Get and Remove are not: whatever happens  *)
(* between their check and their access, the result is one that the        *)
(* unsplit operation gives before or after it.                             *)
(***************************************************************************)

EXTENDS Domain

VARIABLES
    connections,    \* the keys of the sync.Map
    connectorDone   \* the connector's context is cancelled

connectorVars == <<connections, connectorDone>>

ConnectorTypeOK ==
    /\ connections \subseteq Conns
    /\ connectorDone \in BOOLEAN

\* NewConnector
ConnectorInit ==
    /\ connections = {}
    /\ connectorDone = FALSE

\* The second half of Store, once the context was found open.
ConnectorStore(c) ==
    /\ connections' = connections \union {c}
    /\ UNCHANGED connectorDone

\* Remove: after the context ended it returns ErrConnectorClosed and deletes
\* nothing.
ConnectorRemove(c) ==
    /\ connections' = IF connectorDone THEN connections ELSE connections \ {c}
    /\ UNCHANGED connectorDone

\* Get finds the connection.
ConnectorGet(c) == ~connectorDone /\ c \in connections

\* Close, when the context is still open: first the cancellation ...
ConnectorCancel ==
    /\ connectorDone' = TRUE
    /\ UNCHANGED connections

\* ... then the Range that deletes every key.
ConnectorClear ==
    /\ connections' = {}
    /\ UNCHANGED connectorDone
=============================================================================
