---------------------------- MODULE MCFrameConn ----------------------------
EXTENDS FrameConn

CONSTANTS w1, w2

\* Every field of a handshake has a value of its own.
Hs(tags, def, target) ==
    [type |-> "HandshakeFrame", Name |-> <<1>>, ID |-> <<2, 2>>,
     ClientType |-> 93, ObserveDataTags |-> tags, AuthName |-> <<3>>,
     AuthPayload |-> <<4>>, Version |-> <<5>>, FunctionDefinition |-> def,
     WantedTarget |-> target]

\* Tags with one to four significant bytes, empty and absent fields, a frame of each type
\* and a value that is no frame.
OutgoingFrames ==
    {Hs(<<1, 65537, 2147483646>>, <<<<10>>>>, <<6>>), Hs(<<>>, <<>>, <<>>),
     [type |-> "DataFrame", Tag |-> 57345, Metadata |-> <<>>, Payload |-> <<9>>],
     [type |-> "HandshakeAckFrame"],
     [type |-> "RejectedFrame", Message |-> <<7>>],
     [type |-> "GoawayFrame", Message |-> <<7>>],
     [type |-> "ConnectToFrame", Endpoint |-> <<8>>],
     [type |-> "nil"]}
=============================================================================
