------------------------ MODULE MCInboundConnections ------------------------
(* A session started, by a request with a body, and ended on one connection, *)
(* an empty keepalive line in between.                                       *)
EXTENDS InboundConnections

MCScript == <<[kind |-> "INVITE", body |-> 1],
              [kind |-> "CRLF",   body |-> 0],
              [kind |-> "BYE",    body |-> 0]>>

MCInvite == <<[kind |-> "INVITE", body |-> 1]>>
===============================================================================
