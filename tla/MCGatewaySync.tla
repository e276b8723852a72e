--------------------------- MODULE MCGatewaySync ---------------------------
(***************************************************************************)
(* Small instances of GatewaySync for TLC.                                 *)
(***************************************************************************)
EXTENDS GatewaySync

CONSTANTS u1

Answer(kind, allowed) ==
    [kind |-> kind, allowed |-> allowed, disallowed |-> {}]
\* An app that serves a document or fails.
UpAndDown == {Answer("document", {u1}), Answer("http_error", {})}

AllProcs == Tasks \cup Servers
=============================================================================
