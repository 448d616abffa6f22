----------------------------- MODULE MCPipeline -----------------------------
(* Pipeline on a document, and a plain clip or another document beside it. *)
EXTENDS Pipeline, TLC

CONSTANTS doc, clip, memo, w1, w2

Shape == [u \in Utts |-> IF u = clip THEN 0 ELSE 2]
=============================================================================
