------------------------------ MODULE MCPlayback ------------------------------
(* Playback of a two-chunk document, a clip and two alerts.                *)
EXTENDS Playback

CONSTANTS doc, clip, alert, siren

Shape == [u \in Utts |-> IF u = doc THEN 2 ELSE 0]
===============================================================================
