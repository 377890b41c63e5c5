--------------------------- MODULE MCSizeControl ---------------------------
(* Two workers; a target between 10 and 12 bytes that grows and shrinks in   *)
(* steps of one, refused payloads inside and above that range, a fast and a  *)
(* slow latency, and a streak of one success or of two failures.             *)
EXTENDS SizeControl
=============================================================================
