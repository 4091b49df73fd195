----------------------------- MODULE MCDataSharing -----------------------------
EXTENDS DataSharing

CONSTANTS c1, p, q

OneChunk == <<c1>>

(* q has the file, p is uploading it: the user learns of each of them. *)
Known == [k \in Key |-> IF k = Meta THEN {q} ELSE {p}]
=============================================================================
