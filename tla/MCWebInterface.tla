----------------------------- MODULE MCWebInterface -----------------------------
EXTENDS WebInterface

CONSTANTS any, other

(* Methods that change what the node holds and what the panels show, while *)
(* a change is undone; addPeer stands for setEntry, which does as it does.  *)
ChangesOverlap ==
  [c \in Slot |-> IF c = any THEN {"table", "catalog", "addPeer", "addEntry"}
                  ELSE {"deleteEntry"}]

(* Methods of all other kinds, while the panels are updated: sendPrivate   *)
(* does as sendChat, searchFirst as searchAll.                             *)
OthersOverlap ==
  [c \in Slot |-> IF c = any
                  THEN {"unicast", "sendChat", "upload", "download", "searchAll", "resolve", "tag"}
                  ELSE {"table"}]
=============================================================================
