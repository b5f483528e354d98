--------------------------------- MODULE MCFields ---------------------------------
(* Two coroutine fields of a sync function, one of them with a use() that is not. *)
EXTENDS Fields

CONSTANTS header, query, token

SyncOrder == <<token, header, query>>
==============================================================================
