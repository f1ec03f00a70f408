---------------------------- MODULE MCConversations ----------------------------
(* Two clients, the consumer of file.deleted, two request ids.                   *)
EXTENDS Conversations, TLC

CONSTANTS c1, c2, consumer, r1, r2

MCKeys == ({"create"} \X Requests) \union ({"rollback", "delete"} \X Ids) \union {<<"event", 1>>}

MCSymmetry == Permutations({c1, c2}) \union Permutations({r1, r2})
===============================================================================
