----------------------------- MODULE MCMongoDump -----------------------------
(***************************************************************************)
(* Small instances of MongoDump: one or two shards with up to two          *)
(* documents each behind a mongos, or one mongod, and a queue of one or    *)
(* two places, so that dumpers block on a full queue and the writer on an  *)
(* empty one.  Shards and _ids are interchangeable.                        *)
(***************************************************************************)
EXTENDS MongoDump, TLC

Symmetric == Permutations(Shards) \union Permutations(Ids)

=============================================================================
