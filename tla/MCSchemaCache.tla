---- MODULE MCSchemaCache ----
(***************************************************************************)
(* SchemaCache for TLC.                                                    *)
(***************************************************************************)
EXTENDS SchemaCache, TLC

Sequential == {}

Interchangeable == Permutations(Namespaces) \union Permutations(Readers) \union Permutations(Indexers)
====
