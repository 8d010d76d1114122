-------------------------- MODULE MCMigrationPlan --------------------------
(***************************************************************************)
(* Checks Planning on every mapping file of up to two mappings over two    *)
(* channels, and on snapshots with and without private data.               *)
(***************************************************************************)
EXTENDS Planning

CONSTANTS
  Targets,        \* target namespaces a mapping file may name
  MaxMappings     \* bound on the length of a mapping file

Rec(k, v) == [key |-> k, value |-> v, metadata |-> FALSE]
Marked(k, v) == [key |-> k, value |-> v, metadata |-> TRUE]

(* Every key below occurs once per channel, so a record names its origin.  *)
Lifecycle == [name |-> "_lifecycle", records |-> <<Rec("definition", "d")>>]

PublicOnly ==
  [public |-> <<Lifecycle, [name |-> "basic", records |-> <<Rec("a", "1"), Rec("b", "2")>>]>>,
   hashes |-> <<>>]

WithHashes ==
  [public |-> <<Lifecycle, [name |-> "basic", records |-> <<Rec("c", "3")>>],
                [name |-> "other", records |-> <<Rec("d", "4")>>]>>,
   hashes |-> <<[namespace |-> "basic", collection |-> "owners", records |-> <<Rec("h1", "x"), Rec("h2", "y")>>],
                [namespace |-> "basic", collection |-> "prices", records |-> <<Rec("h3", "z")>>],
                [namespace |-> "hashed", collection |-> "owners", records |-> <<Rec("h4", "w")>>]>>]

KeyLevel ==
  [public |-> <<Lifecycle, [name |-> "basic", records |-> <<Rec("e", "5")>>],
                [name |-> "other", records |-> <<Marked("f", "6")>>]>>,
   hashes |-> <<[namespace |-> "basic", collection |-> "owners", records |-> <<Rec("h5", "v"), Marked("h6", "u")>>]>>]

MCSnapshots ==
  {1 :> PublicOnly, 1 :> WithHashes, 1 :> KeyLevel,
   1 :> PublicOnly @@ 2 :> WithHashes, 1 :> WithHashes @@ 2 :> WithHashes}

MCMappings ==
  [channel: {1, 2}, namespace: {"_lifecycle", "basic", "other", "hashed"},
   target: Targets, hashTarget: Targets \union {NoHashNamespace}]

MCFiles == BoundedSeq(MCMappings, MaxMappings)
=============================================================================
