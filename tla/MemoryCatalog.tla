---------------------------- MODULE MemoryCatalog ---------------------------
(***************************************************************************)
(* The directory of memory regions (csrc/dmem/MemoryCatalog.cpp) as a      *)
(* value: a partial function from keys <<node, region>> to entries.  A     *)
(* node keeps its own regions under node 0, whatever its id, and copies of *)
(* its peers' directories under theirs.                                    *)
(***************************************************************************)
EXTENDS Integers, Functions, TLC

EmptyCatalog == [key \in {} |-> {}]

catalog_key(node, region) == <<node, region>>

Upsert(cat, region, entry) == (catalog_key(0, region) :> entry) @@ cat

Without(cat, keys) == Restrict(cat, DOMAIN cat \ keys)

RemoveRegion(cat, region) == Without(cat, {catalog_key(0, region)})

\* The mask of remove_node keeps the bits of the region, so the only key it
\* can find equal to that of region 0 is the key of region 0 itself.
RemoveNode(cat, node) == Without(cat, {catalog_key(node, 0)})

\* What lookup points to: one entry, or nothing.
Lookup(cat, node, region) ==
  LET key == catalog_key(node, region)
  IN  {cat[k] : k \in DOMAIN cat \cap {key}}
=============================================================================
