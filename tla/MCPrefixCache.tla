--------------------------- MODULE MCPrefixCache ----------------------------
(* PrefixCache on small instances: three requests over a pool of a null    *)
(* block and two others, so that every request that does not share a       *)
(* prefix has to evict somebody else's blocks.                             *)
EXTENDS PrefixCache, TLC

CONSTANTS r1, r2, r3, ta, tb, tx

\* Two requests with the same two-block prompt, and a third with another one.
SharedPrompts == (r1 :> <<ta, tb>>) @@ (r2 :> <<tx>>) @@ (r3 :> <<ta, tb>>)

\* Three requests that share their first block: while one is stored, another one
\* can drop the block that the store has found.
NestedPrompts == (r1 :> <<ta, tb>>) @@ (r2 :> <<ta>>) @@ (r3 :> <<ta, tb>>)

=============================================================================
