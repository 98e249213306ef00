------------------------------- MODULE RK0Mem -------------------------------
(***************************************************************************)
(* A memory partition (core/src/kmem.c) as a record: the list of its free  *)
(* blocks, linked through the blocks themselves, and their count.          *)
(***************************************************************************)
EXTENDS Integers, SequencesExt

(* kMemPartitionInit: every block is free, the first one first. *)
PartitionInit(blocks) ==
    [freeList |-> blocks, nFreeBlocks |-> Len(blocks), nMaxBlocks |-> Len(blocks)]

CanAlloc(part) == part.nFreeBlocks > 0

(* kMemPartitionAlloc: the block it returns, and what it leaves. *)
AllocPtr(part) == part.freeList[1]
AllocRest(part) == [part EXCEPT !.freeList = Tail(@), !.nFreeBlocks = @ - 1]

(* kMemPartitionFree refuses a block that is free already.                 *)
FreeRefused(part, block) ==
    \/ part.nFreeBlocks = part.nMaxBlocks
    \/ Contains(part.freeList, block)

FreeBlock(part, block) == [part EXCEPT !.freeList = <<block>> \o @, !.nFreeBlocks = @ + 1]
=============================================================================
