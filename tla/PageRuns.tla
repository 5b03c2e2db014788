------------------------------ MODULE PageRuns ------------------------------
(***************************************************************************)
(* The search for a run of pages (FindFreePages), and the layers that turn *)
(* sizes and addresses into runs of pages (HeapAllocator): a behaviour is  *)
(* one of one of the two.                                                  *)
(***************************************************************************)
EXTENDS FindFreePages

CONSTANTS PAGE_SIZE, Layouts, Regions, FirstPages, MaxLive     \* of HeapAllocator

VARIABLES part, owned, blocks, mappings, panicked

heap_vars == <<owned, blocks, mappings, panicked>>

Heap == INSTANCE HeapAllocator

ASSUME HeapAssumption == Heap!HeapConstants

-----------------------------------------------------------------------------
(* What does not run stays in one of its initial states. *)
OneSearch == CHOOSE s \in Memories \X Starts \X NumPages : TRUE

RunsInit ==
  /\ part \in {"search", "heap"}
  /\ Init /\ (part # "search" => <<mem, start_page, num_pages>> = OneSearch)
  /\ Heap!Init

RunsNext ==
  \/ part = "search" /\ Next /\ UNCHANGED <<part, heap_vars>>
  \/ part = "heap" /\ Heap!Next /\ UNCHANGED <<part, vars>>

(* The loop is sequential code: it runs. *)
RunsSpec ==
  RunsInit /\ [][RunsNext]_<<part, vars, heap_vars>> /\ WF_vars(part = "search" /\ Next)

-----------------------------------------------------------------------------
(* The search ends: it meets a run or the last page of the address space. *)
SearchEnds == <>(part = "search" => returned)

(* Every block and every mapping will give back an allocation that is held, *)
(* and no two the same, with the pages that were returned for it.           *)
GivesBackOwned == Heap!GivesBackOwned

(* The bytes of a block lie in the pages allocated for it, and belong to no *)
(* other block and to no mapping.                                           *)
BlocksBacked == Heap!BlocksBacked

(* Byte k of a mapped table is byte k of the physical table, up to its last *)
(* byte.                                                                    *)
MappingsExact == Heap!MappingsExact
=============================================================================
