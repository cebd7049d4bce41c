--------------------------- MODULE MCMemoryIndex ---------------------------
(***************************************************************************)
(* One memory of turns, one of the promoter, two concurrent writes, two    *)
(* embeddings.                                                             *)
(***************************************************************************)
EXTENDS MemoryIndex, TLC

CONSTANTS said, learned, w1, w2

MCTurnMemories == {said}

MCPromotedMemories == {learned}

MCWriters == {w1, w2}

MCModels == {"fake-v1", "fake-v2"}

MCSymmetry == Permutations(MCWriters)
=============================================================================
