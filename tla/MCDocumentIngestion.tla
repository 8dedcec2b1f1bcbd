------------------------ MODULE MCDocumentIngestion ------------------------
(***************************************************************************)
(* DocumentIngestion on small instances: workers are interchangeable, and  *)
(* a document has at most MaxContents stored contents.                     *)
(***************************************************************************)
EXTENDS DocumentIngestion, TLC

CONSTANTS d1, w1, w2, nodoc

WorkerSymmetry == Permutations(Workers)

MaxContents == 2

FewContents == \A d \in Documents : Len(contents[d]) <= MaxContents
=============================================================================
