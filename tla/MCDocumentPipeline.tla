------------------------ MODULE MCDocumentPipeline -------------------------
EXTENDS DocumentPipeline, TLC

\* Handlers are interchangeable: no definition tells one future from another.
HandlerSymmetry == Permutations(Handlers)
=============================================================================
