------------------------------ MODULE MCFbBlob ------------------------------
(* FbBlob for TLC: the blobs that other programs wrote. *)
EXTENDS FbBlob

\* Empty, with an empty segment between others, with a segment that does not
\* fit in the buffer, with several that do.
ForeignSegments == {<<>>, <<0>>, <<1, 0, 2>>, <<7, 1>>, <<1, 1, 1>>, <<3, 3, 0>>}
=============================================================================
