---------------------------- MODULE MCContentRpc ----------------------------
(* Model-checking instance of ContentRpc: two layers of two segments over  *)
(* connections of two buffer pairs, so the client has more requests than   *)
(* slots and both pools wrap around.                                        *)
(*                                                                         *)
(* The segments the ContentServer serves are the files image_compress      *)
(* wrote into the registry: the input folder holds layer 1 (3 bytes), a    *)
(* directory and layer 2 (4 bytes), split with segment_size 2, so one      *)
(* layer ends in a short segment and the other is an exact multiple.       *)
EXTENDS ContentRpc, ImageCompress

MCLayers == {1, 2}
MCNoMsg == <<0, 0>>

MCFolder == <<File(3), Dir, File(4)>>
MCSegSize == 2
LayerEntry == [l \in MCLayers |-> IF l = 1 THEN 1 ELSE 3]

\* The registry as image_compress leaves it when nothing fails.
Registry == RunTool(MCFolder, MCSegSize, {}).reg

\* Every layer the DPU fetches is in the registry image_compress built:
\* its total_segment.txt holds the total_segments the ContentServer
\* announces, and its segment files decompress, in index order, to the
\* layer's bytes (the tool's constructor and completion chain skip the
\* directory, read up to segment_size bytes per job and publish the count
\* only at the end of the file).
FetchedLayersPublished ==
  \A l \in fetched :
    /\ Registry[LayerEntry[l]] =
         ExpectedLayer(MCFolder[LayerEntry[l]].size, MCSegSize)
    /\ Registry[LayerEntry[l]].total = Segments
=============================================================================
