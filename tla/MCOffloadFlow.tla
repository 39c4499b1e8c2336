---------------------------- MODULE MCOffloadFlow ----------------------------
(* Two images, one with two layers and one with one, for OffloadFlow,    *)
(* with the command server on the base loop or on an I/O loop thread.    *)
EXTENDS OffloadFlow, ImageMetadata, TLC

CONSTANTS i1, i2, l1, l2, l3

MCImages == {i1, i2}
MCLayers == {l1, l2, l3}
MCLayersOf == (i1 :> {l1, l2}) @@ (i2 :> {l3})
\* Each image's manifest.json and config as the host's metadata_path_
\* holds them: well-formed, with one tar+gzip entry per layer.
MCManifest == [i \in MCImages |-> [present |-> TRUE, json |-> TRUE,
                 layersLen |-> Cardinality(MCLayersOf[i]),
                 mediaTypes |-> {"docker.tar.gzip"}]]
MCConfig == [i \in MCImages |-> [present |-> TRUE, json |-> TRUE,
               rootfs |-> TRUE, diffIds |-> Cardinality(MCLayersOf[i])]]
\* The images whose first loadMetadata returns true.
MCMetadataOk == {i \in MCImages : LoadMetadataReturns(FALSE, MCManifest[i], MCConfig[i])}
\* command_server_thread_num: the default 0, and one I/O loop thread for both connections.
MCThreadNums == {0, 1}

\* metadatas_: loadMetadata stored each image tryOffloadTask registered.
MetadataCached == tasks \cup answered

\* In every state of the host, the next loadMetadata of any image, cached
\* or not, whatever its manifest.json and config hold, frees each parsed
\* manifest and config exactly once unless metadatas_ keeps it, never
\* frees what metadatas_ keeps, and returns true exactly when metadatas_
\* holds both.  This is about the move constructors and destructors of
\* OciManifest and OciConfig (metadata.h) along every return of
\* loadMetadata and from_file.
MetadataOwnedOnce == \A i \in MCImages : OwnershipTable[(i \in MetadataCached)]

====
