---------------------------- MODULE ImageMetadata ----------------------------
(***************************************************************************)
(* OffloadClientEpoll::loadMetadata (host/client/offload_client_epoll.cc)  *)
(* with what it calls: OciManifest::from_file and OciConfig::from_file     *)
(* (metadata.cc), the validation of oci_parse_manifest_schema2 and         *)
(* parse_oci_config (image/image_ops.c), and the ownership of the parsed   *)
(* objects by the move-only wrappers of metadata.h.                        *)
(*                                                                         *)
(* loadMetadata runs in one step of the host loop, so it is a function of  *)
(* its inputs: whether the image is already in metadatas_, and what the    *)
(* two files hold.  A file is abstracted to whether it opens, whether the  *)
(* JSON parser accepts it, and the fields the validation reads.  The       *)
(* pointers' life is replayed as the sequence of constructor, move and     *)
(* destructor calls the C++ code makes on each path (LoadMetadataOps).     *)
(***************************************************************************)
EXTENDS Integers, Sequences, FiniteSets

LOCAL INSTANCE SequencesExt

\* image_ops.h
MAX_LAYER_NUM == 125

\* DOCKER_IMAGE_LAYER_TAR_GZIP, DOCKER_IMAGE_LAYER_FOREIGN_TAR_GZIP,
\* OCI_IMAGE_LAYER_TAR_GZIP, and one media type the parser rejects.
SupportedMediaTypes == {"docker.tar.gzip", "docker.foreign.tar.gzip",
                        "oci.tar+gzip"}
MediaTypes == SupportedMediaTypes \cup {"oci.tar+zstd"}

\* A manifest.json: opens, parses as registry_manifest_schema2, its
\* layers_len and the media types of its layers.
ManifestFiles ==
  [present : {FALSE}, json : {FALSE}, layersLen : {0}, mediaTypes : {{}}]
  \cup [present : {TRUE}, json : {FALSE}, layersLen : {0}, mediaTypes : {{}}]
  \cup [present : {TRUE}, json : {TRUE}, layersLen : {0}, mediaTypes : {{}}]
  \cup [present : {TRUE}, json : {TRUE},
        layersLen : {1, MAX_LAYER_NUM, MAX_LAYER_NUM + 1},
        mediaTypes : {{"docker.tar.gzip"}, {"oci.tar+gzip", "oci.tar+zstd"}}]

\* A config: opens, parses as oci_image_spec, has a rootfs, and the
\* length of rootfs.diff_ids.
ConfigFiles ==
  [present : {FALSE}, json : {FALSE}, rootfs : {FALSE}, diffIds : {0}]
  \cup [present : {TRUE}, json : {FALSE}, rootfs : {FALSE}, diffIds : {0}]
  \cup [present : {TRUE}, json : {TRUE}, rootfs : {FALSE}, diffIds : {0}]
  \cup [present : {TRUE}, json : {TRUE}, rootfs : {TRUE}, diffIds : {0, 1}]

-----------------------------------------------------------------------------
(* Validation                                                              *)

\* oci_parse_manifest_schema2: at most MAX_LAYER_NUM layers, each of a
\* supported tar+gzip media type; else the manifest is freed and NULL
\* returned.
ManifestValid(f) ==
  /\ f.layersLen <= MAX_LAYER_NUM
  /\ f.mediaTypes \subseteq SupportedMediaTypes

\* parse_oci_config: rootfs present with at least one diff_id.
ConfigValid(f) == f.rootfs /\ f.diffIds > 0

\* from_file returns a value: the file opened, parsed and validated.
ManifestLoaded(f) == f.present /\ f.json /\ ManifestValid(f)
ConfigLoaded(f) == f.present /\ f.json /\ ConfigValid(f)

-----------------------------------------------------------------------------
(* Ownership                                                               *)

\* The two parsed objects, and the C++ objects that may hold them: the
\* temporaries built in from_file, the optionals of loadMetadata, the
\* by-value parameters of ImageMetadata's constructor, the ImageMetadata
\* temporary's members, and the members of the node emplaced in metadatas_.
Ptrs == {"m", "c"}
Nullptr == "null"
Holders == {"mTmp", "mOpt", "mParam", "metaM", "nodeM",
            "cTmp", "cOpt", "cParam", "metaC", "nodeC"}
MapHolders == {"nodeM", "nodeC"}

Op(kind, a, b) == [kind |-> kind, a |-> a, b |-> b]

OwnInit == [own |-> [h \in Holders |-> Nullptr],
            freed |-> [p \in Ptrs |-> 0], alloc |-> {}]

\* The parser returns a new object; a failed validation frees it itself.
Alloc(s, p) == [s EXCEPT !.alloc = @ \cup {p}]
FreeRaw(s, p) == [s EXCEPT !.freed[p] = @ + 1]

\* OciManifest(registry_manifest_schema2 *): takes the pointer.
OciManifestWrap(s, h, p) == [s EXCEPT !.own[h] = p]

\* Mutant: the move constructor copies manifest_ and leaves rhs holding it.
OciManifestMoveKeep(s, d, r) == [s EXCEPT !.own[d] = s.own[r]]

\* OciManifest(OciManifest &&rhs): take rhs.manifest_, null it.
OciManifestMove(s, d, r) == [s EXCEPT !.own[d] = s.own[r], !.own[r] = Nullptr]

\* ~OciManifest: free_registry_manifest_schema2 unless nullptr.
OciManifestDestroy(s, h) ==
  IF s.own[h] = Nullptr THEN s
  ELSE [s EXCEPT !.freed[s.own[h]] = @ + 1, !.own[h] = Nullptr]

OciConfigWrap(s, h, p) == [s EXCEPT !.own[h] = p]

OciConfigMove(s, d, r) == [s EXCEPT !.own[d] = s.own[r], !.own[r] = Nullptr]

OciConfigDestroy(s, h) ==
  IF s.own[h] = Nullptr THEN s
  ELSE [s EXCEPT !.freed[s.own[h]] = @ + 1, !.own[h] = Nullptr]

Apply(s, o) ==
  CASE o.kind = "alloc"    -> Alloc(s, o.a)
    [] o.kind = "free"     -> FreeRaw(s, o.a)
    [] o.kind = "wrapM"    -> OciManifestWrap(s, o.a, o.b)
    [] o.kind = "moveM"    -> OciManifestMove(s, o.a, o.b)
    [] o.kind = "destroyM" -> OciManifestDestroy(s, o.a)
    [] o.kind = "wrapC"    -> OciConfigWrap(s, o.a, o.b)
    [] o.kind = "moveC"    -> OciConfigMove(s, o.a, o.b)
    [] o.kind = "destroyC" -> OciConfigDestroy(s, o.a)

-----------------------------------------------------------------------------
(* The calls                                                               *)

\* OciManifest::from_file: nothing when the file does not open or does
\* not parse; the parser's own free when validation fails; else
\* `return OciManifest{manifest}` moves a temporary into the optional.
ManifestFromFileOps(f) ==
  IF ~(f.present /\ f.json) THEN <<>>
  ELSE IF ~ManifestValid(f) THEN <<Op("alloc", "m", ""), Op("free", "m", "")>>
  ELSE <<Op("alloc", "m", ""), Op("wrapM", "mTmp", "m"),
         Op("moveM", "mOpt", "mTmp"), Op("destroyM", "mTmp", "")>>

ConfigFromFileOps(f) ==
  IF ~(f.present /\ f.json) THEN <<>>
  ELSE IF ~ConfigValid(f) THEN <<Op("alloc", "c", ""), Op("free", "c", "")>>
  ELSE <<Op("alloc", "c", ""), Op("wrapC", "cTmp", "c"),
         Op("moveC", "cOpt", "cTmp"), Op("destroyC", "cTmp", "")>>

\* metadatas_.emplace(image, ImageMetadata{image, std::move(*config),
\* std::move(*manifest)}): the by-value parameters are move-constructed
\* and moved into the members; emplace move-constructs the node's value;
\* at the end of the statement the temporary (members in reverse order)
\* and the parameters are destroyed.
EmplaceOps ==
  << Op("moveC", "cParam", "cOpt"), Op("moveM", "mParam", "mOpt"),
     Op("moveC", "metaC", "cParam"), Op("moveM", "metaM", "mParam"),
     Op("moveC", "nodeC", "metaC"), Op("moveM", "nodeM", "metaM"),
     Op("destroyM", "metaM", ""), Op("destroyC", "metaC", ""),
     Op("destroyM", "mParam", ""), Op("destroyC", "cParam", "") >>

\* loadMetadata: return true if cached; each early return destroys the
\* optionals built so far (config before manifest).
LoadMetadataOps(cached, mf, cf) ==
  IF cached THEN <<>>
  ELSE ManifestFromFileOps(mf) \o
       IF ~ManifestLoaded(mf) THEN << Op("destroyM", "mOpt", "") >>
       ELSE ConfigFromFileOps(cf) \o
            (IF ConfigLoaded(cf) THEN EmplaceOps ELSE <<>>) \o
            << Op("destroyC", "cOpt", ""), Op("destroyM", "mOpt", "") >>

LoadMetadataReturns(cached, mf, cf) ==
  cached \/ (ManifestLoaded(mf) /\ ConfigLoaded(cf))

\* The objects after a call, starting from none held.
LoadMetadataOwnership(cached, mf, cf) ==
  FoldLeft(Apply, OwnInit, LoadMetadataOps(cached, mf, cf))

-----------------------------------------------------------------------------
(* Properties                                                              *)

\* Whether every call of loadMetadata, cached or not as given, on any
\* contents of the two files, frees each object the parsers returned once,
\* except those metadatas_ then holds, which it never frees; and returns
\* true exactly when metadatas_ holds both the manifest and the config (or
\* the image was already there).
OwnedOnce(cached) ==
  \A mf \in ManifestFiles, cf \in ConfigFiles :
    LET s == LoadMetadataOwnership(cached, mf, cf)
        held == {s.own[h] : h \in MapHolders} \ {Nullptr}
    IN  /\ \A p \in s.alloc : s.freed[p] = IF p \in held THEN 0 ELSE 1
        /\ \A h \in Holders \ MapHolders : s.own[h] = Nullptr
        /\ LoadMetadataReturns(cached, mf, cf) <=> (cached \/ held = Ptrs)

\* OwnedOnce for both values of cached, computed once.
OwnershipTable == [cached \in BOOLEAN |-> OwnedOnce(cached)]

=============================================================================
