------------------------- MODULE MCDecompressEngine -------------------------
(* The DPU decompress thread from its start: runDecompressClient creates   *)
(* the compress engine and hands it to DecompressClientEpoll; only then    *)
(* is the promise fulfilled, so only then does the offload server (and    *)
(* with it OffloadServerEpoll's connect) run, and decompressStart enables  *)
(* the engine's channel before the loop runs.                              *)
EXTENDS MCDecompressPipeline, DocaEngine

\* Every checked call of CompressEngine::create and DocaCore::create may
\* fail.
MCEngineFailCalls == {SetupCalls[i].name : i \in DOMAIN SetupCalls}

\* The engine's set-up runs first; the pipeline's steps begin once the
\* engine is started.  A failed or crashed set-up ends the process
\* (main's f.get() throws on the broken promise).
DpuNext ==
  \/ EngineNext /\ UNCHANGED vars
  \/ EngineStarted /\ Next /\ UNCHANGED engineVars

DpuSpec == Init /\ EngineInit /\ [][DpuNext]_<<vars, engineVars>>
=============================================================================
