---------------------------- MODULE ImageCompress ----------------------------
(* The offline tool src/tool/image_compress.cc, which builds the registry  *)
(* the ContentServer serves.  It walks the input folder, splits every     *)
(* regular file into segments of segment_size bytes, compresses each one   *)
(* with the DOCA engine (one job at a time on bufpair 0) and writes        *)
(* <layer>/<idx>.tar.gz, then <layer>/total_segment.txt.                   *)
(*                                                                         *)
(* The tool is one thread: the constructor starts the first job and each   *)
(* completion callback writes its segment and starts the next, so a run    *)
(* is a function of the folder listing, the segment size and which I/O or  *)
(* DOCA calls fail.  It is modelled by RECURSIVE operators over that       *)
(* input; every early return leaves the loop idle for ever.                *)
EXTENDS Naturals, Sequences, FiniteSets

\* An input folder entry: a directory (skipped) or a regular file of n
\* bytes, whose bytes are written 1 .. n.
Dir == [kind |-> "dir"]
File(n) == [kind |-> "file", size |-> n]

\* A compressed segment file: the engine's deflate of the bytes read.
Deflate(bytes) == [deflated |-> bytes]

\* The environment's failures, as events that fail when they are in F:
\* <<"open", p>> the input ifstream of entry p is not open;
\* <<"set_data", p, k>> set_data_by_offset for segment k fails;
\* <<"task", p, k>> segment k's job ends in onTaskError;
\* <<"write", p, k>> create_directory or opening <k>.tar.gz fails;
\* <<"total", p>> opening total_segment.txt fails.
Events(n) ==
  ({"open", "total"} \X (1 .. n))
  \cup ({"set_data", "task", "write"} \X (1 .. n) \X (0 .. 3))

\* No total_segment.txt yet: the tool writes idx_, which is at least 1.
NoTotal == 0

Regular(L, p) == L[p].kind = "file"

\* The directory_iterator loops: the first regular entry at p or after.
RECURSIVE NextRegular(_, _)
NextRegular(L, p) ==
  IF p > Len(L) \/ Regular(L, p) THEN p ELSE NextRegular(L, p + 1)

\* std::min(input_size_ - head_, segment_size_).
ReadSize(st, seg) == IF st.size - st.head < seg THEN st.size - st.head ELSE seg

\* An early return: nothing more happens, loop() runs for ever.
Stop(st) == [st EXCEPT !.status = "idle"]

\* Read the next segment of the open file into bufpair 0, set its data
\* length and start_job; head_ and idx_ advance.
ReadNext(st, seg, F) ==
  LET n == ReadSize(st, seg) IN
  IF <<"set_data", st.pos, st.idx>> \in F THEN Stop(st)
  ELSE [st EXCEPT !.job = [i \in 1 .. n |-> st.head + i],
                  !.head = st.head + n, !.idx = st.idx + 1,
                  !.status = "running"]

\* Open the file at p (unless there is none) and start its first job.
OpenFile(st, L, seg, F, p) ==
  IF p > Len(L) THEN Stop([st EXCEPT !.pos = p])
  ELSE IF <<"open", p>> \in F THEN Stop([st EXCEPT !.pos = p])
  ELSE ReadNext([st EXCEPT !.pos = p, !.size = L[p].size, !.head = 0, !.idx = 0],
                seg, F)

\* The constructor: skip to the first regular file, open it, start a job.
Construct(L, seg, F) ==
  OpenFile([pos |-> 1, size |-> 0, head |-> 0, idx |-> 0, job |-> <<>>,
            status |-> "idle",
            reg |-> [p \in 1 .. Len(L) |-> [segs |-> <<>>,
                                             total |-> NoTotal]]],
           L, seg, F, NextRegular(L, 1))

\* Write <idx - 1>.tar.gz of the layer at pos.
WriteSegment(st) ==
  [st EXCEPT !.reg[st.pos].segs =
               [k \in DOMAIN @ \cup {st.idx - 1} |->
                  IF k = st.idx - 1 THEN Deflate(st.job) ELSE @[k]]]

\* Write total_segment.txt of the layer at pos.
WriteTotal(st) == [st EXCEPT !.reg[st.pos].total = st.idx]

\* Mutant: the end of the file is taken as head_ > input_size_.
FileDoneStrict(st) == st.head > st.size

\* head_ >= input_size_: the open file has been read to its end.
FileDone(st) == st.head >= st.size

\* onTaskSuccess (or onTaskError, which only logs): write the segment;
\* at the end of the file write total_segment.txt and open the next
\* regular file; then start the next job.
OnTaskComplete(st, L, seg, F) ==
  LET k == st.idx - 1 IN
  IF <<"task", st.pos, k>> \in F \/ <<"write", st.pos, k>> \in F
    THEN Stop(st)
  ELSE LET w == WriteSegment(st) IN
       IF ~FileDone(w) THEN ReadNext(w, seg, F)
       ELSE IF <<"total", st.pos>> \in F THEN Stop(w)
       ELSE OpenFile(WriteTotal(w), L, seg, F, NextRegular(L, st.pos + 1))

\* The event loop runs completions while a job is in flight.  fuel bounds
\* the number of jobs: a run that still has one in flight after it is
\* reported as "diverged".
RECURSIVE RunJobs(_, _, _, _, _)
RunJobs(st, L, seg, F, fuel) ==
  IF st.status = "idle" THEN st
  ELSE IF fuel = 0 THEN [st EXCEPT !.status = "diverged"]
  ELSE RunJobs(OnTaskComplete(st, L, seg, F), L, seg, F, fuel - 1)

Fuel(L) == 2 * Len(L) + 8

\* The registry image_compress leaves for listing L.
RunTool(L, seg, F) == RunJobs(Construct(L, seg, F), L, seg, F, Fuel(L))

-----------------------------------------------------------------------------
(* Reference: what the registry must hold for a layer of n bytes.  The     *)
(* DPU's fetcher always asks for segment 0 and the host untars up to index *)
(* total_segments - 1, so an empty layer is one empty segment.             *)

SegmentCount(n, seg) == IF n = 0 THEN 1 ELSE (n + seg - 1) \div seg

LastByte(k, n, seg) == IF (k + 1) * seg < n THEN (k + 1) * seg ELSE n

ExpectedLayer(n, seg) ==
  [segs |-> [k \in 0 .. SegmentCount(n, seg) - 1 |->
               Deflate([i \in 1 .. LastByte(k, n, seg) - k * seg |->
                          k * seg + i])],
   total |-> SegmentCount(n, seg)]

=============================================================================
