---------------------------- MODULE UploadStream ----------------------------
(***************************************************************************)
(* The streamed upload: napcat-onebot/action/stream/UploadFileStream.ts.   *)
(*                                                                         *)
(* A life is one StreamState object: the streams one stream id has had     *)
(* after each other are different lives, which share the directory         *)
(* upload_<id>.  A request runs without a pause up to its first file       *)
(* operation; the disk is what interleaves.  A chunk file is truncated     *)
(* when it is opened and whole when its write has ended.                   *)
(*                                                                         *)
(* A request that creates a stream and goes on is createStream followed at *)
(* once by the rest; a request with nothing but total_chunks is            *)
(* createStream alone, so both orders are requests of their own.           *)
(*                                                                         *)
(* The final files lie in one directory: streams of one file name write,   *)
(* and remove, the same file.  Only the removal of a saved file when its   *)
(* retention time is over, and by clean_stream_temp_file, is left out.     *)
(***************************************************************************)
EXTENDS Integers, Sequences, FiniteSets, FiniteSetsExt

CONSTANTS
    Lives,
    id,            \* life -> its stream id
    filename,      \* life -> its file name
    fileSize,      \* life -> the size its client announced, which may be negative;
                   \* one over MEMORY_THRESHOLD also stands for none announced
    expectsSha256, \* life -> whether expected_sha256 was given
    totalChunks,   \* life -> the number of its chunks
    MEMORY_THRESHOLD,
    MEMORY_LIMIT,
    Workloads,     \* bound: the sets of lives one behaviour may ask for
    Calls,         \* bound: the requests that can wait for the disk at once
    Partial,       \* the content of a file some write has not finished
    None

Ids == {id[l] : l \in Lives}
ChunksOf(l) == 0 .. totalChunks[l] - 1
Chunks == UNION {ChunksOf(l) : l \in Lives}
FileNames == {filename[l] : l \in Lives}

\* shouldUseMemory
useMemory == [l \in Lives |-> fileSize[l] <= MEMORY_THRESHOLD]

ASSUME TotalChunksAssumption == totalChunks \in [Lives -> Nat \ {0}]
ASSUME SizesAssumption ==
    /\ MEMORY_LIMIT \in Nat /\ MEMORY_THRESHOLD \in Nat
    /\ fileSize \in [Lives -> Int]
ASSUME KindsAssumption == expectsSha256 \in [Lives -> BOOLEAN]
ASSUME WorkloadsAssumption == Workloads \subseteq SUBSET Lives
ASSUME UploadNoneAssumption == {None, Partial} \cap Lives = {} /\ None # Partial

VARIABLES
    streams,        \* stream id -> its life, or None
    memoryUsage,
    missingChunks,  \* life -> chunks not yet received
    receivedChunks, \* life -> chunks counted
    memoryChunks,   \* life -> chunks held in memory
    timers,         \* lives whose timeout is running
    tempDirs,       \* stream ids whose directory exists
    chunkFiles,     \* stream id -> chunk -> life that wrote it, Partial or None
    calls,          \* the suspended half of each request
    finalFiles,     \* file name -> life it is the whole file of, Partial or None
    handles,        \* the final file that a request has open
    \* History.
    created,        \* lives a request has tried to create, or that are never asked for
    late,           \* lives that counted a chunk after their removal
    disturbed,      \* lives whose files another write may have touched
    kept,           \* lives reported complete whose file nothing has hit since it was opened
    skews           \* what may have put memoryUsage out of step

vars == <<streams, memoryUsage, missingChunks, receivedChunks, memoryChunks,
          timers, tempDirs, chunkFiles, calls, finalFiles, handles,
          created, late, disturbed, kept, skews>>

table == <<streams, memoryUsage, skews>>
fields == <<missingChunks, receivedChunks, memoryChunks>>
disk == <<tempDirs, chunkFiles>>
finals == <<finalFiles, handles, kept>>

Contents == Lives \union {Partial}

\* at: the chunk file is to be opened, is open, or is open but unlinked.
ChunkCalls ==
    [op : {"chunk"}, life : Lives, chunk : Chunks, at : {"open", "write", "unlinked"}]
MergeCalls ==
    [op : {"merge"}, life : Lives, got : Seq(Contents)]
SaveCalls ==
    [op : {"save"}, life : Lives, content : Seq(Contents)]

\* closed: not open yet.  mixed: another request has had it open meanwhile.
\* unlinked: open, but removed from its directory.
Handles == {"closed", "open", "mixed", "unlinked"}

Idle == [op |-> "idle"]

Live(l) == streams[id[l]] = l

\* The requests that are writing a chunk file of this stream id.
Writing(i) == {c \in Calls : calls[c].op = "chunk" /\ id[calls[c].life] = i}
Merging(l) == \E c \in Calls : calls[c].op = "merge" /\ calls[c].life = l

Init ==
    /\ streams = [i \in Ids |-> None]
    /\ memoryUsage = 0
    /\ missingChunks = [l \in Lives |-> ChunksOf(l)]
    /\ receivedChunks = [l \in Lives |-> 0]
    /\ memoryChunks = [l \in Lives |-> {}]
    /\ timers = {}
    /\ tempDirs = {}
    /\ chunkFiles = [i \in Ids |-> [k \in Chunks |-> None]]
    /\ calls = [c \in Calls |-> Idle]
    /\ created \in {Lives \ w : w \in Workloads}
    /\ late = {}
    /\ disturbed = {}
    /\ finalFiles = [f \in FileNames |-> None]
    /\ handles = [c \in Calls |-> "closed"]
    /\ kept = {}
    /\ skews = {}

-----------------------------------------------------------------------------
(* cleanupStream(i): `cs` and `ts` are the calls and timers the caller      *)
(* leaves.  Removing the directory or the final file may fail, which is     *)
(* only logged.                                                             *)

\* A chunk file open in a removed directory is written to no avail.
Unlinked(cs, i) ==
    [c \in Calls |->
        IF cs[c].op = "chunk" /\ cs[c].at = "write" /\ id[cs[c].life] = i
        THEN [cs[c] EXCEPT !.at = "unlinked"]
        ELSE cs[c]]

RemoveDirectory(i, cs) ==
    /\ tempDirs' = tempDirs \ {i}
    /\ chunkFiles' = [chunkFiles EXCEPT ![i] = [k \in Chunks |-> None]]
    /\ calls' = Unlinked(cs, i)

KeepDirectory(cs) ==
    /\ calls' = cs
    /\ UNCHANGED disk

\* clearTimeout of the stream's timer.
Cleared(l, ts) == ts \ {l}

\* Mutant: a disk stream gives back memory it never took.
GiveBackAlways(l) ==
    memoryUsage' = Max({0, memoryUsage - fileSize[l]}) /\ UNCHANGED skews

\* A size of 0 counts as none.
GiveBack(l) ==
    IF useMemory[l] /\ fileSize[l] # 0
    THEN /\ memoryUsage' = Max({0, memoryUsage - fileSize[l]})
         /\ skews' = IF memoryUsage < fileSize[l] THEN skews \union {"clamped"} ELSE skews
    ELSE UNCHANGED <<memoryUsage, skews>>

cleanupStream(i, cs, ts) ==
    LET l == streams[i]
    IN  IF l = None
        THEN /\ timers' = ts
             /\ KeepDirectory(cs)
             /\ UNCHANGED <<table, memoryChunks>>
        ELSE /\ streams' = [streams EXCEPT ![i] = None]
             /\ timers' = Cleared(l, ts)
             /\ GiveBack(l)
             /\ memoryChunks' = [memoryChunks EXCEPT ![l] = {}]
             /\ \/ ~useMemory[l] /\ RemoveDirectory(i, cs)
                \/ KeepDirectory(cs)

\* The requests that write the final file f.
Writers(f) == {c \in Calls : handles[c] \in {"open", "mixed"} /\ filename[calls[c].life] = f}

Hit(f) == kept' = {l \in kept : filename[l] # f}

Unlink(f) ==
    /\ finalFiles' = [finalFiles EXCEPT ![f] = None]
    /\ handles' = [c \in Calls |-> IF c \in Writers(f) THEN "unlinked" ELSE handles[c]]
    /\ Hit(f)

\* The end of cleanupStream: memory streams have no finalPath.
deleteFinalFile(i) ==
    LET l == streams[i]
    IN  \/ l # None /\ ~useMemory[l] /\ finalFiles[filename[l]] # None /\ Unlink(filename[l])
        \/ UNCHANGED finals

Reset(i) ==
    /\ streams[i] # None
    /\ cleanupStream(i, calls, timers)
    /\ deleteFinalFile(i)
    /\ UNCHANGED <<missingChunks, receivedChunks, created, late, disturbed>>

\* Mutant: the timeout spares a stream that has received something.
TimeoutSparesBusy(l) ==
    /\ l \in timers
    /\ IF receivedChunks[l] > 0
       THEN /\ timers' = timers \ {l}
            /\ UNCHANGED <<table, memoryChunks, disk, calls, finals>>
       ELSE cleanupStream(id[l], calls, timers \ {l}) /\ deleteFinalFile(id[l])
    /\ UNCHANGED <<missingChunks, receivedChunks, created, late, disturbed>>

\* The callback of setupTimeout knows the stream id, not the stream.
Timeout(l) ==
    /\ l \in timers
    /\ cleanupStream(id[l], calls, timers \ {l})
    /\ deleteFinalFile(id[l])
    /\ UNCHANGED <<missingChunks, receivedChunks, created, late, disturbed>>

-----------------------------------------------------------------------------
(* Creation. *)

OverLimit(l) ==
    /\ useMemory[l]
    /\ fileSize[l] # 0
    /\ memoryUsage + fileSize[l] > MEMORY_LIMIT

createStream(l) ==
    /\ l \notin created
    /\ streams[id[l]] = None
    /\ ~OverLimit(l)
    /\ created' = created \union {l}
    /\ streams' = [streams EXCEPT ![id[l]] = l]
    /\ timers' = timers \union {l}
    /\ IF useMemory[l]
       THEN /\ memoryUsage' = memoryUsage + fileSize[l]
            /\ skews' = IF fileSize[l] < 0 THEN skews \union {"negative"} ELSE skews
            /\ UNCHANGED tempDirs
       ELSE /\ tempDirs' = tempDirs \union {id[l]}
            /\ UNCHANGED <<memoryUsage, skews>>
    \* A directory whose removal failed is found again with what is in it.
    /\ disturbed' = IF ~useMemory[l] /\ id[l] \in tempDirs THEN disturbed \union {l}
                    ELSE disturbed
    /\ UNCHANGED <<fields, chunkFiles, calls, late, finals>>

\* Mutant: a creation that throws leaves its timer running.
createStreamFailsArmed(l) ==
    /\ l \notin created
    /\ streams[id[l]] = None
    /\ OverLimit(l) \/ ~useMemory[l]
    /\ created' = created \union {l}
    /\ timers' = timers \union {l}
    /\ UNCHANGED <<table, fields, disk, calls, late, disturbed, finals>>

\* The limit is exceeded, or the directory cannot be made: the timer is
\* cleared again and the request throws.
createStreamFails(l) ==
    /\ l \notin created
    /\ streams[id[l]] = None
    /\ OverLimit(l) \/ ~useMemory[l]
    /\ created' = created \union {l}
    /\ UNCHANGED <<table, fields, timers, disk, calls, late, disturbed, finals>>

-----------------------------------------------------------------------------
(* processChunk. *)

\* The lines after the chunk is stored: the stream may be gone by then, and
\* refreshTimeout starts a timer all the same.
Received(l, k) ==
    /\ missingChunks' = [missingChunks EXCEPT ![l] = @ \ {k}]
    /\ receivedChunks' = [receivedChunks EXCEPT ![l] = @ + 1]
    /\ timers' = timers \union {l}
    /\ late' = IF Live(l) THEN late ELSE late \union {l}

MemoryChunk(l, k) ==
    /\ Live(l)
    /\ useMemory[l]
    /\ k \in missingChunks[l]
    /\ memoryChunks' = [memoryChunks EXCEPT ![l] = @ \union {k}]
    /\ Received(l, k)
    /\ UNCHANGED <<table, disk, calls, created, disturbed, finals>>

\* A disk chunk passes the duplicate check and starts its writeFile.
StartChunk(c, l, k) ==
    /\ calls[c] = Idle
    /\ Live(l)
    /\ ~useMemory[l]
    /\ k \in missingChunks[l]
    /\ calls' = [calls EXCEPT ![c] = [op |-> "chunk", life |-> l, chunk |-> k, at |-> "open"]]
    /\ UNCHANGED <<table, fields, timers, disk, created, late, disturbed, finals>>

\* The lives a write in directory i reaches: one being merged, and the live one
\* unless it is the writer.
Touched(i, writer) ==
    {l \in Lives : id[l] = i /\ (Merging(l) \/ (Live(l) /\ l \notin writer))}

\* The file is opened in whatever directory has that name now.
OpenChunk(c) ==
    LET call == calls[c]
        i == id[call.life]
    IN  /\ call.op = "chunk"
        /\ call.at = "open"
        /\ i \in tempDirs
        /\ chunkFiles' = [chunkFiles EXCEPT ![i][call.chunk] = Partial]
        /\ calls' = [calls EXCEPT ![c].at = "write"]
        /\ disturbed' = disturbed \union Touched(i, {call.life})
        /\ UNCHANGED <<table, fields, timers, tempDirs, created, late, finals>>

\* A file two requests write at once stays Partial until the last has ended.
Written(c) ==
    LET call == calls[c]
    IN  IF \E d \in Writing(id[call.life]) \ {c} :
               calls[d].chunk = call.chunk /\ calls[d].at = "write"
        THEN Partial
        ELSE call.life

WriteChunk(c) ==
    LET call == calls[c]
    IN  /\ call.op = "chunk"
        /\ call.at \in {"write", "unlinked"}
        /\ chunkFiles' = IF call.at = "write"
                         THEN [chunkFiles EXCEPT ![id[call.life]][call.chunk] = Written(c)]
                         ELSE chunkFiles
        /\ Received(call.life, call.chunk)
        /\ calls' = [calls EXCEPT ![c] = Idle]
        /\ UNCHANGED <<table, memoryChunks, tempDirs, created, disturbed, finals>>

\* The directory is gone, or the write fails: the file is left as it is.
ChunkFails(c) ==
    LET call == calls[c]
    IN  /\ call.op = "chunk"
        /\ calls' = [calls EXCEPT ![c] = Idle]
        /\ disturbed' = IF call.at = "write"
                        THEN disturbed \union Touched(id[call.life], {})
                        ELSE disturbed
        /\ UNCHANGED <<table, fields, timers, disk, created, late, finals>>

-----------------------------------------------------------------------------
(* completeStream. *)

Own(l) == [n \in 1 .. totalChunks[l] |-> l]

\* validateSha256, then the writeFile of the final file is started.
Save(c, l, content) ==
    IF expectsSha256[l] /\ content # Own(l)
    THEN calls' = [calls EXCEPT ![c] = Idle]
    ELSE calls' = [calls EXCEPT ![c] = [op |-> "save", life |-> l, content |-> content]]

Asked(c, l, isComplete) ==
    /\ calls[c] = Idle
    /\ Live(l)
    /\ isComplete \/ receivedChunks[l] = totalChunks[l]

\* mergeMemoryChunks: throws when a chunk is missing.
CompleteMemory(c, l, isComplete) ==
    /\ Asked(c, l, isComplete)
    /\ useMemory[l]
    /\ memoryChunks[l] = ChunksOf(l)
    /\ Save(c, l, Own(l))
    /\ UNCHANGED <<table, fields, timers, disk, created, late, disturbed, finals>>

\* mergeDiskChunks: the first existsSync is part of the request.
CompleteDisk(c, l, isComplete) ==
    /\ Asked(c, l, isComplete)
    /\ ~useMemory[l]
    /\ chunkFiles[id[l]][0] # None
    /\ calls' = [calls EXCEPT ![c] = [op |-> "merge", life |-> l, got |-> <<>>]]
    /\ disturbed' = IF Writing(id[l]) # {} THEN disturbed \union {l} ELSE disturbed
    /\ UNCHANGED <<table, fields, timers, disk, created, late, finals>>

\* One readFile ends; the next chunk must exist.
MergeChunk(c) ==
    LET call == calls[c]
        files == chunkFiles[id[call.life]]
        n == Len(call.got)
        got == Append(call.got, files[n])
    IN  /\ call.op = "merge"
        /\ files[n] # None
        /\ IF n + 1 = totalChunks[call.life]
           THEN Save(c, call.life, got)
           ELSE calls' = [calls EXCEPT ![c] = IF files[n + 1] # None
                                              THEN [@ EXCEPT !.got = got]
                                              ELSE Idle]
        /\ UNCHANGED <<table, fields, timers, disk, created, late, disturbed, finals>>

\* writeFile opens the final file, which empties it.
OpenFinal(c) ==
    LET f == filename[calls[c].life]
        others == Writers(f)
    IN  /\ calls[c].op = "save"
        /\ handles[c] = "closed"
        /\ finalFiles' = [finalFiles EXCEPT ![f] = Partial]
        /\ handles' = [d \in Calls |->
               IF d \in others THEN "mixed"
               ELSE IF d = c THEN IF others = {} THEN "open" ELSE "mixed"
               ELSE handles[d]]
        /\ Hit(f)
        /\ UNCHANGED <<table, fields, timers, disk, calls, created, late, disturbed>>

\* A read or the write of the final file fails: the stream stays as it is.
CompleteFails(c) ==
    /\ calls[c].op \in {"merge", "save"}
    /\ calls' = [calls EXCEPT ![c] = Idle]
    /\ handles' = [handles EXCEPT ![c] = "closed"]
    /\ UNCHANGED <<table, fields, timers, disk, created, late, disturbed, finalFiles, kept>>

\* What two requests write at once may be anything: Partial.
Final(c) ==
    LET l == calls[c].life
    IN  IF handles[c] = "open" /\ calls[c].content = Own(l) THEN l ELSE Partial

\* Mutant: cleanupStream is called without its second argument.
SavedDeletes(c) ==
    LET l == calls[c].life
    IN  /\ calls[c].op = "save"
        /\ handles[c] # "closed"
        /\ cleanupStream(id[l], [calls EXCEPT ![c] = Idle], timers)
        /\ handles' = [handles EXCEPT ![c] = "closed"]
        /\ finalFiles' = [finalFiles EXCEPT ![filename[l]] = None]
        /\ kept' = kept \union {l}
        /\ UNCHANGED <<missingChunks, receivedChunks, created, late, disturbed>>

\* The final file is written: whatever stream has the id now is removed, but
\* the file is kept.
Saved(c) ==
    LET l == calls[c].life
    IN  /\ calls[c].op = "save"
        /\ handles[c] # "closed"
        /\ cleanupStream(id[l], [calls EXCEPT ![c] = Idle], timers)
        /\ handles' = [handles EXCEPT ![c] = "closed"]
        /\ finalFiles' = IF handles[c] = "unlinked" THEN finalFiles
                         ELSE [finalFiles EXCEPT ![filename[l]] = Final(c)]
        /\ kept' = IF handles[c] = "open" THEN kept \union {l} ELSE kept
        /\ UNCHANGED <<missingChunks, receivedChunks, created, late, disturbed>>

Next ==
    \/ \E i \in Ids : Reset(i)
    \/ \E l \in Lives : createStream(l) \/ createStreamFails(l) \/ Timeout(l)
    \/ \E l \in Lives, k \in Chunks :
          \/ MemoryChunk(l, k)
          \/ \E c \in Calls : StartChunk(c, l, k)
    \/ \E c \in Calls :
          \/ OpenChunk(c) \/ WriteChunk(c) \/ ChunkFails(c)
          \/ MergeChunk(c) \/ OpenFinal(c) \/ Saved(c) \/ CompleteFails(c)
          \/ \E l \in Lives, isComplete \in BOOLEAN :
                CompleteMemory(c, l, isComplete) \/ CompleteDisk(c, l, isComplete)

Spec == Init /\ [][Next]_vars

\* Node runs every timer that is not cleared.
FairSpec == Spec /\ \A l \in Lives : WF_vars(Timeout(l))

-----------------------------------------------------------------------------
(* Properties. *)

\* Types.
TypeOK ==
    /\ streams \in [Ids -> Lives \union {None}]
    /\ \A i \in Ids : streams[i] # None => id[streams[i]] = i
    /\ memoryUsage \in Int
    /\ missingChunks \in [Lives -> SUBSET Chunks]
    /\ receivedChunks \in [Lives -> Nat]
    /\ memoryChunks \in [Lives -> SUBSET Chunks]
    /\ timers \subseteq created
    /\ tempDirs \subseteq Ids
    /\ chunkFiles \in [Ids -> [Chunks -> Contents \union {None}]]
    /\ calls \in [Calls -> {Idle} \union ChunkCalls \union MergeCalls \union SaveCalls]
    /\ created \subseteq Lives
    /\ late \subseteq created
    /\ disturbed \subseteq Lives
    /\ finalFiles \in [FileNames -> Contents \union {None}]
    /\ handles \in [Calls -> Handles]
    /\ kept \subseteq Lives
    /\ skews \subseteq {"negative", "clamped"}

\* memoryUsage is what the memory streams in the map announced, whichever of
\* completion, reset and timeout removes each of them and however often, unless
\* the clamp in cleanupStream had to work; and it has to only after a negative
\* size, without which the limit is not exceeded either.  (The schema allows
\* negative sizes; with them both can go wrong.)
MemoryAccounted ==
    /\ "clamped" \notin skews =>
          memoryUsage = MapThenSumSet(LAMBDA l : fileSize[l],
                                      {l \in Lives : Live(l) /\ useMemory[l]})
    /\ "negative" \notin skews =>
          "clamped" \notin skews /\ memoryUsage \in 0 .. MEMORY_LIMIT

\* A stream in the map always has its timeout running, so it cannot leak; and
\* a timeout runs for a removed stream only when a chunk of it was counted
\* after the removal (refreshTimeout does not look).
TimersMatchStreams ==
    \A l \in Lives :
        /\ Live(l) => l \in timers
        /\ l \in timers => Live(l) \/ l \in late

\* A file that was reported complete is there and consists of the whole chunks
\* of its own stream, whatever was counted twice, retried, reset or removed
\* meanwhile, until another save of the file name opens it (a duplicate of this
\* one included) or the reset or timeout of a disk stream of that name removes
\* it, which both can also do while it is being written.  Except for a stream
\* without a checksum whose chunk files were open to another write: a chunk
\* still being written when the file is completed, a failed write, a chunk of a
\* former stream of the same id, a directory that could not be removed.
SavedFilesAreWhole ==
    \A l \in kept :
        finalFiles[filename[l]] # l => l \in disturbed /\ ~expectsSha256[l]

\* Every stream leaves the map, whether it is completed or abandoned.
EveryStreamEnds == \A l \in Lives : Live(l) ~> ~Live(l)
=============================================================================
