----------------------------- MODULE FileService -----------------------------
(***************************************************************************)
(* The files of one server: internal/api/filesystem.go (the streaming gRPC *)
(* handlers), internal/filesystem/manager.go and sftp.go.                  *)
(*                                                                         *)
(* An upload is two goroutines joined by an io.Pipe: the handler, which     *)
(* receives chunks and writes them into the pipe, and manager.Write, which  *)
(* copies the pipe into a temporary file of the target's directory and      *)
(* renames it.  Each step of either is an action.  Delete, Rename and       *)
(* CreateDir are one action each.  The contents of a file are sequences of  *)
(* chunks, a chunk being the call that sent it, its number and how many     *)
(* are in all, or Scribble for whatever SFTP made of the file.              *)
(*                                                                         *)
(* The tree holds directories and regular files; ResolvePath is what it     *)
(* does on such a tree.  Nothing keeps clients from naming the temporary    *)
(* files, which List shows.                                                 *)
(***************************************************************************)
EXTENDS Naturals, Sequences, FiniteSets

CONSTANTS Calls,      \* streaming calls the API serves at a time
          Names,      \* names in the root of the server
          Leaves,     \* names in its directories
          Targets,    \* bound: paths that uploads and copies write
          Downloads,  \* bound, for each call: paths it may download
          Copies,     \* bound, for each call: pairs of paths it may copy
          Named,      \* bound: paths that commands and SFTP writers name
          Renames,    \* bound: pairs of paths that renames name
          Temps,      \* names os.CreateTemp may make up
          Inodes,     \* bound: inodes of the file system
          MaxChunks,  \* bound: chunks of an upload
          Sizes,      \* bound, for each call: how many chunks its client may send
          MaxUpload,  \* max_upload_bytes, in chunks; 0 is no limit
          MaxCommands,\* bound: commands, SFTP writes, failing removals and crashes beside the
                      \* streaming calls
          Faults,     \* "io": a system call of Write may fail; "crash": the daemon may die
          Outside,    \* a path ResolvePath rejects by its form
          None        \* no value

Scribble == <<None, 0, 0>>

\* Bound: the tree is two levels deep.
Paths == {<<a>> : a \in Names} \cup {<<a, b>> : a \in Names, b \in Leaves}
TempPaths == {<<t>> : t \in Temps} \cup {<<a, t>> : a \in Names, t \in Temps}
AllPaths == Paths \cup TempPaths

Chunks == (Calls \X (1..MaxChunks) \X (1..MaxChunks)) \cup {Scribble}
Contents == UNION {[1..n -> Chunks] : n \in 0..MaxChunks}

ASSUME FilesAssumption ==
    /\ MaxChunks \in Nat \ {0} /\ MaxUpload \in Nat /\ MaxCommands \in Nat
    /\ Sizes \in [Calls -> SUBSET (0..MaxChunks)]
    /\ Targets \subseteq AllPaths \cup {Outside} /\ Named \subseteq AllPaths
    /\ Renames \subseteq AllPaths \X AllPaths
    /\ Downloads \in [Calls -> SUBSET (AllPaths \cup {Outside})]
    /\ Copies \in [Calls -> SUBSET (AllPaths \X Targets)]
    /\ IsFiniteSet(Names) /\ IsFiniteSet(Leaves) /\ IsFiniteSet(Temps) /\ IsFiniteSet(Calls)
    /\ (Names \cup Leaves) \cap Temps = {}
    /\ Faults \subseteq {"io", "crash"}
    /\ {"none", "dir"} \cap Inodes = {}
    /\ None \notin Inodes \cup AllPaths

VARIABLES
    tree,  \* by path: "none", "dir" or the inode of a file
    data,  \* contents of the inodes
    raw,   \* history: inodes written in place over SFTP or renamed by a client that named
           \* the temporary file, and copies of such
    call,  \* the handler of each streaming call
    wr,    \* the manager.Write it has started, if any
    lost,  \* history: temporary names whose file no Write is going to rename or remove, or
           \* that a client has put a file at
    done   \* commands, SFTP writes, failing removals and crashes so far

fileVars == <<tree, data, raw, call, wr, lost, done>>

IdleCall == [op |-> "none", path |-> None, n |-> 0, sent |-> 0, pc |-> "idle", pipe |-> "empty",
             gone |-> FALSE, src |-> None, part |-> FALSE, got |-> <<>>]
NoWrite == [pc |-> "none", tmp |-> None, ino |-> None, res |-> "none", put |-> 0]

-----------------------------------------------------------------------------
(* The file system.                                                          *)

Parent(p) == SubSeq(p, 1, Len(p) - 1)
Name(p) == p[Len(p)]
Under(d) == {p \in AllPaths : Len(p) > Len(d) /\ SubSeq(p, 1, Len(d)) = d}
DirExists(d) == d # <<>> => tree[d] = "dir"

\* ResolvePath: the path stays inside the root, and Lstat of its components
\* meets no file where a directory has to be.
ResolvePath(p) == p # Outside /\ (Len(p) > 1 => tree[Parent(p)] \in {"none", "dir"})

\* os.MkdirAll on a resolved directory.
MkdirAll(t, d) == IF d = <<>> THEN t ELSE [t EXCEPT ![d] = "dir"]

\* Inodes a path or an open file keeps alive.
Held == ({tree[p] : p \in AllPaths} \cup {call[c].src : c \in Calls}
           \cup {wr[c].ino : c \in Calls}) \cap Inodes

\* The contents after the step; what nothing holds any more is freed.
Settle(d, r) ==
    \E live \in {Held'} :
        /\ data' = [i \in Inodes |-> IF i \in live THEN d[i] ELSE <<>>]
        /\ raw' = r \cap live

Fresh == CHOOSE i \in Inodes : i \notin Held

\* What an open file is written; contents that SFTP changed stay unknown.
Put(i, x) == [data EXCEPT ![i] = IF @ = <<Scribble>> THEN @ ELSE Append(@, x)]

\* os.Rename: a file does not replace a directory, a directory replaces nothing and
\* never goes into itself.  What lies below moves along, temporary files of uploads
\* included.
Moved(q, a, b) == b \o SubSeq(q, Len(a) + 1, Len(q))
Below(t, a) == {q \in Under(a) : t[q] # "none"}

CanMove(t, a, b) ==
    /\ t[a] # "none" /\ a # b /\ b \notin Under(a)
    /\ IF t[a] = "dir" THEN t[b] = "none" ELSE t[b] # "dir"

Move(t, a, b) ==
    [q \in AllPaths |->
       IF q = b THEN t[a]
       ELSE IF \E r \in Below(t, a) : Moved(r, a, b) = q
              THEN t[CHOOSE r \in Below(t, a) : Moved(r, a, b) = q]
       ELSE IF q = a \/ q \in Under(a) THEN "none" ELSE t[q]]

-----------------------------------------------------------------------------
(* FilesystemService.Upload.                                                 *)

Free(c) == call[c].pc = "idle" /\ wr[c].pc \in {"none", "done"}

\* The handler returns; gRPC cancels the context of the stream.
Return(c) ==
    call' = [call EXCEPT ![c] = IF wr[c].pc \in {"none", "done"} THEN IdleCall
                                ELSE [IdleCall EXCEPT !.op = "upload", !.path = call[c].path]]

\* A client opens the stream to send n chunks to p: n is how many it has sent when it
\* ends the stream, by Last or by closing it.  A client that closes it early, without
\* Last, has sent all there is as far as the service can tell.
UploadBegin(c, p, n) ==
    /\ Free(c)
    /\ call' = [call EXCEPT ![c] = [IdleCall EXCEPT !.op = "upload", !.path = p, !.n = n, !.pc = "recv"]]
    /\ wr' = [wr EXCEPT ![c] = NoWrite]
    /\ UNCHANGED <<tree, lost, data, raw>>

OverLimit(n) == MaxUpload > 0 /\ n > MaxUpload

\* MUTANT: the limit is checked before the chunk is counted.
UploadRecvUncounted(c) ==
    /\ call[c].pc = "recv" /\ call[c].op = "upload" /\ ~call[c].gone /\ call[c].sent < call[c].n
    /\ wr' = IF call[c].sent = 0 THEN [wr EXCEPT ![c].pc = "start"] ELSE wr
    /\ IF OverLimit(call[c].sent)
         THEN call' = [call EXCEPT ![c] = [IdleCall EXCEPT !.op = "upload", !.path = call[c].path,
                                                           !.pipe = "broken"]]
         ELSE call' = [call EXCEPT ![c].pc = "write", ![c].pipe = "full", ![c].sent = @ + 1]
    /\ UNCHANGED <<tree, lost, data, raw>>

\* Recv of a chunk: the first one starts Write; one too many closes the pipe's
\* reading end and fails the call; else the handler offers the chunk.
UploadRecv(c) ==
    /\ call[c].pc = "recv" /\ call[c].op = "upload" /\ ~call[c].gone /\ call[c].sent < call[c].n
    /\ wr' = IF call[c].sent = 0 THEN [wr EXCEPT ![c].pc = "start"] ELSE wr
    /\ IF OverLimit(call[c].sent + 1)
         THEN call' = [call EXCEPT ![c] = [IdleCall EXCEPT !.op = "upload", !.path = call[c].path,
                                                           !.pipe = "broken"]]
         ELSE call' = [call EXCEPT ![c].pc = "write", ![c].pipe = "full", ![c].sent = @ + 1]
    /\ UNCHANGED <<tree, lost, data, raw>>

\* MUTANT: the handler waits for Write without closing the pipe.
UploadLastNoClose(c) ==
    /\ call[c].pc = "recv" /\ call[c].op = "upload" /\ ~call[c].gone /\ call[c].sent = call[c].n
    /\ IF call[c].n = 0 THEN Return(c)
         ELSE call' = [call EXCEPT ![c].pc = "wait"]
    /\ UNCHANGED <<tree, wr, lost, data, raw>>

\* After the last chunk, or at EOF: the pipe is closed and the handler waits for Write.
\* A stream without a chunk is refused.
UploadLast(c) ==
    /\ call[c].pc = "recv" /\ call[c].op = "upload" /\ ~call[c].gone /\ call[c].sent = call[c].n
    /\ IF call[c].n = 0 THEN Return(c)
         ELSE call' = [call EXCEPT ![c].pc = "wait", ![c].pipe = "closed"]
    /\ UNCHANGED <<tree, wr, lost, data, raw>>

\* Recv fails: the handler returns, and nobody touches the pipe again.  A Write that
\* has come to read it stays there, and its temporary file with it.
UploadCut(c) ==
    /\ call[c].pc = "recv" /\ call[c].op = "upload" /\ call[c].gone
    /\ Return(c)
    /\ lost' = IF wr[c].pc = "copy" THEN lost \cup {wr[c].tmp} ELSE lost
    /\ UNCHANGED <<tree, wr, data, raw>>

\* Nobody will write into the pipe that Write reads, nor close it.
Deserted(c) == wr[c].pc = "copy" /\ call[c].pc = "idle" /\ call[c].pipe = "empty"

\* Write has returned: Upload and Copy answer with what it said.
Answer(c) ==
    /\ call[c].pc = "wait" /\ wr[c].pc = "done"
    /\ Return(c)
    /\ wr' = [wr EXCEPT ![c] = NoWrite]
    /\ UNCHANGED <<tree, lost>>
    /\ Settle(data, raw)

\* The client goes away or its deadline passes: the context is cancelled, which
\* matters where the handler or Write looks at it.
ClientGone(c) ==
    /\ call[c].pc \in {"recv", "read", "last"} \/ (call[c].pc # "idle" /\ wr[c].pc = "start")
    /\ ~call[c].gone
    /\ call' = [call EXCEPT ![c].gone = TRUE]
    /\ UNCHANGED <<tree, wr, lost, data, raw>>

-----------------------------------------------------------------------------
(* manager.Write, for an upload on a goroutine of its own, for a copy in the *)
(* handler.                                                                  *)

\* Write returns; nothing is left of the call if its handler has returned before.
WriteReturns(c, w) ==
    IF call[c].pc = "idle"
      THEN wr' = [wr EXCEPT ![c] = NoWrite] /\ call' = [call EXCEPT ![c] = IdleCall]
      ELSE wr' = [wr EXCEPT ![c] = [w EXCEPT !.pc = "done"]] /\ UNCHANGED call

\* Write fails before it has made a temporary file.
WriteRefused(c) == WriteReturns(c, [NoWrite EXCEPT !.res = "err"]) /\ UNCHANGED tree

\* The file is closed and Write is about to return an error.
WriteFails(c) == wr' = [wr EXCEPT ![c].pc = "remove", ![c].ino = None, ![c].res = "err"] /\ UNCHANGED tree

\* The checks at its head, and the directories of the target.
WriteStart(c) ==
    /\ wr[c].pc = "start"
    /\ \/ /\ (call[c].gone \/ call[c].pc = "idle") \/ ~ResolvePath(call[c].path) \/ "io" \in Faults
          /\ WriteRefused(c)
       \/ /\ ~call[c].gone /\ call[c].pc # "idle" /\ ResolvePath(call[c].path)
          /\ tree' = MkdirAll(tree, Parent(call[c].path))
          /\ wr' = [wr EXCEPT ![c].pc = "temp"]
          /\ UNCHANGED call
    /\ UNCHANGED <<lost, data, raw>>

\* The names os.CreateTemp makes up are random: none that is in use anywhere.
NewNames == {n \in Temps : /\ \A q \in AllPaths : Name(q) = n => tree[q] = "none"
                           /\ \A d \in Calls : /\ wr[d].tmp # None => Name(wr[d].tmp) # n
                                               /\ call[d].path \in AllPaths => Name(call[d].path) # n}

\* A file can be made in the directory: it is there, and an inode and a name are free.
Room(d) == DirExists(d) /\ Held # Inodes /\ NewNames # {}

\* os.CreateTemp; the directory may be gone again.  One name is as good as another.
WriteTemp(c) ==
    /\ wr[c].pc = "temp"
    /\ LET d == Parent(call[c].path) IN
       \/ (~Room(d) \/ "io" \in Faults) /\ WriteRefused(c) /\ UNCHANGED lost
       \/ /\ Room(d)
          /\ LET t == Append(d, CHOOSE n \in NewNames : TRUE) IN
               /\ tree' = [tree EXCEPT ![t] = Fresh]
               /\ wr' = [wr EXCEPT ![c].pc = "copy", ![c].tmp = t, ![c].ino = Fresh]
               /\ lost' = IF call[c].pc = "idle" /\ call[c].pipe = "empty" THEN lost \cup {t} ELSE lost \ {t}
               /\ UNCHANGED call
    /\ Settle(data, raw)

\* io.Copy takes a chunk from the pipe, which lets the handler go on, and writes
\* it; a pipe that is closed at the other end is the end of the file.  It takes at most
\* 32 KB at a time: a write that fails may leave the handler with the rest of its chunk.
CopyFromPipe(c) ==
    /\ wr[c].pc = "copy" /\ call[c].op = "upload"
    /\ \/ /\ call[c].pipe = "full"
          /\ call' = [call EXCEPT ![c].pipe = "empty", ![c].pc = "recv"]
          /\ UNCHANGED <<tree, wr>>
          /\ Settle(Put(wr[c].ino, <<c, call[c].sent, call[c].n>>), raw)
       \/ /\ call[c].pipe = "full" /\ "io" \in Faults /\ WriteFails(c)
          /\ call' = [call EXCEPT ![c].pipe = "empty", ![c].pc = "recv"] \/ UNCHANGED call
          /\ Settle(data, raw)
       \/ /\ call[c].pipe = "closed" /\ wr' = [wr EXCEPT ![c].pc = "rename"]
          /\ UNCHANGED <<tree, call>> /\ Settle(data, raw)
       \/ call[c].pipe = "broken" /\ WriteFails(c) /\ UNCHANGED call /\ Settle(data, raw)
    /\ UNCHANGED lost

\* io.Copy from the file a copy has opened; reading a directory fails.
CopyFromFile(c) ==
    /\ wr[c].pc = "copy" /\ call[c].op = "copy"
    /\ LET at == call[c].sent + 1 IN
       \/ /\ call[c].src \in Inodes /\ at <= Len(data[call[c].src])
          /\ call' = [call EXCEPT ![c].sent = at]
          /\ UNCHANGED <<tree, wr>>
          /\ Settle(Put(wr[c].ino, data[call[c].src][at]), raw)
       \/ /\ call[c].src \in Inodes /\ at > Len(data[call[c].src])
          /\ wr' = [wr EXCEPT ![c].pc = "rename"] /\ UNCHANGED <<tree, call>>
          /\ Settle(data, IF call[c].part \/ call[c].src \in raw THEN raw \cup {wr[c].ino} ELSE raw)
       \/ /\ (call[c].src \notin Inodes \/ "io" \in Faults) /\ WriteFails(c)
          /\ UNCHANGED call /\ Settle(data, raw)
    /\ UNCHANGED lost

\* What is at the temporary name is renamed to the target; a client may have put
\* something else there.
Renamed(c) ==
    /\ CanMove(tree, wr[c].tmp, call[c].path)
    /\ tree' = Move(tree, wr[c].tmp, call[c].path)
    /\ lost' = lost \cup ({call[c].path} \cap TempPaths)
    /\ wr' = [wr EXCEPT ![c].pc = "remove", ![c].ino = None, ![c].res = "ok",
                        ![c].put = IF tree[wr[c].tmp] = wr[c].ino THEN Len(data[wr[c].ino]) ELSE 0]

\* MUTANT: the rename comes before the last of the data.
WriteRenameFirst(c) ==
    /\ wr[c].pc \in {"copy", "rename"} /\ Renamed(c)
    /\ UNCHANGED call
    /\ Settle(data, raw)

\* MUTANT: the error path of the rename keeps the temporary file.
WriteRenameKeeps(c) ==
    /\ wr[c].pc = "rename"
    /\ \/ Renamed(c) /\ UNCHANGED call
       \/ /\ ~CanMove(tree, wr[c].tmp, call[c].path) /\ UNCHANGED <<tree, lost>>
          /\ WriteReturns(c, [wr[c] EXCEPT !.ino = None, !.res = "err"])
    /\ Settle(data, raw)

\* Chmod, Sync, Close and Rename: it fails when the target is a directory by now, or
\* nothing is at the temporary name any more.
WriteRename(c) ==
    /\ wr[c].pc = "rename"
    /\ \/ Renamed(c)
       \/ /\ ~CanMove(tree, wr[c].tmp, call[c].path) \/ "io" \in Faults
          /\ WriteFails(c) /\ UNCHANGED lost
    /\ UNCHANGED call
    /\ Settle(data, raw)

\* The deferred os.Remove takes away whatever is at the temporary name, and Write
\* returns.
WriteRemove(c) ==
    /\ wr[c].pc = "remove"
    /\ tree' = [tree EXCEPT ![wr[c].tmp] = "none"]
    /\ WriteReturns(c, wr[c])
    /\ UNCHANGED lost
    /\ Settle(data, raw)

\* An error of os.Remove is dropped.
RemoveFails(c) ==
    /\ wr[c].pc = "remove" /\ "io" \in Faults
    /\ lost' = lost \cup {wr[c].tmp}
    /\ WriteReturns(c, wr[c])
    /\ UNCHANGED <<tree, data, raw>>

-----------------------------------------------------------------------------
(* Copy and Download open a file and read on from there.                     *)

\* manager.Read: what is opened, or nothing.
Open(p) == IF ResolvePath(p) THEN tree[p] ELSE "none"

CopyBegin(c, p, q) ==
    /\ Free(c)
    /\ IF Open(p) = "none"
         THEN call' = [call EXCEPT ![c] = IdleCall] /\ wr' = [wr EXCEPT ![c] = NoWrite]
         ELSE /\ call' = [call EXCEPT ![c] = [IdleCall EXCEPT !.op = "copy", !.path = q,
                                                              !.pc = "wait", !.src = Open(p),
                                                              !.part = p \in TempPaths]]
              /\ wr' = [wr EXCEPT ![c] = [NoWrite EXCEPT !.pc = "start"]]
    /\ UNCHANGED <<tree, lost, data, raw>>

DownloadBegin(c, p) ==
    /\ Free(c)
    /\ call' = [call EXCEPT ![c] = IF Open(p) = "none"
                  THEN IdleCall
                  ELSE [IdleCall EXCEPT !.op = "download", !.path = p, !.pc = "read", !.src = Open(p),
                                        !.part = p \in TempPaths]]
    /\ wr' = [wr EXCEPT ![c] = NoWrite]
    /\ UNCHANGED <<tree, lost, data, raw>>

\* MUTANT: each chunk is read from whatever is at the path by now.
DownloadReopens(c) ==
    /\ call[c].pc = "read"
    /\ LET now == IF tree[call[c].path] \in Inodes THEN tree[call[c].path] ELSE call[c].src
           at == Len(call[c].got) + 1 IN
       \/ /\ now \in Inodes /\ ~call[c].gone /\ at <= Len(data[now])
          /\ call' = [call EXCEPT ![c].got = Append(@, data[now][at])]
       \/ /\ now \in Inodes /\ at > Len(data[now])
          /\ call' = [call EXCEPT ![c].pc = "last"]
       \/ (now \notin Inodes \/ call[c].gone) /\ Return(c)
    /\ UNCHANGED <<tree, wr, lost>>
    /\ Settle(data, raw)

\* The next chunk of the open file is read and sent.  A directory, or a disk that
\* fails, cannot be read, and a client that is gone cannot be sent to; one that does
\* not read holds the handler in Send.
DownloadRead(c) ==
    /\ call[c].pc = "read"
    /\ LET at == Len(call[c].got) + 1 IN
       \/ /\ call[c].src \in Inodes /\ ~call[c].gone /\ at <= Len(data[call[c].src])
          /\ call' = [call EXCEPT ![c].got = Append(@, data[call[c].src][at])]
       \/ /\ call[c].src \in Inodes /\ at > Len(data[call[c].src])
          /\ call' = [call EXCEPT ![c].pc = "last"]
       \/ (call[c].src \notin Inodes \/ call[c].gone \/ "io" \in Faults) /\ Return(c)
    /\ UNCHANGED <<tree, wr, lost>>
    /\ Settle(data, raw)

\* The final message says that this was all.
DownloadLast(c) ==
    /\ call[c].pc = "last"
    /\ Return(c)
    /\ UNCHANGED <<tree, wr, lost>>
    /\ Settle(data, raw)

-----------------------------------------------------------------------------
(* Delete, Rename and CreateDir.                                             *)

\* Only SFTP's Rmdir asks for a recursive deletion; else a directory has to be
\* empty.
Delete(p, recursive) ==
    /\ ResolvePath(p) /\ tree[p] # "none"
    /\ recursive \/ \A q \in Under(p) : tree[q] = "none"
    /\ tree' = [q \in AllPaths |-> IF q = p \/ q \in Under(p) THEN "none" ELSE tree[q]]
    /\ UNCHANGED <<call, wr, lost>>
    /\ Settle(data, raw)

\* The directories of the new path are made first, and stay when the renaming fails.
\* A client that renames a temporary file has what there is of it.
Rename(a, b) ==
    /\ ResolvePath(a) /\ ResolvePath(b)
    /\ UNCHANGED <<call, wr>>
    /\ LET made == MkdirAll(tree, Parent(b)) IN
       /\ \A q \in Below(made, a) : Moved(q, a, b) \in AllPaths
       /\ \/ /\ CanMove(made, a, b)
             /\ tree' = Move(made, a, b)
             /\ lost' = lost \cup (({b} \cup {Moved(q, a, b) : q \in Below(made, a)}) \cap TempPaths)
             /\ Settle(data, raw \cup (IF a \in TempPaths THEN {tree[a]} \cap Inodes ELSE {}))
          \/ /\ ~CanMove(made, a, b) /\ made # tree
             /\ tree' = made
             /\ UNCHANGED <<lost, data, raw>>

CreateDir(p) ==
    /\ ResolvePath(p) /\ tree[p] = "none"
    /\ tree' = MkdirAll(MkdirAll(tree, Parent(p)), p)
    /\ lost' = lost \cup ({p} \cap TempPaths)
    /\ UNCHANGED <<call, wr, data, raw>>

-----------------------------------------------------------------------------
(* SFTP: the file is opened where it is, without truncation, and written in  *)
(* place for as long as the client likes.                                    *)

Filewrite(p) ==
    /\ ResolvePath(p) /\ tree[p] # "dir"
    /\ tree[p] = "none" => Held # Inodes
    /\ LET i == IF tree[p] = "none" THEN Fresh ELSE tree[p] IN
       /\ tree' = [MkdirAll(tree, Parent(p)) EXCEPT ![p] = i]
       /\ lost' = lost \cup ({p} \cap TempPaths)
       /\ UNCHANGED <<call, wr>>
       /\ Settle([data EXCEPT ![i] = <<Scribble>>], raw \cup {i})

\* sftpCommander.Filecmd.
Filecmd ==
    \/ \E p \in Named : CreateDir(p)
    \/ \E p \in Named : Delete(p, FALSE) \/ Delete(p, TRUE)
    \/ \E pq \in Renames : Rename(pq[1], pq[2])

\* The daemon dies: the files stay, and nobody knows of the temporary ones.
DaemonDies ==
    /\ "crash" \in Faults
    /\ call' = [c \in Calls |-> IdleCall] /\ wr' = [c \in Calls |-> NoWrite]
    /\ lost' = {p \in TempPaths : tree[p] # "none"}
    /\ UNCHANGED tree
    /\ Settle(data, raw)

FilesInit ==
    /\ tree = [p \in AllPaths |-> "none"]
    /\ data = [i \in Inodes |-> <<>>] /\ raw = {}
    /\ call = [c \in Calls |-> IdleCall] /\ wr = [c \in Calls |-> NoWrite]
    /\ lost = {} /\ done = 0

HandlerStep(c) ==
    \/ UploadRecv(c) \/ UploadLast(c) \/ UploadCut(c) \/ Answer(c)
    \/ DownloadRead(c) \/ DownloadLast(c)
WriteStep(c) ==
    \/ WriteStart(c) \/ WriteTemp(c) \/ CopyFromPipe(c) \/ CopyFromFile(c)
    \/ WriteRename(c) \/ WriteRemove(c)

CallStep(c) ==
    /\ UNCHANGED done
    /\ \/ \E p \in Targets, n \in Sizes[c] : UploadBegin(c, p, n)
       \/ \E pq \in Copies[c] : CopyBegin(c, pq[1], pq[2])
       \/ \E p \in Downloads[c] : DownloadBegin(c, p)
       \/ HandlerStep(c) \/ WriteStep(c) \/ ClientGone(c)

Disturb ==
    /\ done < MaxCommands /\ done' = done + 1
    /\ \/ Filecmd \/ (\E p \in Named : Filewrite(p))
       \/ (\E c \in Calls : RemoveFails(c)) \/ DaemonDies

FilesNext == (\E c \in Calls : CallStep(c)) \/ Disturb

\* Goroutines run and system calls return; a call has at most one of these steps
\* to take.  Of clients nothing is assumed: Recv waits for one that is connected and
\* does not send, Send for one that does not read; both fail once it is gone.
Progress(c) ==
    /\ UNCHANGED done
    /\ \/ WriteStep(c) \/ Answer(c) \/ UploadCut(c)
       \/ call[c].gone /\ (DownloadRead(c) \/ DownloadLast(c))
FilesFairness == \A c \in Calls : WF_fileVars(Progress(c))
FilesSpec == FilesInit /\ [][FilesNext]_fileVars /\ FilesFairness

-----------------------------------------------------------------------------
(* Properties.                                                               *)

\* Type invariant of the tree and of the calls.
FilesTypeOK ==
    /\ tree \in [AllPaths -> Inodes \cup {"none", "dir"}]
    /\ data \in [Inodes -> Contents] /\ raw \subseteq Inodes
    /\ \A c \in Calls : /\ call[c].pc \in {"idle", "recv", "write", "wait", "read", "last"}
                        /\ call[c].pipe \in {"empty", "full", "closed", "broken"}
                        /\ call[c].pc = "write" => call[c].pipe = "full"
                        /\ call[c].op = "upload" => ~OverLimit(call[c].sent)
                        /\ wr[c].pc \in {"none", "start", "temp", "copy", "rename", "remove", "done"}
    /\ lost \subseteq TempPaths /\ done \in 0..MaxCommands

\* All of one upload that kept to the limit, in order: what its client had sent when it
\* ended the stream.
Whole(s) == \E c \in Calls, n \in 1..MaxChunks :
              ~OverLimit(n) /\ s = [j \in 1..n |-> <<c, j, n>>]

\* docs/filesystem.md:21, "written to a temporary file and renamed after the
\* stream succeeded": whatever fails, overlaps or dies, a file holds one whole upload
\* within the limit, never a part or a mixture, unless SFTP has been at it or a client
\* has renamed or copied the temporary file.
PublishedWhole == \A p \in Paths : tree[p] \in Inodes \ raw => Whole(data[tree[p]])

\* The handler of the call returns in this step.
Returns(c) == call[c].pc # "idle" /\ call'[c].pc = "idle" /\ done' = done

\* Answers are true.  A download that ends with the final message has delivered one
\* whole upload, although the file may have been replaced, renamed or deleted meanwhile,
\* unless the client named a temporary file or the file is one of those PublishedWhole
\* says nothing about; Upload answers once Write has returned, and if that was without
\* an error its own temporary file with all of the chunks has been renamed to the
\* target, unless a client had put something else at the temporary name.
AnswersTrue ==
    [][\A c \in Calls : Returns(c) =>
         /\ call[c].pc = "last" /\ ~call[c].part /\ call[c].src \notin raw
              => Whole(call[c].got)
         /\ call[c].op = "upload" /\ call[c].pc = "wait"
              => /\ wr[c].pc = "done"
                 /\ wr[c].res = "ok" /\ wr[c].tmp \notin lost => wr[c].put = call[c].n]_fileVars

\* What List finds in a directory, temporary files included; nothing where there is none.
List(d) == {p \in AllPaths : Parent(p) = d /\ DirExists(d) /\ tree[p] # "none"}

\* A temporary file that List shows belongs to a Write that is still going to rename
\* or remove it.  It stays behind for good in four cases only: a crash or the renaming
\* of its directory separates the two, the client goes in the middle of the upload, or
\* os.Remove fails; apart from what clients put under such a name themselves.
TempsOwned ==
    \A d \in {<<>>} \cup Paths : \A p \in (List(d) \cap TempPaths) \ lost :
        \E c \in Calls : wr[c].tmp = p /\ wr[c].pc \in {"copy", "rename", "remove"} /\ ~Deserted(c)

\* Every call comes, again and again, to its end or to a point where a client that is
\* connected has to send or to read: its handler out of the pipe, its Write returned.
\* There are two ways to leave something behind for ever: a handler blocked on a chunk
\* that a Write that had failed never reads, and a Write deserted by its client.
CallsEnd ==
    \A c \in Calls :
        []<>(\/ call[c].pc \in {"recv", "read", "last"} /\ ~call[c].gone
             \/ call[c].pc = "idle" /\ (wr[c].pc \in {"none", "done"} \/ Deserted(c))
             \/ call[c].pc = "write" /\ wr[c].pc = "done")

=============================================================================
