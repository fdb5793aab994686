-------------------------- MODULE FileServiceProofs --------------------------
(***************************************************************************)
(* Proofs about FileService, for any number of calls, any names, inodes,    *)
(* sizes and limits, and any number of commands.                            *)
(***************************************************************************)
EXTENDS FileService, SequenceTheorems, TLAPS

CallRecords ==
    [op : {"none", "upload", "copy", "download"}, path : AllPaths \cup {Outside, None},
     n : 0..MaxChunks, sent : Nat, pc : {"idle", "recv", "write", "wait", "read", "last"},
     pipe : {"empty", "full", "closed", "broken"}, gone : BOOLEAN,
     src : Inodes \cup {"dir", None}, part : BOOLEAN, got : Seq(Chunks)]

WriteRecords ==
    [pc : {"none", "start", "temp", "copy", "rename", "remove", "done"},
     tmp : TempPaths \cup {None}, ino : Inodes \cup {None}, res : {"none", "ok", "err"}, put : Nat]

FilesTyped ==
    /\ tree \in [AllPaths -> Inodes \cup {"none", "dir"}]
    /\ data \in [Inodes -> Contents] /\ raw \subseteq Inodes
    /\ call \in [Calls -> CallRecords] /\ wr \in [Calls -> WriteRecords]
    /\ lost \subseteq TempPaths /\ done \in 0..MaxCommands

Active == {"start", "temp", "copy", "rename", "remove"}
Filling == {"copy", "rename"}

\* The handler r of a call and its Write w: who is where while the other is where.
Joined(r, w) ==
    /\ r.pc = "idle" => r.src = None
    /\ r.op # "none" => r.path \in AllPaths \cup {Outside}
    /\ r.pc \in {"recv", "write"} => r.op = "upload"
    /\ r.pc = "wait" => r.op \in {"upload", "copy"}
    /\ r.pc \in {"read", "last"} => r.op = "download"
    /\ r.pc = "last" => r.src \in Inodes
    /\ r.op = "upload" => r.src = None /\ r.sent <= r.n /\ ~OverLimit(r.sent)
    /\ r.pc = "recv" => r.pipe = "empty"
    /\ r.pc = "wait" /\ r.op = "upload" => r.pipe = "closed"
    /\ r.pc = "write" <=> r.pipe = "full"
    /\ r.pipe = "closed" => r.sent = r.n /\ r.pc = "wait" /\ r.op = "upload"
    /\ r.pc = "recv" /\ r.sent = 0 => w.pc = "none"
    /\ w.pc \in Active => /\ r.op \in {"upload", "copy"}
                          /\ r.op = "copy" => r.pc = "wait"
                          /\ r.op = "upload" /\ r.pc # "idle" => r.sent >= 1
    /\ w.pc \in {"start", "temp"} /\ r.op = "upload" => r.sent = 1 /\ r.pipe = "full"
    /\ w.pc \in {"start", "temp"} /\ r.op = "copy" => r.sent = 0
    /\ w.pc \in {"temp", "copy", "rename"} => r.path \in AllPaths
    /\ w.pc = "rename" /\ r.op = "upload" => r.pipe = "closed"
    /\ IF w.pc \in Filling THEN w.ino \in Inodes ELSE w.ino = None
    /\ w.pc \in {"copy", "rename", "remove"} => w.tmp \in TempPaths
    /\ w.pc \in {"none", "start", "temp"} => w.tmp = None

\* An inode has one path at most, and is filled by one Write at most; no two Writes
\* have temporary files of the same name.
OnePath == \A p, q \in AllPaths : tree[p] \in Inodes /\ tree[p] = tree[q] => p = q
OneWrite ==
    \A c, d \in Calls : c # d =>
        /\ wr[c].ino \in Inodes => wr[c].ino # wr[d].ino
        /\ wr[c].tmp \in TempPaths /\ wr[d].tmp \in TempPaths => Name(wr[c].tmp) # Name(wr[d].tmp)

\* The file at p is that of the Write of c, which is going to rename or remove it.
Keeps(c, p) ==
    /\ wr[c].tmp = p
    /\ \/ wr[c].pc = "remove"
       \/ /\ wr[c].pc \in Filling /\ wr[c].ino = tree[p] /\ ~Deserted(c)
          /\ call[c].op = "upload" => wr[c].ino \notin raw

Owned == \A p \in TempPaths \ lost : tree[p] # "none" => \E c \in Calls : Keeps(c, p)

\* A whole upload that nobody writes to any more.
Settled(i) == Whole(data[i]) /\ \A c \in Calls : wr[c].ino # i

\* Where a client has not been at the files: at a path that is not temporary a file is
\* settled; at a temporary one, if it is not, no Write but the one that fills it has a
\* temporary file of that name.
Placed ==
    \A p \in AllPaths : tree[p] \in Inodes \ raw =>
        \/ Settled(tree[p])
        \/ /\ p \in TempPaths
           /\ \A c \in Calls : wr[c].pc \in Filling /\ Name(wr[c].tmp) = Name(p) => wr[c].ino = tree[p]

\* The first k chunks of an upload of n by call c.
Sent(c, k, n) == [j \in 1..k |-> <<c, j, n>>]
IsStartOf(s, t) == Len(s) <= Len(t) /\ \A j \in 1..Len(s) : s[j] = t[j]

\* What a call reads, if it is not a part.
Reads(c) == call[c].src \in Inodes \ raw /\ ~call[c].part

\* What a call has written and read so far.
CallData(c) ==
    /\ Reads(c) => Settled(call[c].src)
    /\ wr[c].pc = "copy" /\ call[c].op = "upload" /\ call[c].pc # "idle" =>
         \/ wr[c].ino \in raw /\ data[wr[c].ino] = <<Scribble>>
         \/ data[wr[c].ino] =
              Sent(c, IF call[c].pipe = "full" THEN call[c].sent - 1 ELSE call[c].sent, call[c].n)
    /\ wr[c].pc = "copy" /\ call[c].op = "copy" =>
         \/ wr[c].ino \in raw /\ data[wr[c].ino] = <<Scribble>>
         \/ /\ Len(data[wr[c].ino]) <= call[c].sent
            /\ Reads(c) => Len(data[wr[c].ino]) = call[c].sent /\ IsStartOf(data[wr[c].ino], data[call[c].src])
    /\ wr[c].pc = "rename" /\ wr[c].ino \notin raw => Whole(data[wr[c].ino])
    /\ wr[c].pc = "rename" /\ wr[c].ino \notin raw /\ call[c].op = "upload" =>
         Len(data[wr[c].ino]) = call[c].n
    /\ wr[c].pc \in {"remove", "done"} /\ wr[c].res = "ok" /\ wr[c].tmp \notin lost
         /\ call[c].op = "upload" /\ call[c].pc # "idle" => wr[c].put = call[c].n
    /\ call[c].pc = "read" /\ Reads(c) => IsStartOf(call[c].got, data[call[c].src])
    /\ call[c].pc = "last" /\ Reads(c) => Whole(call[c].got)

\* Inodes nothing holds are empty.
Freed == raw \subseteq Held /\ \A i \in Inodes \ Held : data[i] = <<>>

FilesInv ==
    /\ FilesTyped /\ (\A c \in Calls : Joined(call[c], wr[c]))
    /\ OnePath /\ OneWrite /\ Owned /\ Placed
    /\ Freed /\ (\A c \in Calls : CallData(c))

-----------------------------------------------------------------------------
(* Paths.                                                                    *)

\* A sequence of one or two elements is the tuple of them.
LEMMA TupleOfOne == ASSUME NEW S, NEW s \in Seq(S), Len(s) = 1 PROVE s = <<s[1]>>
<1> DEFINE t == <<s[1]>>
<1>1. s[1] \in S
  OBVIOUS
<1>2. t \in Seq(S) /\ Len(t) = 1 /\ t[1] = s[1]
  BY <1>1
<1> HIDE DEF t
<1>3. \A i \in 1..Len(s) : s[i] = t[i]
  BY <1>2
<1>4. s = t
  BY <1>2, <1>3, SeqEqual
<1>5. QED BY <1>4 DEF t

LEMMA TupleOfTwo == ASSUME NEW S, NEW s \in Seq(S), Len(s) = 2 PROVE s = <<s[1], s[2]>>
<1> DEFINE t == <<s[1], s[2]>>
<1>1. s[1] \in S /\ s[2] \in S
  BY 1 \in 1..Len(s), 2 \in 1..Len(s), ElementOfSeq
<1>2. t \in Seq(S) /\ Len(t) = 2 /\ t[1] = s[1] /\ t[2] = s[2]
  BY <1>1
<1> HIDE DEF t
<1>3. \A i \in 1..Len(s) : s[i] = t[i]
  BY <1>2
<1>4. s = t
  BY <1>2, <1>3, SeqEqual
<1>5. QED BY <1>4 DEF t

\* The parts of a path of two components, and the path made of them.
LEMMA PartsOfTwo ==
    ASSUME NEW a, NEW b
    PROVE  SubSeq(<<a, b>>, 1, 1) = <<a>> /\ SubSeq(<<a, b>>, 2, 2) = <<b>>
<1> DEFINE s == <<a, b>>
<1>1. s \in Seq({a, b})
  OBVIOUS
<1>2. SubSeq(s, 1, 1) \in Seq({a, b}) /\ Len(SubSeq(s, 1, 1)) = 1 /\ SubSeq(s, 1, 1)[1] = a
  BY <1>1
<1>3. SubSeq(s, 2, 2) \in Seq({a, b}) /\ Len(SubSeq(s, 2, 2)) = 1 /\ SubSeq(s, 2, 2)[1] = b
  BY <1>1
<1> HIDE DEF s
<1>4. SubSeq(s, 1, 1) = <<a>>
  BY <1>2, TupleOfOne
<1>5. SubSeq(s, 2, 2) = <<b>>
  BY <1>3, TupleOfOne
<1>6. QED BY <1>4, <1>5 DEF s

LEMMA JoinOfTwo ==
    ASSUME NEW a, NEW b
    PROVE  Append(<<a>>, b) = <<a, b>> /\ Append(<<>>, b) = <<b>> /\ <<a>> \o <<b>> = <<a, b>>
<1> DEFINE s == Append(<<a>>, b)
           t == Append(<<>>, b)
           u == <<a>> \o <<b>>
<1>1. <<a>> \in Seq({a, b}) /\ <<>> \in Seq({b}) /\ <<b>> \in Seq({a, b})
  OBVIOUS
<1>2. s \in Seq({a, b}) /\ Len(s) = 2 /\ s[1] = a /\ s[2] = b
  BY <1>1
<1>3. t \in Seq({b}) /\ Len(t) = 1 /\ t[1] = b
  BY <1>1
<1>4. u \in Seq({a, b}) /\ Len(u) = 2 /\ u[1] = a /\ u[2] = b
  BY <1>1
<1> HIDE DEF s, t, u
<1>5. s = <<a, b>> /\ u = <<a, b>>
  BY <1>2, <1>4, TupleOfTwo
<1>6. t = <<b>>
  BY <1>3, TupleOfOne
<1>7. QED BY <1>5, <1>6 DEF s, t, u

LEMMA ParentOf ==
    ASSUME NEW a, NEW b
    PROVE  Parent(<<a>>) = <<>> /\ Parent(<<a, b>>) = <<a>>
<1>1. Len(<<a>>) - 1 = 0 /\ Len(<<a, b>>) - 1 = 1
  OBVIOUS
<1>2. SubSeq(<<a>>, 1, 0) = <<>>
  <2> DEFINE s == SubSeq(<<a>>, 1, 0)
  <2>1. <<a>> \in Seq({a})
    OBVIOUS
  <2>2. s \in Seq({a}) /\ Len(s) = 0
    BY <2>1
  <2>3. QED BY <2>2, EmptySeq
<1>3. QED BY <1>1, <1>2, PartsOfTwo DEF Parent

\* The paths calls and commands name are not those of temporary files.
LEMMA KindsApart ==
    /\ Paths \cap TempPaths = {}
    /\ \A p \in AllPaths : p \in Paths <=> p \notin TempPaths
  BY FilesAssumption DEF Paths, TempPaths, AllPaths

\* A path has one component or two.
LEMMA PathIs ==
    ASSUME NEW p \in AllPaths
    PROVE  \/ \E a \in Names \cup Temps : p = <<a>> /\ (p \in Paths <=> a \in Names)
           \/ \E a \in Names, b \in Leaves \cup Temps : p = <<a, b>> /\ (p \in Paths <=> b \in Leaves)
<1>1. CASE \E a \in Names \cup Temps : p = <<a>>
  <2>1. PICK a \in Names \cup Temps : p = <<a>>
    BY <1>1
  <2>2. p \in Paths <=> a \in Names
    BY <2>1, FilesAssumption DEF Paths
  <2>3. QED BY <2>1, <2>2
<1>2. CASE \E a \in Names, b \in Leaves \cup Temps : p = <<a, b>>
  <2>1. PICK a \in Names, b \in Leaves \cup Temps : p = <<a, b>>
    BY <1>2
  <2>2. p \in Paths <=> b \in Leaves
    BY <2>1, FilesAssumption DEF Paths
  <2>3. QED BY <2>1, <2>2
<1>3. QED BY <1>1, <1>2 DEF AllPaths, Paths, TempPaths

LEMMA NameOf == \A a, b : Name(<<a>>) = a /\ Name(<<a, b>>) = b
  BY DEF Name

\* The directory of a path is the root or a path; temporary files are made in it.
LEMMA DirOf ==
    ASSUME NEW p \in AllPaths
    PROVE  /\ \/ Parent(p) = <<>> /\ Len(p) = 1
              \/ Parent(p) \in Paths /\ Len(p) = 2 /\ Parent(p) # <<>>
           /\ \A t \in Temps : Append(Parent(p), t) \in TempPaths /\ Name(Append(Parent(p), t)) = t
           /\ Parent(p) # p
<1>1. CASE \E a \in Names \cup Temps : p = <<a>>
  <2>1. PICK a \in Names \cup Temps : p = <<a>>
    BY <1>1
  <2>2. Parent(p) = <<>> /\ Len(p) = 1 /\ p # <<>>
    BY <2>1, ParentOf
  <2>3. \A t \in Temps : Append(<<>>, t) = <<t>>
    BY JoinOfTwo
  <2>4. QED BY <2>2, <2>3, NameOf DEF TempPaths
<1>2. CASE \E a \in Names, b \in Leaves \cup Temps : p = <<a, b>>
  <2>1. PICK a \in Names, b \in Leaves \cup Temps : p = <<a, b>>
    BY <1>2
  <2>2. Parent(p) = <<a>>
    BY <2>1, ParentOf
  <2>3. <<a>> \in Paths /\ <<a>> # <<>> /\ Len(p) = 2 /\ <<a>> # p
    BY <2>1 DEF Paths
  <2>4. \A t \in Temps : Append(<<a>>, t) = <<a, t>>
    BY JoinOfTwo
  <2>5. ASSUME NEW t \in Temps
        PROVE  Append(Parent(p), t) \in TempPaths /\ Name(Append(Parent(p), t)) = t
    <3>1. Append(Parent(p), t) = <<a, t>>
      BY <2>2, <2>4
    <3>2. <<a, t>> \in TempPaths /\ Name(<<a, t>>) = t
      BY NameOf DEF TempPaths
    <3>3. QED BY <3>1, <3>2
  <2>6. QED BY <2>2, <2>3, <2>5
<1>3. QED BY <1>1, <1>2, PathIs

\* What lies below a path has one component more, and what is below it moves to
\* a path only if the new one has one component.
LEMMA BelowOf ==
    ASSUME NEW a \in AllPaths, NEW r \in Under(a)
    PROVE  \E x \in Names, y \in Leaves \cup Temps : a = <<x>> /\ r = <<x, y>>
<1>1. r \in AllPaths /\ Len(r) > Len(a) /\ SubSeq(r, 1, Len(a)) = a
  BY DEF Under
<1>2. CASE \E x \in Names \cup Temps : a = <<x>>
  <2>1. PICK x \in Names \cup Temps : a = <<x>>
    BY <1>2
  <2>2. Len(a) = 1 /\ Len(r) > 1
    BY <1>1, <2>1
  <2>3. ASSUME NEW z, r = <<z>> PROVE FALSE
    <3>1. Len(<<z>>) = 1
      OBVIOUS
    <3>2. QED BY <2>2, <2>3, <3>1
  <2>4. PICK z \in Names, y \in Leaves \cup Temps : r = <<z, y>>
    BY <1>1, <2>3, PathIs
  <2>5. <<z>> = <<x>>
    BY <1>1, <2>1, <2>2, <2>4, PartsOfTwo
  <2>6. QED BY <2>1, <2>4, <2>5
<1>3. CASE \E x \in Names, y \in Leaves \cup Temps : a = <<x, y>>
  <2>1. Len(a) = 2
    BY <1>3
  <2>2. \A p \in AllPaths : Len(p) \in {1, 2}
    BY DEF AllPaths, Paths, TempPaths
  <2>3. PICK k \in {1, 2} : Len(r) = k
    BY <1>1, <2>2
  <2>4. k > 2
    BY <1>1, <2>1, <2>3
  <2>5. QED BY <2>4
<1>4. QED BY <1>2, <1>3, PathIs

LEMMA MovedTo ==
    ASSUME NEW a \in AllPaths, NEW b \in AllPaths, NEW r \in Under(a), Moved(r, a, b) \in AllPaths
    PROVE  \E x, z \in Names, y \in Leaves \cup Temps :
             a = <<x>> /\ b = <<z>> /\ r = <<x, y>> /\ Moved(r, a, b) = <<z, y>>
<1>1. PICK x \in Names, y \in Leaves \cup Temps : a = <<x>> /\ r = <<x, y>>
  BY BelowOf
<1>2. Len(a) + 1 = 2 /\ Len(r) = 2
  BY <1>1
<1>3. Moved(r, a, b) = b \o <<y>>
  BY <1>1, <1>2, PartsOfTwo DEF Moved
<1>4. CASE \E z \in Names \cup Temps : b = <<z>>
  <2>1. PICK z \in Names \cup Temps : b = <<z>>
    BY <1>4
  <2>2. <<z>> \o <<y>> = <<z, y>>
    BY JoinOfTwo
  <2>3. <<z, y>> \in AllPaths
    BY <1>3, <2>1, <2>2
  <2>4. \A v : <<z, y>> # <<v>>
    OBVIOUS
  <2>5. z \in Names
    BY <2>3, <2>4, PathIs
  <2>6. QED BY <1>1, <1>3, <2>1, <2>2, <2>5
<1>5. CASE \E z \in Names, w \in Leaves \cup Temps : b = <<z, w>>
  <2>1. PICK z \in Names, w \in Leaves \cup Temps : b = <<z, w>>
    BY <1>5
  <2>2. Len(<<z, w>> \o <<y>>) = 3
    <3>1. <<z, w>> \in Seq({z, w, y}) /\ <<y>> \in Seq({z, w, y}) /\ Len(<<z, w>>) = 2 /\ Len(<<y>>) = 1
      OBVIOUS
    <3>2. QED BY <3>1
  <2>3. \A p \in AllPaths : Len(p) \in {1, 2}
    BY DEF AllPaths, Paths, TempPaths
  <2>4. Moved(r, a, b) = <<z, w>> \o <<y>>
    BY <1>3, <2>1
  <2>5. Len(Moved(r, a, b)) \in {1, 2} /\ Len(Moved(r, a, b)) = 3
    BY <2>2, <2>3, <2>4
  <2>6. QED BY <2>5
<1>6. QED BY <1>4, <1>5, PathIs

\* Moving keeps names, temporary files temporary, other files other, and what differs
\* different.
LEMMA MovedKind ==
    ASSUME NEW a \in AllPaths, NEW b \in AllPaths, NEW r \in Under(a), Moved(r, a, b) \in AllPaths
    PROVE  /\ r \in Paths <=> Moved(r, a, b) \in Paths
           /\ r \in TempPaths <=> Moved(r, a, b) \in TempPaths
           /\ Name(Moved(r, a, b)) = Name(r)
           /\ Moved(r, a, b) # b /\ r # a
<1>1. PICK x \in Names, z \in Names, y \in Leaves \cup Temps :
          a = <<x>> /\ b = <<z>> /\ r = <<x, y>> /\ Moved(r, a, b) = <<z, y>>
  BY MovedTo
<1>2. r \in AllPaths
  BY DEF Under
<1>3. r \in Paths <=> y \in Leaves
  BY <1>1, FilesAssumption DEF Paths
<1>4. <<z, y>> \in Paths <=> y \in Leaves
  BY <1>1, FilesAssumption DEF Paths
<1>5. <<z, y>> # b /\ r # a
  BY <1>1
<1>6. QED BY <1>1, <1>2, <1>3, <1>4, <1>5, KindsApart, NameOf

LEMMA MovedInjective ==
    ASSUME NEW a \in AllPaths, NEW b \in AllPaths, NEW r \in Under(a), NEW q \in Under(a),
           Moved(r, a, b) \in AllPaths, Moved(r, a, b) = Moved(q, a, b)
    PROVE  r = q
<1>1. PICK x \in Names, z \in Names, y \in Leaves \cup Temps :
          a = <<x>> /\ b = <<z>> /\ r = <<x, y>> /\ Moved(r, a, b) = <<z, y>>
  BY MovedTo
<1>2. PICK v \in Names, w \in Names, u \in Leaves \cup Temps :
          a = <<v>> /\ b = <<w>> /\ q = <<v, u>> /\ Moved(q, a, b) = <<w, u>>
  BY MovedTo
<1>3. x = v /\ z = w /\ y = u
  BY <1>1, <1>2
<1>4. QED BY <1>1, <1>2, <1>3

\* Making the directory of a resolved path replaces no file.
LEMMA MkdirKeeps ==
    ASSUME NEW t \in [AllPaths -> Inodes \cup {"none", "dir"}], NEW p \in AllPaths,
           Len(p) > 1 => t[Parent(p)] \in {"none", "dir"}
    PROVE  /\ MkdirAll(t, Parent(p)) \in [AllPaths -> Inodes \cup {"none", "dir"}]
           /\ \A q \in AllPaths :
                \/ MkdirAll(t, Parent(p))[q] = t[q]
                \/ /\ q \in Paths /\ q # p /\ t[q] \in {"none", "dir"}
                   /\ MkdirAll(t, Parent(p))[q] = "dir"
<1>1. CASE Parent(p) = <<>>
  BY <1>1 DEF MkdirAll
<1>2. CASE Parent(p) # <<>>
  <2>1. Parent(p) \in Paths /\ Len(p) = 2 /\ Parent(p) # p
    BY <1>2, DirOf
  <2>2. Parent(p) \in AllPaths /\ t[Parent(p)] \in {"none", "dir"}
    BY <2>1 DEF AllPaths
  <2>3. MkdirAll(t, Parent(p)) = [t EXCEPT ![Parent(p)] = "dir"]
    BY <1>2 DEF MkdirAll
  <2>4. QED BY <2>1, <2>2, <2>3
<1>3. QED BY <1>1, <1>2

-----------------------------------------------------------------------------
(* Contents.                                                                 *)

LEMMA ContentsAre ==
    ASSUME NEW s
    PROVE  s \in Contents <=> s \in Seq(Chunks) /\ Len(s) <= MaxChunks
<1> USE FilesAssumption
<1>1. ASSUME s \in Contents PROVE s \in Seq(Chunks) /\ Len(s) <= MaxChunks
  <2>1. PICK n \in 0..MaxChunks : s \in [1..n -> Chunks]
    BY <1>1 DEF Contents
  <2>2. s \in Seq(Chunks) /\ Len(s) = n
    BY <2>1
  <2>3. QED BY <2>2
<1>2. ASSUME s \in Seq(Chunks), Len(s) <= MaxChunks PROVE s \in Contents
  <2>1. Len(s) \in 0..MaxChunks /\ s \in [1..Len(s) -> Chunks]
    BY <1>2
  <2>2. QED BY <2>1 DEF Contents
<1>3. QED BY <1>1, <1>2

\* One more chunk in order.
LEMMA SentNext ==
    ASSUME NEW c, NEW k \in Nat, k >= 1, NEW n
    PROVE  Append(Sent(c, k - 1, n), <<c, k, n>>) = Sent(c, k, n)
<1> DEFINE S == {<<c, j, n>> : j \in 1..k}
           s == Sent(c, k - 1, n)
           t == Sent(c, k, n)
           u == Append(s, <<c, k, n>>)
<1>1. s \in Seq(S) /\ Len(s) = k - 1 /\ \A j \in 1..(k - 1) : s[j] = <<c, j, n>>
  BY DEF Sent
<1>2. t \in Seq(S) /\ Len(t) = k /\ \A j \in 1..k : t[j] = <<c, j, n>>
  BY DEF Sent
<1>3. <<c, k, n>> \in S
  OBVIOUS
<1> HIDE DEF s, t, S
<1>4. u \in Seq(S) /\ Len(u) = k
  BY <1>1, <1>3
<1>5. \A j \in 1..Len(u) : u[j] = t[j]
  <2>1. ASSUME NEW j \in 1..(k - 1) PROVE u[j] = t[j]
    <3>1. u[j] = s[j]
      BY <1>1, <1>3
    <3>2. j \in 1..k
      OBVIOUS
    <3>3. s[j] = <<c, j, n>> /\ t[j] = <<c, j, n>>
      BY <3>2, <1>1, <1>2
    <3>4. QED BY <3>1, <3>3
  <2>2. u[k] = t[k]
    <3>1. u[Len(s) + 1] = <<c, k, n>>
      BY <1>1, <1>3
    <3>2. QED BY <3>1, <1>1, <1>2
  <2>3. \A j \in 1..k : j = k \/ j \in 1..(k - 1)
    OBVIOUS
  <2>4. QED BY <2>1, <2>2, <2>3, <1>4
<1>6. u = t
  BY <1>2, <1>4, <1>5, SeqEqual
<1>7. QED BY <1>6 DEF s, t

LEMMA SentNothing == \A c, n : Sent(c, 0, n) = <<>>
  BY DEF Sent

LEMMA SentLen == ASSUME NEW c, NEW k \in Nat, NEW n PROVE Len(Sent(c, k, n)) = k
<1>1. Sent(c, k, n) \in Seq({<<c, j, n>> : j \in 1..k}) /\ Len(Sent(c, k, n)) = k
  BY DEF Sent
<1>2. QED BY <1>1

LEMMA SentWhole ==
    ASSUME NEW c \in Calls, NEW n \in 1..MaxChunks, ~OverLimit(n)
    PROVE  Whole(Sent(c, n, n))
  BY DEF Whole, Sent

\* A beginning grows by the next element, and is all of it when there is none.
LEMMA StartGrows ==
    ASSUME NEW S, NEW s \in Seq(S), NEW t \in Seq(S), IsStartOf(s, t), Len(s) + 1 <= Len(t)
    PROVE  IsStartOf(Append(s, t[Len(s) + 1]), t)
<1> DEFINE e == t[Len(s) + 1]
           u == Append(s, e)
<1>1. e \in S
  OBVIOUS
<1> HIDE DEF e
<1>2. u \in Seq(S) /\ Len(u) = Len(s) + 1 /\ u[Len(s) + 1] = e /\ \A j \in 1..Len(s) : u[j] = s[j]
  BY <1>1
<1> HIDE DEF u
<1>3. ASSUME NEW j \in 1..Len(u) PROVE u[j] = t[j]
  <2>1. CASE j = Len(s) + 1
    BY <2>1, <1>2 DEF e
  <2>2. CASE j # Len(s) + 1
    <3>1. j \in 1..Len(s)
      BY <2>2, <1>2
    <3>2. QED BY <3>1, <1>2 DEF IsStartOf
  <2>3. QED BY <2>1, <2>2
<1>4. IsStartOf(u, t)
  BY <1>2, <1>3 DEF IsStartOf
<1>5. QED BY <1>4 DEF u, e

LEMMA StartIsAll ==
    ASSUME NEW S, NEW s \in Seq(S), NEW t \in Seq(S), IsStartOf(s, t), Len(s) + 1 > Len(t)
    PROVE  s = t
<1>1. Len(s) = Len(t) /\ \A j \in 1..Len(s) : s[j] = t[j]
  BY DEF IsStartOf
<1>2. QED BY <1>1, SeqEqual

LEMMA NothingIsStart == ASSUME NEW S, NEW t \in Seq(S) PROVE IsStartOf(<<>>, t)
  BY DEF IsStartOf

\* What Settle leaves.
LEMMA SettleLeaves ==
    ASSUME NEW e \in [Inodes -> Contents], NEW r \in SUBSET Inodes, Settle(e, r)
    PROVE  /\ data' \in [Inodes -> Contents] /\ raw' \subseteq Inodes
           /\ \A i \in Held' : data'[i] = e[i] /\ (i \in raw' <=> i \in r)
           /\ Freed'
<1>1. /\ data' = [i \in Inodes |-> IF i \in Held' THEN e[i] ELSE <<>>]
      /\ raw' = r \cap Held'
  BY DEF Settle
<1>2. Held' \subseteq Inodes
  BY DEF Held
<1>3. <<>> \in Contents
  <2>1. <<>> \in Seq(Chunks) /\ Len(<<>>) = 0
    BY EmptySeq
  <2>2. ASSUME NEW s \in Seq(Chunks), Len(s) = 0 PROVE s \in Contents
    <3>1. Len(s) <= MaxChunks
      BY <2>2, FilesAssumption
    <3>2. QED BY <3>1, ContentsAre
  <2>3. QED BY <2>1, <2>2
<1>4. QED BY <1>1, <1>2, <1>3 DEF Freed

-----------------------------------------------------------------------------
(* What a step leaves alone.                                                 *)

\* The step is of the calls in C, and no other call notices.
Others(C) == \A d \in Calls \ C : call'[d] = call[d] /\ wr'[d] = wr[d]

\* The inode i has the same contents, from the same source.
Same(i) == data'[i] = data[i] /\ (i \in raw' <=> i \in raw)

\* The inode i has the same contents, if no client has been at it in this step.
Kept(i) ==
    /\ i \in raw => i \in raw'
    /\ data'[i] = data[i] \/ (i \in raw' /\ data'[i] = <<Scribble>>)

\* The calls in C write into the files they have made, and into no other.
OwnData(C) ==
    \A i \in Held' : (i \in raw => i \in raw') /\ ((\A c \in C : i # wr[c].ino) => Kept(i))

\* The inode i is settled after the step.
SettledAfter(i) == Whole(data'[i]) /\ \A c \in Calls : wr'[c].ino # i

\* No Write gets an inode that is in use.
FreshOnly == \A c \in Calls : wr'[c].ino \in Inodes => wr'[c].ino = wr[c].ino \/ wr'[c].ino \notin Held

\* No Write begins to fill a file.
Carried ==
    \A c \in Calls :
        /\ wr'[c].pc \in Filling => /\ wr[c].pc \in Filling
                                    /\ wr'[c].tmp = wr[c].tmp /\ wr'[c].ino = wr[c].ino
        /\ wr'[c].tmp \in TempPaths => wr'[c].tmp = wr[c].tmp

\* A file is where it was, has come from a path that is not temporary, or keeps the name
\* of its temporary file, unless it is settled or a client has renamed it.
Moves ==
    \A p \in AllPaths : tree'[p] \in Inodes \ raw' =>
        \/ SettledAfter(tree'[p])
        \/ \E q \in AllPaths : /\ tree[q] = tree'[p]
                               /\ q \in Paths \/ (p \in TempPaths /\ Name(p) = Name(q))

\* Temporary files that are not lost stay where they are, and with their Writes.
Stays(C) ==
    \A p \in TempPaths \ lost' : tree'[p] # "none" =>
        /\ p \notin lost /\ tree'[p] = tree[p]
        /\ tree[p] \in raw' => tree[p] \in raw \/ \E c \in C : wr[c].ino = tree[p]
        /\ \A c \in C : Keeps(c, p) => Keeps(c, p)'

LEMMA SettledKept ==
    ASSUME FilesInv, NEW C \in SUBSET Calls, OwnData(C), FreshOnly,
           NEW i \in Held, Settled(i), i \in Held', i \notin raw'
    PROVE  SettledAfter(i) /\ data'[i] = data[i] /\ i \notin raw
<1>1. \A c \in Calls : wr[c].ino # i
  BY DEF Settled
<1>2. Kept(i) /\ i \notin raw
  BY <1>1 DEF OwnData
<1>3. data'[i] = data[i]
  BY <1>2 DEF Kept
<1>4. \A c \in Calls : wr'[c].ino # i
  <2>1. i \in Inodes
    BY DEF Held
  <2>2. QED BY <1>1, <2>1 DEF FreshOnly
<1>5. Whole(data'[i])
  BY <1>3 DEF Settled
<1>6. QED BY <1>2, <1>3, <1>4, <1>5 DEF SettledAfter

LEMMA OthersKept ==
    ASSUME FilesInv, NEW C \in SUBSET Calls, Others(C), OwnData(C), FreshOnly,
           NEW d \in Calls \ C, wr[d].tmp \notin lost' => wr[d].tmp \notin lost
    PROVE  CallData(d)'
<1>1. call'[d] = call[d] /\ wr'[d] = wr[d]
  BY DEF Others
<1>2. CallData(d) /\ Joined(call[d], wr[d]) /\ OneWrite
  BY DEF FilesInv
<1>3. ASSUME Reads(d)'
      PROVE  Reads(d) /\ SettledAfter(call[d].src) /\ data'[call[d].src] = data[call[d].src]
  <2>1. call[d].src \in Inodes \ raw' /\ ~call[d].part
    BY <1>1, <1>3 DEF Reads
  <2>2. call[d].src \in Held' /\ call[d].src \in Held
    BY <1>1, <2>1 DEF Held
  <2>3. call[d].src \notin raw
    BY <2>1, <2>2 DEF OwnData
  <2>4. Reads(d) /\ Settled(call[d].src)
    BY <1>2, <2>1, <2>3 DEF Reads, CallData
  <2>5. QED BY <2>1, <2>2, <2>4, SettledKept
<1>4. ASSUME wr[d].ino \in Inodes PROVE Kept(wr[d].ino)
  <2>1. wr[d].ino \in Held'
    BY <1>1, <1>4 DEF Held
  <2>2. \A c \in C : wr[d].ino # wr[c].ino
    BY <1>2, <1>4 DEF OneWrite
  <2>3. QED BY <2>1, <2>2 DEF OwnData
<1>5. wr[d].pc \in Filling => wr[d].ino \in Inodes
  BY <1>2 DEF Joined
<1>6. Reads(d)' => SettledAfter(call'[d].src)
  BY <1>1, <1>3
<1>7. wr[d].pc = "copy" /\ call[d].op = "upload" /\ call[d].pc # "idle" =>
         \/ wr[d].ino \in raw' /\ data'[wr[d].ino] = <<Scribble>>
         \/ data'[wr[d].ino] =
              Sent(d, IF call[d].pipe = "full" THEN call[d].sent - 1 ELSE call[d].sent, call[d].n)
  BY <1>2, <1>4, <1>5 DEF CallData, Kept, Filling
<1>8. wr[d].pc = "copy" /\ call[d].op = "copy" =>
         \/ wr[d].ino \in raw' /\ data'[wr[d].ino] = <<Scribble>>
         \/ /\ Len(data'[wr[d].ino]) <= call[d].sent
            /\ Reads(d)' => /\ Len(data'[wr[d].ino]) = call[d].sent
                            /\ IsStartOf(data'[wr[d].ino], data'[call[d].src])
  BY <1>2, <1>3, <1>4, <1>5 DEF CallData, Kept, Filling
<1>9. wr[d].pc = "rename" /\ wr[d].ino \notin raw' =>
         /\ Whole(data'[wr[d].ino])
         /\ call[d].op = "upload" => Len(data'[wr[d].ino]) = call[d].n
  BY <1>2, <1>4, <1>5 DEF CallData, Kept, Filling
<1>10. wr[d].pc \in {"remove", "done"} /\ wr[d].res = "ok" /\ wr[d].tmp \notin lost'
         /\ call[d].op = "upload" /\ call[d].pc # "idle" => wr[d].put = call[d].n
  BY <1>2 DEF CallData
<1>11. /\ call[d].pc = "read" /\ Reads(d)' => IsStartOf(call[d].got, data'[call[d].src])
       /\ call[d].pc = "last" /\ Reads(d)' => Whole(call[d].got)
  BY <1>2, <1>3 DEF CallData
<1>12. QED BY <1>1, <1>6, <1>7, <1>8, <1>9, <1>10, <1>11 DEF CallData, Settled, SettledAfter

LEMMA PlacedKept ==
    ASSUME FilesInv, NEW C \in SUBSET Calls, OwnData(C), FreshOnly, Carried, Moves
    PROVE  Placed'
<1>1. SUFFICES ASSUME NEW p \in AllPaths, tree'[p] \in Inodes \ raw', ~SettledAfter(tree'[p])
               PROVE  /\ p \in TempPaths
                      /\ \A c \in Calls : wr'[c].pc \in Filling /\ Name(wr'[c].tmp) = Name(p)
                                            => wr'[c].ino = tree'[p]
  BY DEF Placed, Settled, SettledAfter
<1>2. PICK q \in AllPaths : tree[q] = tree'[p] /\ (q \in Paths \/ (p \in TempPaths /\ Name(p) = Name(q)))
  BY <1>1 DEF Moves
<1>3. tree[q] \in Held /\ tree[q] \in Held'
  BY <1>1, <1>2 DEF Held
<1>4. tree[q] \in Inodes \ raw
  BY <1>1, <1>2, <1>3 DEF OwnData
<1>5. ~Settled(tree[q])
  BY <1>1, <1>2, <1>3, SettledKept
<1>6. /\ q \in TempPaths
      /\ \A c \in Calls : wr[c].pc \in Filling /\ Name(wr[c].tmp) = Name(q) => wr[c].ino = tree[q]
  BY <1>4, <1>5 DEF FilesInv, Placed
<1>7. p \in TempPaths /\ Name(p) = Name(q)
  BY <1>2, <1>6, KindsApart
<1>8. QED BY <1>2, <1>6, <1>7 DEF Carried

LEMMA OwnedKept ==
    ASSUME FilesInv, NEW C \in SUBSET Calls, Others(C), Stays(C)
    PROVE  Owned'
<1>1. SUFFICES ASSUME NEW p \in TempPaths \ lost', tree'[p] # "none"
               PROVE  \E c \in Calls : Keeps(c, p)'
  BY DEF Owned
<1>2. /\ p \notin lost /\ tree'[p] = tree[p]
      /\ tree[p] \in raw' => tree[p] \in raw \/ \E c \in C : wr[c].ino = tree[p]
      /\ \A c \in C : Keeps(c, p) => Keeps(c, p)'
  BY <1>1 DEF Stays
<1>3. PICK d \in Calls : Keeps(d, p)
  BY <1>1, <1>2 DEF FilesInv, Owned
<1>4. CASE d \in C
  BY <1>2, <1>3, <1>4
<1>5. CASE d \notin C
  <2>1. call'[d] = call[d] /\ wr'[d] = wr[d]
    BY <1>5 DEF Others
  <2>2. wr[d].pc \in Filling /\ wr[d].ino = tree[p] /\ wr[d].ino \notin raw => wr[d].ino \notin raw'
    <3>1. SUFFICES ASSUME wr[d].pc \in Filling, wr[d].ino = tree[p], wr[d].ino \notin raw,
                          wr[d].ino \in raw'
                   PROVE  FALSE
      OBVIOUS
    <3>2. PICK c \in C : wr[c].ino = wr[d].ino
      BY <1>2, <3>1
    <3>3. wr[d].ino \in Inodes
      BY <3>1 DEF FilesInv, Joined
    <3>4. QED BY <1>5, <3>2, <3>3 DEF FilesInv, OneWrite
  <2>3. ~Deserted(d) => ~Deserted(d)'
    BY <2>1 DEF Deserted
  <2>4. Keeps(d, p)'
    BY <1>2, <1>3, <2>1, <2>2, <2>3 DEF Keeps
  <2>5. QED BY <2>4
<1>6. QED BY <1>4, <1>5

\* A step that lets no Write begin to fill a file keeps the invariant, if it does so for
\* the calls it is of.
LEMMA StepInv ==
    ASSUME FilesInv, NEW C \in SUBSET Calls, FilesTyped', Freed', OnePath',
           Others(C), OwnData(C), Carried, Moves, Stays(C),
           \A c \in C : Joined(call'[c], wr'[c]) /\ CallData(c)',
           \A d \in Calls \ C : wr[d].tmp \notin lost' => wr[d].tmp \notin lost
    PROVE  FilesInv'
<1>1. \A d \in Calls : Joined(call'[d], wr'[d])
  BY DEF FilesInv, Others
<1>2. \A d \in Calls : wr'[d].ino \in Inodes => wr'[d].ino = wr[d].ino
  BY <1>1, FilesAssumption DEF Joined, Carried
<1>3. FreshOnly
  BY <1>2 DEF FreshOnly
<1>4. OneWrite'
  BY <1>2 DEF FilesInv, OneWrite, Carried
<1>5. \A d \in Calls : CallData(d)'
  BY <1>3, OthersKept
<1>6. Owned' /\ Placed'
  BY <1>3, OwnedKept, PlacedKept
<1>7. QED BY <1>1, <1>4, <1>5, <1>6 DEF FilesInv

\* A step of one call that gives no path to a file.
LEMMA QuietInv ==
    ASSUME FilesInv, NEW c \in Calls, done' = done, lost \subseteq lost', lost' \subseteq TempPaths,
           tree' \in [AllPaths -> Inodes \cup {"none", "dir"}],
           data' \in [Inodes -> Contents], raw' \subseteq Inodes, Freed', OwnData({c}),
           \A i \in raw' : i \in raw \/ i = wr[c].ino,
           call' \in [Calls -> CallRecords], wr' \in [Calls -> WriteRecords], Others({c}),
           Joined(call'[c], wr'[c]), CallData(c)',
           \A p \in AllPaths : tree'[p] \in Inodes => tree'[p] = tree[p],
           \A p \in TempPaths : tree'[p] # "none" => tree'[p] = tree[p],
           wr'[c].pc \in Filling => wr[c].pc \in Filling /\ wr'[c].ino = wr[c].ino,
           wr'[c].tmp \in TempPaths => wr'[c].tmp = wr[c].tmp,
           \A p \in TempPaths \ lost' : tree'[p] # "none" /\ Keeps(c, p) => Keeps(c, p)'
    PROVE  FilesInv'
<1>1. FilesTyped'
  BY DEF FilesInv, FilesTyped
<1>2. OnePath'
  BY DEF FilesInv, OnePath
<1>3. Carried
  <2>1. wr'[c].pc \in Filling => wr'[c].tmp \in TempPaths
    BY DEF Joined, Filling
  <2>2. QED BY <2>1 DEF Carried, Others
<1>4. Moves
  BY KindsApart DEF Moves
<1>5. Stays({c})
  BY DEF Stays
<1>6. QED BY <1>1, <1>2, <1>3, <1>4, <1>5, StepInv

\* Nothing is freed by a step that closes no file.
LEMMA FreedKept ==
    ASSUME FilesInv, NEW c \in Calls, Others({c}), UNCHANGED <<data, raw>>,
           \A p \in AllPaths : tree[p] \in Inodes => tree'[p] = tree[p],
           call[c].src \in Inodes => call'[c].src = call[c].src,
           wr[c].ino \in Inodes => wr'[c].ino = wr[c].ino
    PROVE  Freed' /\ OwnData({c})
<1>1. Held \subseteq Held'
  BY DEF Held, Others
<1>2. Freed'
  BY <1>1 DEF FilesInv, Freed
<1>3. QED BY <1>2 DEF OwnData, Kept

-----------------------------------------------------------------------------
(* The handlers.                                                             *)

\* A step of a handler alone: the file system stays as it is.
LEMMA HandlerInv ==
    ASSUME FilesInv, NEW c \in Calls, UNCHANGED <<tree, data, raw, done>>,
           lost \subseteq lost', lost' \subseteq TempPaths,
           call' \in [Calls -> CallRecords], wr' \in [Calls -> WriteRecords], Others({c}),
           Joined(call'[c], wr'[c]), wr'[c].ino = wr[c].ino,
           wr'[c].pc \in Filling => wr[c].pc \in Filling,
           wr'[c].tmp \in TempPaths => wr'[c].tmp = wr[c].tmp,
           call[c].src \in Inodes => call'[c].src = call[c].src,
           \A p \in TempPaths \ lost' : tree[p] # "none" /\ Keeps(c, p) => Keeps(c, p)',
           CallData(c)'
    PROVE  FilesInv'
<1>1. Freed' /\ OwnData({c})
  BY FreedKept
<1>2. /\ tree' \in [AllPaths -> Inodes \cup {"none", "dir"}]
      /\ data' \in [Inodes -> Contents] /\ raw' \subseteq Inodes
  BY DEF FilesInv, FilesTyped
<1>3. QED BY <1>1, <1>2, QuietInv

LEMMA RecordsOf ==
    ASSUME FilesInv, NEW c \in Calls
    PROVE  /\ call \in [Calls -> CallRecords] /\ wr \in [Calls -> WriteRecords]
           /\ call[c] \in CallRecords /\ wr[c] \in WriteRecords
           /\ Joined(call[c], wr[c]) /\ CallData(c) /\ lost \subseteq TempPaths
           /\ IdleCall \in CallRecords /\ NoWrite \in WriteRecords
<1>1. <<>> \in Seq(Chunks)
  BY EmptySeq
<1>2. IdleCall \in CallRecords
  BY <1>1, FilesAssumption DEF IdleCall, CallRecords
<1>3. NoWrite \in WriteRecords
  BY DEF NoWrite, WriteRecords
<1>4. QED BY <1>2, <1>3 DEF FilesInv, FilesTyped

\* Nothing is to be said of a call that has neither a file open nor a Write at work.
LEMMA NoData ==
    ASSUME NEW c, call'[c].src \notin Inodes, wr'[c].pc \in {"none", "start", "temp"}
    PROVE  CallData(c)'
  BY DEF CallData, Reads

\* A Write that has no temporary file keeps none.
LEMMA KeepsNone ==
    ASSUME FilesInv, NEW c \in Calls, wr[c].pc \in {"none", "start", "temp", "done"}
    PROVE  \A p \in TempPaths : ~Keeps(c, p)
  BY DEF Keeps, Filling

LEMMA UploadBeginInv ==
    ASSUME FilesInv, NEW c \in Calls, NEW p \in Targets, NEW n \in Sizes[c], UploadBegin(c, p, n),
           done' = done
    PROVE  FilesInv'
<1> DEFINE r == [IdleCall EXCEPT !.op = "upload", !.path = p, !.n = n, !.pc = "recv"]
<1>1. call[c] \in CallRecords /\ wr[c] \in WriteRecords /\ Joined(call[c], wr[c])
  BY RecordsOf
<1>2. IdleCall \in CallRecords /\ NoWrite \in WriteRecords
  BY RecordsOf
<1>3. n \in 0..MaxChunks /\ p \in AllPaths \cup {Outside, None}
  BY FilesAssumption
<1>4. r \in CallRecords
  BY <1>2, <1>3 DEF CallRecords
<1>5. /\ call' = [call EXCEPT ![c] = r] /\ wr' = [wr EXCEPT ![c] = NoWrite]
      /\ call[c].pc = "idle" /\ wr[c].pc \in {"none", "done"}
      /\ UNCHANGED <<tree, lost, data, raw, done>>
  BY DEF UploadBegin, Free
<1>6. /\ call' \in [Calls -> CallRecords] /\ wr' \in [Calls -> WriteRecords] /\ Others({c})
      /\ call'[c] = r /\ wr'[c] = NoWrite
  BY <1>2, <1>4, <1>5, RecordsOf DEF Others
<1>7. Joined(r, NoWrite)
  BY <1>3, FilesAssumption DEF Joined, IdleCall, NoWrite, Active, Filling, OverLimit
<1>8. r.src = None /\ NoWrite.pc = "none" /\ NoWrite.ino = None /\ NoWrite.tmp = None
  BY DEF IdleCall, NoWrite
<1>9. call[c].src = None /\ wr[c].ino = None
  BY <1>1, <1>5 DEF Joined, Filling
<1> HIDE DEF r
<1>10. CallData(c)'
  BY <1>6, <1>8, NoData, FilesAssumption
<1>11. None \notin TempPaths /\ "none" \notin Filling /\ None \notin Inodes
  BY FilesAssumption DEF AllPaths, Filling
<1>12. \A q \in TempPaths : ~Keeps(c, q)
  BY <1>5, KeepsNone
<1>13. QED BY <1>5, <1>6, <1>7, <1>8, <1>9, <1>10, <1>11, <1>12, RecordsOf, HandlerInv

LEMMA UploadRecvInv ==
    ASSUME FilesInv, NEW c \in Calls, UploadRecv(c), done' = done
    PROVE  FilesInv'
<1> DEFINE over == [IdleCall EXCEPT !.op = "upload", !.path = call[c].path, !.pipe = "broken"]
           next == [call[c] EXCEPT !.pc = "write", !.pipe = "full", !.sent = @ + 1]
           start == [wr[c] EXCEPT !.pc = "start"]
<1>1. /\ call[c] \in CallRecords /\ wr[c] \in WriteRecords /\ Joined(call[c], wr[c])
      /\ CallData(c) /\ IdleCall \in CallRecords
  BY RecordsOf
<1>2. /\ call[c].pc = "recv" /\ call[c].op = "upload" /\ call[c].sent < call[c].n
      /\ UNCHANGED <<tree, lost, data, raw, done>>
  BY DEF UploadRecv
<1>3. /\ call[c].path \in AllPaths \cup {Outside, None} /\ call[c].sent \in Nat
      /\ call[c].n \in 0..MaxChunks
  BY <1>1 DEF CallRecords
<1>4. \/ call' = [call EXCEPT ![c] = over] /\ call[c].sent # 0
      \/ call' = [call EXCEPT ![c] = next] /\ ~OverLimit(call[c].sent + 1)
  <2>1. CASE OverLimit(call[c].sent + 1)
    <3>1. call[c].sent # 0
      BY <1>3, <2>1, FilesAssumption DEF OverLimit
    <3>2. QED BY <2>1, <3>1 DEF UploadRecv
  <2>2. CASE ~OverLimit(call[c].sent + 1)
    <3>1. call' = [call EXCEPT ![c].pc = "write", ![c].pipe = "full", ![c].sent = @ + 1]
      BY <2>2 DEF UploadRecv
    <3>2. call' = [call EXCEPT ![c] = next]
      BY <3>1, RecordsOf
    <3>3. QED BY <2>2, <3>2
  <2>3. QED BY <2>1, <2>2
<1>5. /\ over \in CallRecords
      /\ over.op = "upload" /\ over.pipe = "broken" /\ over.src = None /\ over.pc = "idle"
      /\ over.sent = 0 /\ over.n = 0 /\ over.path = call[c].path
  BY <1>1, <1>3 DEF CallRecords, IdleCall
<1>6. /\ next \in CallRecords
      /\ next.op = "upload" /\ next.pipe = "full" /\ next.src = call[c].src /\ next.pc = "write"
      /\ next.sent = call[c].sent + 1 /\ next.n = call[c].n /\ next.path = call[c].path
  <2>1. PICK k \in Nat : k = call[c].sent + 1
    BY <1>3
  <2>2. next = [call[c] EXCEPT !.pc = "write", !.pipe = "full", !.sent = k]
    BY <2>1
  <2> HIDE DEF next
  <2>3. QED BY <1>1, <1>2, <2>1, <2>2 DEF CallRecords
<1>7. /\ start \in WriteRecords /\ start.pc = "start" /\ start.ino = wr[c].ino
      /\ start.tmp = wr[c].tmp
  BY <1>1 DEF WriteRecords
<1> HIDE DEF over, next, start
<1>8. /\ wr' \in [Calls -> WriteRecords] /\ \A d \in Calls \ {c} : wr'[d] = wr[d]
      /\ wr'[c] = IF call[c].sent = 0 THEN start ELSE wr[c]
  <2>1. CASE call[c].sent = 0
    <3>1. wr' = [wr EXCEPT ![c] = start]
      BY <2>1 DEF UploadRecv, start
    <3>2. QED BY <2>1, <3>1, <1>7, RecordsOf
  <2>2. CASE call[c].sent # 0
    BY <2>2, RecordsOf DEF UploadRecv
  <2>3. QED BY <2>1, <2>2
<1>9. /\ call' \in [Calls -> CallRecords] /\ Others({c})
      /\ \/ call'[c] = over /\ call[c].sent # 0
         \/ call'[c] = next /\ ~OverLimit(call[c].sent + 1)
  BY <1>4, <1>5, <1>6, <1>8, RecordsOf DEF Others
<1>10. /\ call[c].src = None /\ call[c].pipe = "empty" /\ wr[c].pc \notin {"start", "temp", "rename"}
       /\ call[c].sent = 0 => wr[c].pc = "none"
  BY <1>1, <1>2 DEF Joined
<1>11. Joined(call'[c], wr'[c])
  <2>1. CASE call'[c] = over /\ call[c].sent # 0
    <3>1. ~OverLimit(0)
      BY FilesAssumption DEF OverLimit
    <3>2. QED BY <1>1, <1>2, <1>5, <1>8, <1>10, <2>1, <3>1 DEF Joined, Active, Filling
  <2>2. CASE call'[c] = next /\ ~OverLimit(call[c].sent + 1)
    <3>1. CASE call[c].sent = 0
      BY <1>1, <1>2, <1>3, <1>6, <1>7, <1>8, <1>10, <2>2, <3>1 DEF Joined, Active, Filling
    <3>2. CASE call[c].sent # 0
      BY <1>1, <1>2, <1>3, <1>6, <1>8, <1>10, <2>2, <3>2 DEF Joined, Active, Filling
    <3>3. QED BY <3>1, <3>2
  <2>3. QED BY <1>9, <2>1, <2>2
<1>12. /\ wr'[c].ino = wr[c].ino /\ wr'[c].tmp = wr[c].tmp /\ call'[c].src = None
       /\ call[c].sent # 0 => wr'[c] = wr[c]
       /\ call[c].sent = 0 => wr'[c].pc = "start"
  BY <1>5, <1>6, <1>7, <1>8, <1>9, <1>10
<1>13. CallData(c)'
  <2>1. CASE call'[c] = over /\ call[c].sent # 0
    BY <1>5, <1>10, <1>12, <2>1, FilesAssumption DEF CallData, Reads
  <2>2. CASE call'[c] = next
    <3>1. next.sent - 1 = call[c].sent
      BY <1>3, <1>6
    <3>2. QED BY <1>1, <1>2, <1>6, <1>10, <1>12, <2>2, <3>1, FilesAssumption DEF CallData, Reads
  <2>3. QED BY <1>9, <2>1, <2>2
<1>14. \A p \in TempPaths : Keeps(c, p) => Keeps(c, p)'
  <2>1. call[c].sent = 0 => \A p \in TempPaths : ~Keeps(c, p)
    BY <1>10, KeepsNone
  <2>2. ~Deserted(c)'
    BY <1>5, <1>6, <1>9 DEF Deserted
  <2>3. QED BY <1>2, <1>5, <1>6, <1>9, <1>12, <2>1, <2>2 DEF Keeps
<1>15. wr'[c].pc \in Filling => wr[c].pc \in Filling
  BY <1>12 DEF Filling
<1>16. QED BY <1>2, <1>8, <1>9, <1>10, <1>11, <1>12, <1>13, <1>14, <1>15, RecordsOf, FilesAssumption, HandlerInv

\* A handler that returns closes its file, and leaves only its target to a Write that is
\* still at work.
LEMMA ReturnIs ==
    ASSUME FilesInv, NEW c \in Calls, Return(c)
    PROVE  /\ call' \in [Calls -> CallRecords]
           /\ \A d \in Calls \ {c} : call'[d] = call[d]
           /\ wr[c].pc \in {"none", "done"} => call'[c] = IdleCall
           /\ wr[c].pc \notin {"none", "done"} =>
                call'[c] = [IdleCall EXCEPT !.op = "upload", !.path = call[c].path]
           /\ call'[c].pc = "idle" /\ call'[c].src = None /\ call'[c].pipe = "empty"
<1> DEFINE r == [IdleCall EXCEPT !.op = "upload", !.path = call[c].path]
<1>1. call[c] \in CallRecords /\ IdleCall \in CallRecords
  BY RecordsOf
<1>2. r \in CallRecords /\ r.pc = "idle" /\ r.src = None /\ r.pipe = "empty"
  BY <1>1 DEF CallRecords, IdleCall
<1>3. IdleCall.pc = "idle" /\ IdleCall.src = None /\ IdleCall.pipe = "empty"
  BY DEF IdleCall
<1> HIDE DEF r
<1>4. call' = [call EXCEPT ![c] = IF wr[c].pc \in {"none", "done"} THEN IdleCall ELSE r]
  BY DEF Return, r
<1>5. QED BY <1>1, <1>2, <1>3, <1>4, RecordsOf DEF r

LEMMA UploadLastInv ==
    ASSUME FilesInv, NEW c \in Calls, UploadLast(c), done' = done
    PROVE  FilesInv'
<1> DEFINE next == [call[c] EXCEPT !.pc = "wait", !.pipe = "closed"]
<1>1. call[c] \in CallRecords /\ wr[c] \in WriteRecords /\ Joined(call[c], wr[c]) /\ CallData(c)
  BY RecordsOf
<1>2. /\ call[c].pc = "recv" /\ call[c].op = "upload" /\ call[c].sent = call[c].n
      /\ UNCHANGED <<tree, wr, lost, data, raw, done>>
  BY DEF UploadLast
<1>3. /\ call[c].src = None /\ wr[c].pc \notin {"rename", "start", "temp"} /\ call[c].pipe = "empty"
  BY <1>1, <1>2 DEF Joined
<1>4. CASE call[c].n = 0
  <2>1. Return(c)
    BY <1>4 DEF UploadLast
  <2>2. wr[c].pc = "none"
    BY <1>1, <1>2, <1>4 DEF Joined
  <2>3. call'[c] = IdleCall /\ call' \in [Calls -> CallRecords] /\ Others({c}) /\ call'[c].src = None
    BY <1>2, <2>1, <2>2, ReturnIs DEF Others
  <2>4. Joined(call'[c], wr'[c])
    BY <1>1, <1>2, <2>2, <2>3, FilesAssumption DEF Joined, IdleCall, Active, Filling
  <2>5. CallData(c)'
    BY <1>2, <2>2, <2>3, NoData, FilesAssumption
  <2>6. \A p \in TempPaths : ~Keeps(c, p)
    BY <2>2, KeepsNone
  <2>7. QED BY <1>2, <1>3, <2>3, <2>4, <2>5, <2>6, RecordsOf, FilesAssumption, HandlerInv
<1>5. CASE call[c].n # 0
  <2>1. call' = [call EXCEPT ![c] = next]
    BY <1>5 DEF UploadLast
  <2>2. next \in CallRecords
    BY <1>1 DEF CallRecords
  <2>3. call' \in [Calls -> CallRecords] /\ Others({c}) /\ call'[c] = next
    BY <1>2, <2>1, <2>2, RecordsOf DEF Others
  <2>4. /\ next.pc = "wait" /\ next.pipe = "closed" /\ next.src = None /\ next.op = "upload"
        /\ next.sent = call[c].sent /\ next.n = call[c].n /\ next.path = call[c].path
    BY <1>1, <1>2, <1>3 DEF CallRecords
  <2> HIDE DEF next
  <2>5. Joined(call'[c], wr'[c])
    BY <1>1, <1>2, <1>3, <2>3, <2>4 DEF Joined, Active, CallRecords
  <2>6. CallData(c)'
    BY <1>1, <1>2, <1>3, <2>3, <2>4, FilesAssumption DEF CallData, Reads
  <2>7. \A p \in TempPaths : Keeps(c, p) => Keeps(c, p)'
    BY <1>2, <2>3, <2>4 DEF Keeps, Deserted
  <2>8. QED BY <1>2, <1>3, <2>3, <2>4, <2>5, <2>6, <2>7, RecordsOf, FilesAssumption, HandlerInv
<1>6. QED BY <1>4, <1>5

LEMMA UploadCutInv ==
    ASSUME FilesInv, NEW c \in Calls, UploadCut(c), done' = done
    PROVE  FilesInv'
<1>1. call[c] \in CallRecords /\ wr[c] \in WriteRecords /\ Joined(call[c], wr[c]) /\ CallData(c)
  BY RecordsOf
<1>2. /\ call[c].pc = "recv" /\ call[c].op = "upload" /\ Return(c)
      /\ UNCHANGED <<tree, wr, data, raw, done>>
      /\ lost' = IF wr[c].pc = "copy" THEN lost \cup {wr[c].tmp} ELSE lost
  BY DEF UploadCut
<1>3. /\ call[c].src = None /\ call[c].pipe = "empty"
      /\ wr[c].pc \in {"none", "copy", "remove", "done"}
  BY <1>1, <1>2 DEF Joined, WriteRecords
<1>4. /\ call' \in [Calls -> CallRecords] /\ Others({c})
      /\ call'[c].src = None /\ call'[c].pc = "idle"
  BY <1>2, ReturnIs DEF Others
<1>5. lost \subseteq lost' /\ lost' \subseteq TempPaths
  <2>1. wr[c].pc = "copy" => wr[c].tmp \in TempPaths
    BY <1>1 DEF Joined
  <2>2. QED BY <1>2, <2>1, RecordsOf
<1>6. Joined(call'[c], wr'[c])
  <2>1. CASE wr[c].pc \in {"none", "done"}
    <3>1. call'[c] = IdleCall
      BY <1>2, <2>1, ReturnIs
    <3>2. QED BY <1>1, <1>2, <2>1, <3>1, FilesAssumption DEF Joined, IdleCall, Active, Filling
  <2>2. CASE wr[c].pc \notin {"none", "done"}
    <3>1. call'[c] = [IdleCall EXCEPT !.op = "upload", !.path = call[c].path]
      BY <1>2, <2>2, ReturnIs
    <3>2. QED BY <1>1, <1>2, <1>3, <2>2, <3>1, FilesAssumption DEF Joined, IdleCall, Active, Filling, OverLimit
  <2>3. QED BY <2>1, <2>2
<1>7. CallData(c)'
  <2>1. wr[c].pc = "copy" => call'[c].op = "upload"
    BY <1>2, ReturnIs DEF IdleCall
  <2>2. QED BY <1>2, <1>3, <1>4, <2>1, FilesAssumption DEF CallData, Reads
<1>8. \A p \in TempPaths \ lost' : Keeps(c, p) => Keeps(c, p)'
  BY <1>2, <1>3 DEF Keeps, Filling
<1>9. QED BY <1>2, <1>3, <1>4, <1>5, <1>6, <1>7, <1>8, RecordsOf, FilesAssumption, HandlerInv

LEMMA ClientGoneInv ==
    ASSUME FilesInv, NEW c \in Calls, ClientGone(c), done' = done
    PROVE  FilesInv'
<1> DEFINE next == [call[c] EXCEPT !.gone = TRUE]
<1>1. call[c] \in CallRecords /\ wr[c] \in WriteRecords /\ Joined(call[c], wr[c]) /\ CallData(c)
  BY RecordsOf
<1>2. call' = [call EXCEPT ![c] = next] /\ UNCHANGED <<tree, wr, lost, data, raw, done>>
  BY DEF ClientGone
<1>3. /\ next \in CallRecords
      /\ next.pc = call[c].pc /\ next.op = call[c].op /\ next.path = call[c].path
      /\ next.pipe = call[c].pipe /\ next.src = call[c].src /\ next.sent = call[c].sent
      /\ next.n = call[c].n /\ next.got = call[c].got /\ next.part = call[c].part
  BY <1>1 DEF CallRecords
<1> HIDE DEF next
<1>4. call' \in [Calls -> CallRecords] /\ Others({c}) /\ call'[c] = next
  BY <1>2, <1>3, RecordsOf DEF Others
<1>5. Joined(call'[c], wr'[c])
  BY <1>1, <1>2, <1>3, <1>4 DEF Joined
<1>6. CallData(c)'
  BY <1>1, <1>2, <1>3, <1>4 DEF CallData, Reads, Settled
<1>7. \A p \in TempPaths : Keeps(c, p) => Keeps(c, p)'
  BY <1>2, <1>3, <1>4 DEF Keeps, Deserted
<1>8. QED BY <1>2, <1>3, <1>4, <1>5, <1>6, <1>7, RecordsOf, HandlerInv

\* A call begins, and may have opened a file.
LEMMA BeginInv ==
    ASSUME FilesInv, NEW c \in Calls, Free(c), UNCHANGED <<tree, lost, data, raw, done>>,
           call' \in [Calls -> CallRecords], wr' \in [Calls -> WriteRecords], Others({c}),
           Joined(call'[c], wr'[c]), wr'[c].pc \in {"none", "start"}, call'[c].got = <<>>,
           call'[c].pc # "last",
           call'[c].src \in Inodes /\ ~call'[c].part => \E p \in Paths : tree[p] = call'[c].src
    PROVE  FilesInv'
<1>1. Joined(call[c], wr[c])
  BY RecordsOf
<1>2. call[c].src = None /\ wr[c].ino = None
  BY <1>1 DEF Joined, Free, Filling
<1>3. wr'[c].ino = None /\ wr'[c].tmp = None /\ wr'[c].pc \notin Filling
  BY DEF Joined, Filling
<1>4. CallData(c)'
  <2>1. ASSUME Reads(c)'
        PROVE  SettledAfter(call'[c].src) /\ IsStartOf(call'[c].got, data'[call'[c].src])
    <3>1. call'[c].src \in Inodes \ raw /\ ~call'[c].part
      BY <2>1 DEF Reads
    <3>2. PICK p \in Paths : tree[p] = call'[c].src
      BY <3>1
    <3>3. Settled(tree[p])
      BY <3>1, <3>2, KindsApart DEF FilesInv, Placed, AllPaths
    <3>4. data[tree[p]] \in Seq(Chunks)
      BY <3>1, <3>2, ContentsAre DEF FilesInv, FilesTyped
    <3>5. IsStartOf(<<>>, data[tree[p]])
      BY <3>4, NothingIsStart
    <3>6. \A d \in Calls : wr'[d].ino # tree[p]
      BY <1>3, <3>1, <3>2, <3>3, FilesAssumption DEF Settled, Others
    <3>7. QED BY <3>2, <3>3, <3>5, <3>6 DEF Settled, SettledAfter
  <2>2. QED BY <1>3, <2>1 DEF CallData, Settled, SettledAfter, Filling
<1>5. \A p \in TempPaths : ~Keeps(c, p)
  BY KeepsNone DEF Free
<1>6. None \notin TempPaths /\ None \notin Inodes
  BY FilesAssumption DEF AllPaths
<1>7. QED BY <1>2, <1>3, <1>4, <1>5, <1>6, RecordsOf, HandlerInv

LEMMA OpenIs ==
    ASSUME FilesInv, NEW p \in AllPaths \cup {Outside}, Open(p) # "none"
    PROVE  Open(p) = tree[p] /\ p \in AllPaths /\ Open(p) \in Inodes \cup {"dir"}
<1>1. ResolvePath(p) /\ Open(p) = tree[p]
  BY DEF Open
<1>2. p \in AllPaths
  BY <1>1 DEF ResolvePath
<1>3. QED BY <1>1, <1>2 DEF FilesInv, FilesTyped

LEMMA CopyBeginInv ==
    ASSUME FilesInv, NEW c \in Calls, NEW pq \in Copies[c], CopyBegin(c, pq[1], pq[2]),
           done' = done
    PROVE  FilesInv'
<1> DEFINE p == pq[1]
           q == pq[2]
           w == [NoWrite EXCEPT !.pc = "start"]
<1> DEFINE b == p \in TempPaths
<1>0. b \in BOOLEAN
  OBVIOUS
<1> HIDE DEF b
<1> DEFINE r == [IdleCall EXCEPT !.op = "copy", !.path = q, !.pc = "wait", !.src = Open(p), !.part = b]
<1>1. IdleCall \in CallRecords /\ NoWrite \in WriteRecords
  BY RecordsOf
<1>2. Free(c) /\ UNCHANGED <<tree, lost, data, raw, done>>
  BY DEF CopyBegin
<1>3. p \in AllPaths /\ q \in AllPaths \cup {Outside}
  BY FilesAssumption
<1>4. CASE Open(p) = "none"
  <2>1. call' = [call EXCEPT ![c] = IdleCall] /\ wr' = [wr EXCEPT ![c] = NoWrite]
    BY <1>4 DEF CopyBegin
  <2>2. /\ call' \in [Calls -> CallRecords] /\ wr' \in [Calls -> WriteRecords] /\ Others({c})
        /\ call'[c] = IdleCall /\ wr'[c] = NoWrite
    BY <1>1, <2>1, RecordsOf DEF Others
  <2>3. /\ Joined(IdleCall, NoWrite) /\ NoWrite.pc = "none" /\ IdleCall.got = <<>>
        /\ IdleCall.src = None /\ IdleCall.pc = "idle"
    BY FilesAssumption DEF Joined, IdleCall, NoWrite, Active, Filling, OverLimit
  <2>4. QED BY <1>2, <2>2, <2>3, FilesAssumption, BeginInv
<1>5. CASE Open(p) # "none"
  <2>1. call' = [call EXCEPT ![c] = r] /\ wr' = [wr EXCEPT ![c] = w]
    BY <1>5 DEF CopyBegin, b
  <2>2. Open(p) = tree[p] /\ Open(p) \in Inodes \cup {"dir"}
    BY <1>3, <1>5, OpenIs
  <2>3. /\ r \in CallRecords /\ w \in WriteRecords /\ r.src = Open(p) /\ r.got = <<>>
        /\ w.pc = "start" /\ r.pc = "wait" /\ r.part = b
    BY <1>0, <1>1, <1>3, <2>2 DEF CallRecords, WriteRecords, IdleCall
  <2>4. Joined(r, w)
    BY FilesAssumption DEF Joined, IdleCall, NoWrite, Active, Filling
  <2> HIDE DEF r, w
  <2>5. /\ call' \in [Calls -> CallRecords] /\ wr' \in [Calls -> WriteRecords] /\ Others({c})
        /\ call'[c] = r /\ wr'[c] = w
    BY <2>1, <2>3, RecordsOf DEF Others
  <2>6. ~r.part => p \in Paths
    BY <1>3, <2>3, KindsApart DEF b
  <2> HIDE DEF p
  <2>7. QED BY <1>2, <2>2, <2>3, <2>4, <2>5, <2>6, BeginInv
<1>6. QED BY <1>4, <1>5

LEMMA DownloadBeginInv ==
    ASSUME FilesInv, NEW c \in Calls, NEW p \in Downloads[c], DownloadBegin(c, p), done' = done
    PROVE  FilesInv'
<1> DEFINE b == p \in TempPaths
<1>0. b \in BOOLEAN
  OBVIOUS
<1> HIDE DEF b
<1> DEFINE r == [IdleCall EXCEPT !.op = "download", !.path = p, !.pc = "read", !.src = Open(p), !.part = b]
<1>1. IdleCall \in CallRecords /\ NoWrite \in WriteRecords
  BY RecordsOf
<1>2. Free(c) /\ UNCHANGED <<tree, lost, data, raw, done>> /\ wr' = [wr EXCEPT ![c] = NoWrite]
  BY DEF DownloadBegin
<1>3. p \in AllPaths \cup {Outside}
  BY FilesAssumption
<1>4. CASE Open(p) = "none"
  <2>1. call' = [call EXCEPT ![c] = IdleCall]
    BY <1>4 DEF DownloadBegin
  <2>2. /\ call' \in [Calls -> CallRecords] /\ wr' \in [Calls -> WriteRecords] /\ Others({c})
        /\ call'[c] = IdleCall /\ wr'[c] = NoWrite
    BY <1>1, <1>2, <2>1, RecordsOf DEF Others
  <2>3. /\ Joined(IdleCall, NoWrite) /\ NoWrite.pc = "none" /\ IdleCall.got = <<>>
        /\ IdleCall.src = None /\ IdleCall.pc = "idle"
    BY FilesAssumption DEF Joined, IdleCall, NoWrite, Active, Filling, OverLimit
  <2>4. QED BY <1>2, <2>2, <2>3, FilesAssumption, BeginInv
<1>5. CASE Open(p) # "none"
  <2>1. call' = [call EXCEPT ![c] = r]
    BY <1>5 DEF DownloadBegin, b
  <2>2. Open(p) = tree[p] /\ p \in AllPaths /\ Open(p) \in Inodes \cup {"dir"}
    BY <1>3, <1>5, OpenIs
  <2>3. /\ r \in CallRecords /\ r.src = Open(p) /\ r.got = <<>> /\ NoWrite.pc = "none"
        /\ r.pc = "read" /\ r.part = b
    BY <1>0, <1>1, <2>2 DEF CallRecords, IdleCall, NoWrite
  <2>4. Joined(r, NoWrite)
    BY FilesAssumption DEF Joined, IdleCall, NoWrite, Active, Filling
  <2> HIDE DEF r
  <2>5. /\ call' \in [Calls -> CallRecords] /\ wr' \in [Calls -> WriteRecords] /\ Others({c})
        /\ call'[c] = r /\ wr'[c] = NoWrite
    BY <1>1, <1>2, <2>1, <2>3, RecordsOf DEF Others
  <2>6. ~r.part => p \in Paths
    BY <2>2, <2>3, KindsApart DEF b
  <2>7. QED BY <1>2, <2>2, <2>3, <2>4, <2>5, <2>6, BeginInv
<1>6. QED BY <1>4, <1>5

\* A step that writes no data.
LEMMA SettleStays ==
    ASSUME FilesInv, Settle(data, raw)
    PROVE  /\ data' \in [Inodes -> Contents] /\ raw' \subseteq Inodes
           /\ \A i \in Held' : Same(i)
           /\ \A C \in SUBSET Calls : OwnData(C)
           /\ \A i \in raw' : i \in raw
           /\ Freed'
<1>1. data \in [Inodes -> Contents] /\ raw \in SUBSET Inodes
  BY DEF FilesInv, FilesTyped
<1>2. /\ data' \in [Inodes -> Contents] /\ raw' \subseteq Inodes
      /\ \A i \in Held' : data'[i] = data[i] /\ (i \in raw' <=> i \in raw)
      /\ Freed'
  BY <1>1, SettleLeaves
<1>3. \A i \in raw' : i \in raw
  BY DEF Settle
<1>4. \A C \in SUBSET Calls : OwnData(C)
  BY <1>2 DEF OwnData, Kept
<1>5. QED BY <1>2, <1>3, <1>4 DEF Same

LEMMA AnswerInv ==
    ASSUME FilesInv, NEW c \in Calls, Answer(c), done' = done
    PROVE  FilesInv'
<1>1. Joined(call[c], wr[c]) /\ NoWrite \in WriteRecords /\ lost \subseteq TempPaths
  BY RecordsOf
<1>2. /\ wr[c].pc = "done" /\ Return(c) /\ wr' = [wr EXCEPT ![c] = NoWrite]
      /\ UNCHANGED <<tree, lost, done>> /\ Settle(data, raw)
  BY DEF Answer
<1>3. /\ call' \in [Calls -> CallRecords] /\ \A d \in Calls \ {c} : call'[d] = call[d]
      /\ call'[c] = IdleCall
  BY <1>2, ReturnIs
<1>4. wr' \in [Calls -> WriteRecords] /\ Others({c}) /\ wr'[c] = NoWrite
  BY <1>1, <1>2, <1>3, RecordsOf DEF Others
<1>5. /\ Joined(IdleCall, NoWrite) /\ IdleCall.src = None
      /\ NoWrite.pc = "none" /\ NoWrite.ino = None /\ NoWrite.tmp = None
  BY FilesAssumption DEF Joined, IdleCall, NoWrite, Active, Filling, OverLimit
<1>6. CallData(c)'
  BY <1>3, <1>4, <1>5, NoData, FilesAssumption
<1>7. tree' \in [AllPaths -> Inodes \cup {"none", "dir"}]
  BY <1>2 DEF FilesInv, FilesTyped
<1>8. \A p \in TempPaths : ~Keeps(c, p)
  BY <1>2, KeepsNone
<1>9. None \notin TempPaths /\ None \notin Inodes /\ "none" \notin Filling
  BY FilesAssumption DEF AllPaths, Filling
<1>10. QED BY <1>1, <1>2, <1>3, <1>4, <1>5, <1>6, <1>7, <1>8, <1>9, SettleStays, QuietInv

\* A step of a download, whose file system stays as it is.
LEMMA ReadInv ==
    ASSUME FilesInv, NEW c \in Calls, call[c].pc \in {"read", "last"},
           UNCHANGED <<tree, wr, lost, done>>, Settle(data, raw),
           call' \in [Calls -> CallRecords], \A d \in Calls \ {c} : call'[d] = call[d],
           Joined(call'[c], wr[c]), CallData(c)'
    PROVE  FilesInv'
<1>1. call[c] \in CallRecords /\ wr[c] \in WriteRecords /\ Joined(call[c], wr[c]) /\ lost \subseteq TempPaths
  BY RecordsOf
<1>2. wr[c].pc \in {"none", "done"}
  BY <1>1 DEF Joined, Active, WriteRecords
<1>3. tree' \in [AllPaths -> Inodes \cup {"none", "dir"}] /\ wr' \in [Calls -> WriteRecords]
  BY RecordsOf DEF FilesInv, FilesTyped
<1>4. \A p \in TempPaths : ~Keeps(c, p)
  BY <1>2, KeepsNone
<1>5. Others({c})
  BY DEF Others
<1>6. wr[c].pc \notin Filling
  BY <1>2 DEF Filling
<1>7. QED BY <1>1, <1>3, <1>4, <1>5, <1>6, SettleStays, QuietInv

LEMMA ReadReturnsInv ==
    ASSUME FilesInv, NEW c \in Calls, call[c].pc \in {"read", "last"}, Return(c),
           UNCHANGED <<tree, wr, lost, done>>, Settle(data, raw)
    PROVE  FilesInv'
<1>1. call[c] \in CallRecords /\ wr[c] \in WriteRecords /\ Joined(call[c], wr[c])
  BY RecordsOf
<1>2. wr[c].pc \in {"none", "done"}
  BY <1>1 DEF Joined, Active, WriteRecords
<1>3. /\ call' \in [Calls -> CallRecords] /\ \A d \in Calls \ {c} : call'[d] = call[d]
      /\ call'[c] = IdleCall
  BY <1>2, ReturnIs
<1>4. Joined(IdleCall, wr[c])
  BY <1>1, <1>2, FilesAssumption DEF Joined, IdleCall, Active, Filling
<1>5. CallData(c)'
  BY <1>2, <1>3, FilesAssumption DEF CallData, Reads, IdleCall
<1>6. QED BY <1>3, <1>4, <1>5, ReadInv

LEMMA DownloadReadInv ==
    ASSUME FilesInv, NEW c \in Calls, DownloadRead(c), done' = done
    PROVE  FilesInv'
<1> DEFINE src == call[c].src
           at == Len(call[c].got) + 1
           end == [call[c] EXCEPT !.pc = "last"]
<1>1. call[c] \in CallRecords /\ wr[c] \in WriteRecords /\ Joined(call[c], wr[c]) /\ CallData(c)
  BY RecordsOf
<1>2. call[c].pc = "read" /\ UNCHANGED <<tree, wr, lost, done>> /\ Settle(data, raw)
  BY DEF DownloadRead
<1>3. wr[c].pc \in {"none", "done"} /\ call[c].op = "download"
  BY <1>1, <1>2 DEF Joined, Active, WriteRecords
<1>4. src \in Inodes => call[c].got \in Seq(Chunks) /\ data[src] \in Seq(Chunks)
  BY <1>1, ContentsAre DEF CallRecords, FilesInv, FilesTyped
<1>5. CASE src \in Inodes /\ at <= Len(data[src]) /\ call' = [call EXCEPT ![c].got = Append(@, data[src][at])]
  <2>1. data[src][at] \in Chunks
    <3>1. at \in 1..Len(data[src])
      BY <1>4, <1>5
    <3>2. QED BY <1>4, <1>5, <3>1, ElementOfSeq
  <2>2. Append(call[c].got, data[src][at]) \in Seq(Chunks)
    BY <1>4, <1>5, <2>1
  <2>3. PICK g \in Seq(Chunks) : g = Append(call[c].got, data[src][at])
    BY <2>2
  <2>4. call' = [call EXCEPT ![c] = [call[c] EXCEPT !.got = g]]
    BY <1>5, <2>3
  <2>5. /\ call' \in [Calls -> CallRecords] /\ \A d \in Calls \ {c} : call'[d] = call[d]
        /\ call'[c] = [call[c] EXCEPT !.got = g]
    BY <1>1, <2>4, RecordsOf DEF CallRecords
  <2>6. /\ call'[c].pc = "read" /\ call'[c].op = call[c].op /\ call'[c].path = call[c].path
        /\ call'[c].pipe = call[c].pipe /\ call'[c].src = src /\ call'[c].sent = call[c].sent
        /\ call'[c].n = call[c].n /\ call'[c].got = g /\ call'[c].part = call[c].part
    BY <1>1, <1>2, <2>5 DEF CallRecords
  <2>7. Joined(call'[c], wr[c])
    BY <1>1, <1>2, <2>6 DEF Joined
  <2>8. Same(src)
    <3>1. src \in Held'
      BY <1>5, <2>6 DEF Held
    <3>2. QED BY <1>2, <3>1, SettleStays
  <2>9. Reads(c)' => Reads(c)
    BY <1>5, <2>6, <2>8 DEF Reads, Same
  <2>10. Reads(c) => IsStartOf(g, data[src])
    <3>1. SUFFICES ASSUME Reads(c) PROVE IsStartOf(g, data[src])
      OBVIOUS
    <3>2. IsStartOf(call[c].got, data[src])
      BY <1>1, <1>2, <3>1 DEF CallData
    <3>3. QED BY <1>4, <1>5, <2>3, <3>2, StartGrows
  <2> HIDE DEF src
  <2>11. CallData(c)'
    BY <1>1, <1>2, <1>3, <2>6, <2>8, <2>9, <2>10 DEF CallData, Settled, Same, src
  <2>12. QED BY <1>2, <2>5, <2>7, <2>11, ReadInv
<1>6. CASE src \in Inodes /\ at > Len(data[src]) /\ call' = [call EXCEPT ![c].pc = "last"]
  <2>1. /\ end \in CallRecords
        /\ end.pc = "last" /\ end.op = call[c].op /\ end.path = call[c].path
        /\ end.pipe = call[c].pipe /\ end.src = src /\ end.sent = call[c].sent
        /\ end.n = call[c].n /\ end.got = call[c].got /\ end.part = call[c].part
    BY <1>1 DEF CallRecords
  <2> HIDE DEF end
  <2>2. /\ call' \in [Calls -> CallRecords] /\ \A d \in Calls \ {c} : call'[d] = call[d]
        /\ call'[c] = end
    <3>1. call' = [call EXCEPT ![c] = end]
      BY <1>6 DEF end
    <3>2. QED BY <2>1, <3>1, RecordsOf
  <2>3. Joined(call'[c], wr[c])
    BY <1>1, <1>2, <1>6, <2>1, <2>2 DEF Joined
  <2>4. Same(src)
    <3>1. src \in Held'
      BY <1>6, <2>1, <2>2 DEF Held
    <3>2. QED BY <1>2, <3>1, SettleStays
  <2>5. Reads(c)' => Reads(c)
    BY <1>6, <2>1, <2>2, <2>4 DEF Reads, Same
  <2>6. Reads(c) => Whole(call[c].got)
    <3>1. SUFFICES ASSUME Reads(c) PROVE Whole(call[c].got)
      OBVIOUS
    <3>2. IsStartOf(call[c].got, data[src]) /\ Whole(data[src])
      BY <1>1, <1>2, <3>1 DEF CallData, Settled
    <3>3. call[c].got = data[src]
      BY <1>4, <1>6, <3>2, StartIsAll
    <3>4. QED BY <3>2, <3>3
  <2> HIDE DEF src
  <2>7. CallData(c)'
    BY <1>1, <1>2, <1>3, <2>1, <2>2, <2>4, <2>5, <2>6 DEF CallData, Settled, Same, src
  <2>8. QED BY <1>2, <2>2, <2>3, <2>7, ReadInv
<1>7. CASE Return(c)
  BY <1>2, <1>7, ReadReturnsInv
<1>8. QED BY <1>5, <1>6, <1>7 DEF DownloadRead

LEMMA DownloadLastInv ==
    ASSUME FilesInv, NEW c \in Calls, DownloadLast(c), done' = done
    PROVE  FilesInv'
  BY ReadReturnsInv DEF DownloadLast

-----------------------------------------------------------------------------
(* manager.Write.                                                            *)

\* What is known of a call whose Write has no file open, and that reads on from the
\* file it has opened.
LEMMA ClosedData ==
    ASSUME FilesInv, NEW c \in Calls, Others({c}), OwnData({c}),
           wr'[c].ino = None, wr'[c].pc \notin Filling, call'[c].pc \notin {"read", "last"},
           call'[c].src \in Inodes => call'[c].src = call[c].src /\ call'[c].part = call[c].part,
           wr'[c].pc \in {"remove", "done"} /\ wr'[c].res = "ok" /\ wr'[c].tmp \notin lost'
             /\ call'[c].op = "upload" /\ call'[c].pc # "idle" => wr'[c].put = call'[c].n
    PROVE  CallData(c)'
<1>1. FreshOnly
  BY FilesAssumption DEF FreshOnly, Others
<1>2. ASSUME Reads(c)' PROVE SettledAfter(call'[c].src)
  <2>1. /\ call'[c].src \in Inodes \ raw' /\ ~call'[c].part
        /\ call'[c].src = call[c].src /\ call'[c].part = call[c].part
    BY <1>2 DEF Reads
  <2>2. call[c].src \in Held /\ call[c].src \in Held'
    BY <2>1 DEF Held
  <2>3. call[c].src \notin raw
    BY <2>1, <2>2 DEF OwnData
  <2>4. Settled(call[c].src)
    BY <2>1, <2>3 DEF FilesInv, CallData, Reads
  <2>5. QED BY <1>1, <2>1, <2>2, <2>4, SettledKept
<1>3. QED BY <1>2 DEF CallData, Settled, SettledAfter, Filling

LEMMA WriteReturnsIs ==
    ASSUME FilesInv, NEW c \in Calls, NEW w \in WriteRecords, WriteReturns(c, w),
           w.ino = None, wr[c].pc \in Active
    PROVE  /\ call' \in [Calls -> CallRecords] /\ wr' \in [Calls -> WriteRecords] /\ Others({c})
           /\ Joined(call'[c], wr'[c]) /\ wr'[c].pc \in {"none", "done"} /\ wr'[c].ino = None
           /\ wr'[c].tmp \in {None, w.tmp} /\ call'[c].pc \notin {"read", "last"}
           /\ call[c].src \in Inodes => call'[c].src = call[c].src
           /\ call'[c].src \in Inodes => call'[c].src = call[c].src /\ call'[c].part = call[c].part
           /\ call'[c].pc # "idle" =>
                /\ call'[c] = call[c] /\ wr'[c].res = w.res /\ wr'[c].put = w.put
                /\ wr'[c].tmp = w.tmp
<1> DEFINE ended == [w EXCEPT !.pc = "done"]
<1>1. /\ call[c] \in CallRecords /\ Joined(call[c], wr[c])
      /\ IdleCall \in CallRecords /\ NoWrite \in WriteRecords
  BY RecordsOf
<1>2. CASE call[c].pc = "idle"
  <2>1. wr' = [wr EXCEPT ![c] = NoWrite] /\ call' = [call EXCEPT ![c] = IdleCall]
    BY <1>2 DEF WriteReturns
  <2>2. /\ call' \in [Calls -> CallRecords] /\ wr' \in [Calls -> WriteRecords] /\ Others({c})
        /\ call'[c] = IdleCall /\ wr'[c] = NoWrite
    BY <1>1, <2>1, RecordsOf DEF Others
  <2>3. /\ Joined(IdleCall, NoWrite) /\ IdleCall.src = None /\ IdleCall.pc = "idle"
        /\ NoWrite.pc = "none" /\ NoWrite.ino = None /\ NoWrite.tmp = None
    BY FilesAssumption DEF Joined, IdleCall, NoWrite, Active, Filling, OverLimit
  <2>4. call[c].src = None
    BY <1>1, <1>2 DEF Joined
  <2>5. QED BY <2>2, <2>3, <2>4, FilesAssumption
<1>3. CASE call[c].pc # "idle"
  <2>1. wr' = [wr EXCEPT ![c] = ended] /\ UNCHANGED call
    BY <1>3 DEF WriteReturns
  <2>2. /\ ended \in WriteRecords /\ ended.pc = "done" /\ ended.ino = None /\ ended.res = w.res
        /\ ended.put = w.put /\ ended.tmp = w.tmp
    BY DEF WriteRecords
  <2> HIDE DEF ended
  <2>3. /\ call' \in [Calls -> CallRecords] /\ wr' \in [Calls -> WriteRecords] /\ Others({c})
        /\ call'[c] = call[c] /\ wr'[c] = ended
    BY <2>1, <2>2, RecordsOf DEF Others
  <2>4. ~(call[c].pc = "recv" /\ call[c].sent = 0) /\ call[c].pc \notin {"read", "last"}
    BY <1>1 DEF Joined, Active
  <2>5. Joined(call'[c], wr'[c])
    BY <1>1, <2>2, <2>3, <2>4 DEF Joined, Active, Filling
  <2>6. QED BY <2>2, <2>3, <2>4, <2>5
<1>4. QED BY <1>2, <1>3

\* Write returns, and nothing is at its temporary name.
LEMMA ReturnedInv ==
    ASSUME FilesInv, NEW c \in Calls, NEW w \in WriteRecords, WriteReturns(c, w), w.ino = None,
           wr[c].pc \in Active, w.tmp \in {None, wr[c].tmp}, UNCHANGED <<lost, done>>,
           data' \in [Inodes -> Contents], raw' \subseteq Inodes, raw' \subseteq raw,
           OwnData({c}), Freed',
           tree' \in [AllPaths -> Inodes \cup {"none", "dir"}],
           \A p \in AllPaths : tree'[p] # "none" => tree'[p] = tree[p],
           \A p \in TempPaths : tree'[p] # "none" => ~Keeps(c, p),
           w.res = "ok" /\ w.tmp \notin lost /\ call[c].op = "upload" => w.put = call[c].n \/ call[c].pc = "idle"
    PROVE  FilesInv'
<1>1. /\ call' \in [Calls -> CallRecords] /\ wr' \in [Calls -> WriteRecords] /\ Others({c})
      /\ Joined(call'[c], wr'[c]) /\ wr'[c].pc \in {"none", "done"} /\ wr'[c].ino = None
      /\ wr'[c].tmp \in {None, w.tmp} /\ call'[c].pc \notin {"read", "last"}
      /\ call'[c].src \in Inodes => call'[c].src = call[c].src /\ call'[c].part = call[c].part
      /\ call'[c].pc # "idle" =>
           /\ call'[c] = call[c] /\ wr'[c].res = w.res /\ wr'[c].put = w.put
           /\ wr'[c].tmp = w.tmp
  BY WriteReturnsIs
<1>2. wr'[c].pc \notin Filling
  BY <1>1 DEF Filling
<1>3. CallData(c)'
  BY <1>1, <1>2, ClosedData
<1>4. \A p \in AllPaths : tree'[p] \in Inodes => tree'[p] = tree[p]
  BY FilesAssumption
<1>5. \A p \in TempPaths : tree'[p] # "none" => tree'[p] = tree[p]
  BY DEF AllPaths
<1>6. wr'[c].tmp \in TempPaths => wr'[c].tmp = wr[c].tmp
  BY <1>1, FilesAssumption DEF AllPaths
<1>7. QED BY <1>1, <1>2, <1>3, <1>4, <1>5, <1>6, RecordsOf, QuietInv

\* Write fails before it has made a temporary file.
LEMMA RefusedInv ==
    ASSUME FilesInv, NEW c \in Calls, WriteRefused(c), wr[c].pc \in {"start", "temp"},
           UNCHANGED <<lost, done>>, data' \in [Inodes -> Contents], raw' \subseteq Inodes,
           raw' \subseteq raw, OwnData({c}), Freed'
    PROVE  FilesInv'
<1> DEFINE w == [NoWrite EXCEPT !.res = "err"]
<1>1. WriteReturns(c, w) /\ tree' = tree
  BY DEF WriteRefused
<1>2. w \in WriteRecords /\ w.ino = None /\ w.tmp = None /\ w.res = "err"
  BY DEF WriteRecords, NoWrite
<1> HIDE DEF w
<1>3. \A p \in TempPaths : ~Keeps(c, p)
  BY KeepsNone
<1>4. tree' \in [AllPaths -> Inodes \cup {"none", "dir"}] /\ wr[c].pc \in Active
  BY <1>1 DEF FilesInv, FilesTyped, Active
<1>5. QED BY <1>1, <1>2, <1>3, <1>4, ReturnedInv

LEMMA WriteStartInv ==
    ASSUME FilesInv, NEW c \in Calls, WriteStart(c), done' = done
    PROVE  FilesInv'
<1>1. call[c] \in CallRecords /\ wr[c] \in WriteRecords /\ Joined(call[c], wr[c]) /\ CallData(c)
  BY RecordsOf
<1>2. wr[c].pc = "start" /\ UNCHANGED <<lost, data, raw, done>>
  BY DEF WriteStart
<1>3. wr[c].ino = None /\ wr[c].tmp = None /\ call[c].pc \notin {"read", "last"}
  BY <1>1, <1>2 DEF Joined, Active, Filling
<1>4. /\ tree \in [AllPaths -> Inodes \cup {"none", "dir"}]
      /\ data' \in [Inodes -> Contents] /\ raw' \subseteq Inodes /\ raw' \subseteq raw
  BY <1>2 DEF FilesInv, FilesTyped
<1>5. CASE WriteRefused(c)
  <2> DEFINE w == [NoWrite EXCEPT !.res = "err"]
  <2>1. WriteReturns(c, w) /\ tree' = tree
    BY <1>5 DEF WriteRefused
  <2>2. w \in WriteRecords /\ w.ino = None
    BY DEF WriteRecords, NoWrite
  <2> HIDE DEF w
  <2>3. Others({c}) /\ (call[c].src \in Inodes => call'[c].src = call[c].src)
    BY <1>2, <2>1, <2>2, WriteReturnsIs DEF Active
  <2>4. Freed' /\ OwnData({c})
    BY <1>2, <1>3, <2>1, <2>3, FilesAssumption, FreedKept
  <2>5. QED BY <1>2, <1>4, <1>5, <2>4, RefusedInv
<1>6. CASE /\ ResolvePath(call[c].path) /\ tree' = MkdirAll(tree, Parent(call[c].path))
           /\ wr' = [wr EXCEPT ![c].pc = "temp"] /\ UNCHANGED call
           /\ call[c].pc # "idle"
  <2> DEFINE w == [wr[c] EXCEPT !.pc = "temp"]
  <2>1. call[c].path \in AllPaths
    <3>1. call[c].path # Outside
      BY <1>6 DEF ResolvePath
    <3>2. call[c].path \in AllPaths \cup {Outside}
      BY <1>1, <1>2 DEF Joined, Active
    <3>3. QED BY <3>1, <3>2
  <2>2. /\ tree' \in [AllPaths -> Inodes \cup {"none", "dir"}]
        /\ \A q \in AllPaths :
             \/ tree'[q] = tree[q]
             \/ q \in Paths /\ tree[q] \in {"none", "dir"} /\ tree'[q] = "dir"
    BY <1>4, <1>6, <2>1, MkdirKeeps DEF ResolvePath
  <2>3. w \in WriteRecords /\ w.pc = "temp" /\ w.ino = wr[c].ino /\ w.tmp = wr[c].tmp
    BY <1>1 DEF WriteRecords
  <2> HIDE DEF w
  <2>4. wr' \in [Calls -> WriteRecords] /\ Others({c}) /\ wr'[c] = w /\ call'[c] = call[c]
    BY <1>6, <2>3, RecordsOf DEF Others, w
  <2>5. Joined(call'[c], wr'[c])
    BY <1>1, <1>2, <1>3, <2>1, <2>3, <2>4 DEF Joined, Active, Filling
  <2>6. /\ \A p \in AllPaths : tree'[p] \in Inodes => tree'[p] = tree[p]
        /\ \A p \in AllPaths : tree[p] \in Inodes => tree'[p] = tree[p]
        /\ \A p \in TempPaths : tree'[p] = tree[p]
    BY <2>2, KindsApart, FilesAssumption DEF AllPaths
  <2>7. Freed' /\ OwnData({c})
    BY <1>2, <2>3, <2>4, <2>6, FreedKept
  <2>8. wr'[c].pc \notin Filling /\ wr'[c].pc \notin {"remove", "done"} /\ wr'[c].ino = None
    BY <1>3, <2>3, <2>4 DEF Filling
  <2>9. CallData(c)'
    BY <1>3, <2>4, <2>7, <2>8, ClosedData
  <2>10. \A p \in TempPaths : ~Keeps(c, p)
    BY <1>2, KeepsNone
  <2>11. call' \in [Calls -> CallRecords] /\ lost' \subseteq TempPaths
    BY <1>2, <1>6, RecordsOf
  <2>12. QED BY <1>2, <1>4, <2>2, <2>3, <2>4, <2>5, <2>6, <2>7, <2>8, <2>9, <2>10, <2>11, QuietInv
<1>7. QED BY <1>5, <1>6 DEF WriteStart

\* A file is made: its inode and its name are in no one's use.
LEMMA WriteTempInv ==
    ASSUME FilesInv, NEW c \in Calls, WriteTemp(c), done' = done
    PROVE  FilesInv'
<1> DEFINE dir == Parent(call[c].path)
           m == CHOOSE n \in NewNames : TRUE
           t == Append(dir, m)
<1>1. call[c] \in CallRecords /\ wr[c] \in WriteRecords /\ Joined(call[c], wr[c]) /\ CallData(c)
  BY RecordsOf
<1>2. wr[c].pc = "temp" /\ done' = done /\ Settle(data, raw)
  BY DEF WriteTemp
<1>3. /\ data' \in [Inodes -> Contents] /\ raw' \subseteq Inodes /\ raw' \subseteq raw
      /\ \A i \in Held' : Same(i)
      /\ OwnData({c}) /\ Freed'
  BY <1>2, SettleStays
<1>4. CASE WriteRefused(c) /\ UNCHANGED lost
  BY <1>2, <1>3, <1>4, RefusedInv
<1>5. CASE /\ Room(dir) /\ tree' = [tree EXCEPT ![t] = Fresh]
           /\ wr' = [wr EXCEPT ![c].pc = "copy", ![c].tmp = t, ![c].ino = Fresh]
           /\ lost' = IF call[c].pc = "idle" /\ call[c].pipe = "empty" THEN lost \cup {t} ELSE lost \ {t}
           /\ UNCHANGED call
  <2> DEFINE w == [wr[c] EXCEPT !.pc = "copy", !.tmp = t, !.ino = Fresh]
  <2>1. call[c].path \in AllPaths /\ wr[c].ino = None /\ wr[c].tmp = None
    BY <1>1, <1>2 DEF Joined, Filling
  <2>2. m \in NewNames
    BY <1>5 DEF Room
  <2> HIDE DEF m
  <2>3. /\ m \in Temps
        /\ \A q \in AllPaths : Name(q) = m => tree[q] = "none"
        /\ \A d \in Calls : wr[d].tmp # None => Name(wr[d].tmp) # m
    BY <2>2 DEF NewNames
  <2>4. t \in TempPaths /\ Name(t) = m
    BY <2>1, <2>3, DirOf
  <2>5. Fresh \in Inodes /\ Fresh \notin Held
    <3>1. \E i \in Inodes : i \notin Held
      BY <1>5 DEF Room, Held
    <3>2. QED BY <3>1 DEF Fresh
  <2> HIDE DEF t, dir
  <2>6. tree \in [AllPaths -> Inodes \cup {"none", "dir"}] /\ t \in AllPaths /\ tree[t] = "none"
    BY <2>3, <2>4 DEF FilesInv, FilesTyped, AllPaths
  <2>7. /\ tree' \in [AllPaths -> Inodes \cup {"none", "dir"}] /\ tree'[t] = Fresh
        /\ \A p \in AllPaths : p # t => tree'[p] = tree[p]
    BY <1>5, <2>5, <2>6
  <2>8. w \in WriteRecords /\ w.pc = "copy" /\ w.tmp = t /\ w.ino = Fresh
    BY <1>1, <2>4, <2>5 DEF WriteRecords
  <2> HIDE DEF w
  <2>9. wr' = [wr EXCEPT ![c] = w]
    BY <1>5, RecordsOf DEF w
  <2>10. /\ wr' \in [Calls -> WriteRecords] /\ Others({c}) /\ wr'[c] = w
         /\ \A d \in Calls : call'[d] = call[d]
    <3>1. UNCHANGED call
      BY <1>5
    <3>2. QED BY <2>8, <2>9, <3>1, RecordsOf DEF Others
  <2>11. call[c].pc = "idle" /\ call[c].pipe = "empty" => t \in lost'
    BY <1>5, <2>4, RecordsOf
  <2>12. \A p : p # t => (p \in lost' <=> p \in lost)
    BY <1>5
  <2>13. FilesTyped'
    <3>1. call' \in [Calls -> CallRecords]
      BY <1>5, RecordsOf
    <3>2. lost' \subseteq TempPaths
      BY <1>5, <2>4, RecordsOf
    <3>3. QED BY <1>2, <1>3, <2>7, <2>10, <3>1, <3>2 DEF FilesInv, FilesTyped
  <2>14. Joined(call'[c], wr'[c])
    BY <1>1, <1>2, <2>1, <2>4, <2>5, <2>8, <2>10 DEF Joined, Active, Filling
  <2>15. /\ \A p \in AllPaths : tree[p] # Fresh
         /\ \A d \in Calls : call[d].src # Fresh /\ wr[d].ino # Fresh
    BY <2>5 DEF Held
  <2>16. FreshOnly
    BY <2>5, <2>8, <2>10 DEF FreshOnly, Others
  <2>17. OnePath'
    BY <2>7, <2>15 DEF FilesInv, OnePath
  <2>18. \A d \in Calls \ {c} : wr'[d] = wr[d] /\ (wr[d].tmp \in TempPaths => Name(wr[d].tmp) # m)
    <3>1. None \notin TempPaths
      BY FilesAssumption DEF AllPaths
    <3>2. QED BY <2>3, <2>10, <3>1 DEF Others
  <2>19. OneWrite'
    <3>1. OneWrite
      BY DEF FilesInv
    <3>2. ASSUME NEW d \in Calls, NEW e \in Calls, d # e
          PROVE  /\ wr'[d].ino \in Inodes => wr'[d].ino # wr'[e].ino
                 /\ wr'[d].tmp \in TempPaths /\ wr'[e].tmp \in TempPaths
                      => Name(wr'[d].tmp) # Name(wr'[e].tmp)
      <4>1. CASE d = c
        BY <2>4, <2>8, <2>10, <2>15, <2>18, <3>2, <4>1
      <4>2. CASE e = c
        BY <2>4, <2>8, <2>10, <2>15, <2>18, <3>2, <4>2
      <4>3. CASE d # c /\ e # c
        BY <2>18, <3>1, <3>2, <4>3 DEF OneWrite
      <4>4. QED BY <4>1, <4>2, <4>3
    <3>3. QED BY <3>2 DEF OneWrite
  <2>20. Fresh \in Held' /\ Fresh \notin raw' /\ data'[Fresh] = <<>>
    <3>1. Fresh \in Held'
      BY <2>5, <2>6, <2>7 DEF Held
    <3>2. data[Fresh] = <<>> /\ Fresh \notin raw
      BY <2>5 DEF FilesInv, Freed
    <3>3. QED BY <1>3, <3>1, <3>2 DEF Same
  <2>21. Owned'
    <3>1. SUFFICES ASSUME NEW p \in TempPaths \ lost', tree'[p] # "none"
                   PROVE  \E d \in Calls : Keeps(d, p)'
      BY DEF Owned
    <3>2. CASE p = t
      <4>1. ~Deserted(c)'
        BY <2>10, <2>11, <3>1, <3>2 DEF Deserted
      <4>2. Keeps(c, p)'
        BY <2>7, <2>8, <2>10, <2>20, <3>2, <4>1 DEF Keeps, Filling
      <4>3. QED BY <4>2
    <3>3. CASE p # t
      <4>1. tree'[p] = tree[p] /\ p # None /\ p \notin lost
        BY <2>7, <2>12, <3>1, <3>3, FilesAssumption DEF AllPaths
      <4>2. PICK d \in Calls : Keeps(d, p)
        BY <3>1, <4>1 DEF FilesInv, Owned
      <4>3. d # c
        BY <2>1, <4>1, <4>2 DEF Keeps
      <4>4. Keeps(d, p)'
        BY <1>3, <2>10, <2>18, <4>1, <4>2, <4>3 DEF Keeps, Deserted
      <4>5. QED BY <4>4
    <3>4. QED BY <3>2, <3>3
  <2>22. Placed'
    <3>1. SUFFICES ASSUME NEW p \in AllPaths, tree'[p] \in Inodes \ raw', ~SettledAfter(tree'[p])
                   PROVE  /\ p \in TempPaths
                          /\ \A d \in Calls : wr'[d].pc \in Filling /\ Name(wr'[d].tmp) = Name(p)
                                                => wr'[d].ino = tree'[p]
      BY DEF Placed, Settled, SettledAfter
    <3>2. \A d \in Calls \ {c} : wr'[d].pc \in Filling => wr[d].tmp \in TempPaths
      BY <2>18 DEF FilesInv, Joined, Filling
    <3>3. CASE p = t
      BY <2>4, <2>7, <2>8, <2>10, <2>18, <3>2, <3>3
    <3>4. CASE p # t
      <4>1. tree'[p] = tree[p] /\ Name(p) # m
        BY <2>3, <2>7, <3>1, <3>4, FilesAssumption
      <4>2. tree[p] \in Held /\ tree[p] \in Held'
        BY <3>1, <4>1 DEF Held
      <4>3. tree[p] \notin raw
        BY <3>1, <4>1, <4>2, <1>3 DEF Same
      <4>4. ~Settled(tree[p])
        BY <1>3, <2>16, <3>1, <4>1, <4>2, SettledKept
      <4>5. /\ p \in TempPaths
            /\ \A d \in Calls : wr[d].pc \in Filling /\ Name(wr[d].tmp) = Name(p) => wr[d].ino = tree[p]
        BY <3>1, <4>1, <4>3, <4>4 DEF FilesInv, Placed
      <4>6. QED BY <2>4, <2>8, <2>10, <2>18, <4>1, <4>5
    <3>5. QED BY <3>3, <3>4
  <2>23. CallData(c)'
    <3>1. ASSUME Reads(c)' PROVE SettledAfter(call[c].src) /\ call[c].src \in Inodes
      <4>1. call[c].src \in Inodes \ raw' /\ ~call[c].part
        BY <2>10, <3>1 DEF Reads
      <4>2. call[c].src \in Held' /\ call[c].src \in Held
        BY <2>10, <4>1 DEF Held
      <4>3. call[c].src \notin raw
        BY <1>3, <4>1, <4>2 DEF Same
      <4>4. Settled(call[c].src)
        BY <1>1, <4>1, <4>3 DEF CallData, Reads
      <4>5. QED BY <1>3, <2>16, <4>1, <4>2, <4>4, SettledKept
    <3>2. Reads(c)' => IsStartOf(<<>>, data'[call[c].src])
      <4>1. call[c].src \in Inodes => data'[call[c].src] \in Seq(Chunks)
        BY <1>3, ContentsAre
      <4>2. QED BY <3>1, <4>1, NothingIsStart
    <3>3. /\ call[c].op = "upload" => call[c].sent = 1 /\ call[c].pipe = "full"
          /\ call[c].op = "copy" => call[c].sent = 0
          /\ call[c].pc \notin {"read", "last"}
      BY <1>1, <1>2 DEF Joined, Active
    <3>4. Sent(c, 1 - 1, call[c].n) = <<>>
      BY SentNothing
    <3>5. Len(<<>>) = 0
      OBVIOUS
    <3>6. QED BY <2>8, <2>10, <2>20, <3>1, <3>2, <3>3, <3>4, <3>5 DEF CallData, Settled, SettledAfter
  <2>24. ASSUME NEW d \in Calls \ {c} PROVE CallData(d)'
    <3>1. wr[d].tmp # t
      BY <2>4, <2>18
    <3>2. QED BY <1>3, <2>10, <2>12, <2>16, <3>1, OthersKept
  <2>25. \A d \in Calls : Joined(call'[d], wr'[d]) /\ CallData(d)'
    <3>1. \A d \in Calls \ {c} : Joined(call'[d], wr'[d])
      BY <2>10, <2>18 DEF FilesInv
    <3>2. QED BY <2>14, <2>23, <2>24, <3>1
  <2>26. QED BY <1>3, <2>13, <2>17, <2>19, <2>21, <2>22, <2>25 DEF FilesInv
<1>6. QED BY <1>4, <1>5 DEF WriteTemp

\* A Write that has a temporary file fails: it closes the file, and is going to remove it.
LEMMA WriteFailsIs ==
    ASSUME FilesInv, NEW c \in Calls, WriteFails(c)
    PROVE  /\ wr' \in [Calls -> WriteRecords] /\ \A d \in Calls \ {c} : wr'[d] = wr[d]
           /\ wr'[c].pc = "remove" /\ wr'[c].ino = None /\ wr'[c].tmp = wr[c].tmp
           /\ wr'[c].res = "err" /\ tree' = tree
<1> DEFINE w == [wr[c] EXCEPT !.pc = "remove", !.ino = None, !.res = "err"]
<1>1. wr[c] \in WriteRecords
  BY RecordsOf
<1>2. /\ w \in WriteRecords /\ w.pc = "remove" /\ w.ino = None /\ w.tmp = wr[c].tmp /\ w.res = "err"
  BY <1>1 DEF WriteRecords
<1> HIDE DEF w
<1>3. wr' = [wr EXCEPT ![c] = w] /\ tree' = tree
  BY RecordsOf DEF WriteFails, w
<1>4. QED BY <1>2, <1>3, RecordsOf

LEMMA FailsInv ==
    ASSUME FilesInv, NEW c \in Calls, WriteFails(c), UNCHANGED <<lost, done>>, Settle(data, raw),
           call' \in [Calls -> CallRecords], \A d \in Calls \ {c} : call'[d] = call[d],
           Joined(call'[c], wr'[c]), call'[c].pc \notin {"read", "last"},
           call'[c].src = call[c].src, call'[c].part = call[c].part
    PROVE  FilesInv'
<1>1. /\ wr' \in [Calls -> WriteRecords] /\ \A d \in Calls \ {c} : wr'[d] = wr[d]
      /\ wr'[c].pc = "remove" /\ wr'[c].ino = None /\ wr'[c].tmp = wr[c].tmp
      /\ wr'[c].res = "err" /\ tree' = tree
  BY WriteFailsIs
<1>2. Others({c}) /\ wr'[c].pc \notin Filling
  BY <1>1 DEF Others, Filling
<1>3. /\ data' \in [Inodes -> Contents] /\ raw' \subseteq Inodes /\ raw' \subseteq raw
      /\ OwnData({c}) /\ Freed'
  BY SettleStays
<1>4. CallData(c)'
  BY <1>1, <1>2, <1>3, ClosedData
<1>5. \A p \in TempPaths : Keeps(c, p) => Keeps(c, p)'
  BY <1>1 DEF Keeps
<1>6. tree' \in [AllPaths -> Inodes \cup {"none", "dir"}] /\ lost' \subseteq TempPaths
  BY <1>1 DEF FilesInv, FilesTyped
<1>7. QED BY <1>1, <1>2, <1>3, <1>4, <1>5, <1>6, QuietInv

\* A step of c that writes only into the file c has made.
LEMMA SettleOwn ==
    ASSUME FilesInv, NEW c \in Calls, NEW e \in [Inodes -> Contents], NEW r \in SUBSET Inodes,
           Settle(e, r), raw \subseteq r,
           \A i \in Inodes : i # wr[c].ino => e[i] = data[i] /\ (i \in r <=> i \in raw)
    PROVE  /\ data' \in [Inodes -> Contents] /\ raw' \subseteq Inodes
           /\ \A i \in Held' : data'[i] = e[i] /\ (i \in raw' <=> i \in r)
           /\ \A i \in raw' : i \in raw \/ i = wr[c].ino
           /\ OwnData({c}) /\ Freed'
<1>1. /\ data' \in [Inodes -> Contents] /\ raw' \subseteq Inodes
      /\ \A i \in Held' : data'[i] = e[i] /\ (i \in raw' <=> i \in r)
      /\ Freed'
  BY SettleLeaves
<1>2. Held' \subseteq Inodes
  BY DEF Held
<1>3. OwnData({c})
  BY <1>1, <1>2 DEF OwnData, Kept
<1>4. \A i \in raw' : i \in raw \/ i = wr[c].ino
  BY <1>1 DEF Freed
<1>5. QED BY <1>1, <1>3, <1>4

\* Such a step, of a call that goes on filling its file.
LEMMA CopyInv ==
    ASSUME FilesInv, NEW c \in Calls, UNCHANGED <<tree, lost, done>>,
           data' \in [Inodes -> Contents], raw' \subseteq Inodes, OwnData({c}), Freed',
           \A i \in raw' : i \in raw \/ i = wr[c].ino,
           call' \in [Calls -> CallRecords], wr' \in [Calls -> WriteRecords], Others({c}),
           Joined(call'[c], wr'[c]), wr'[c].ino = wr[c].ino, wr'[c].tmp = wr[c].tmp,
           wr[c].pc \in Filling, wr'[c].pc \in Filling, ~Deserted(c)',
           call'[c].op = call[c].op, call[c].op = "upload" => raw' \subseteq raw,
           CallData(c)'
    PROVE  FilesInv'
<1>1. \A p \in TempPaths : Keeps(c, p) => Keeps(c, p)'
  <2>1. wr[c].pc # "remove"
    BY DEF Filling
  <2>2. QED BY <2>1 DEF Keeps
<1>2. tree' \in [AllPaths -> Inodes \cup {"none", "dir"}] /\ lost' \subseteq TempPaths
  BY DEF FilesInv, FilesTyped
<1>3. QED BY <1>1, <1>2, QuietInv

\* No chunk of an upload is what SFTP leaves.
LEMMA SentIsSent ==
    ASSUME NEW c, NEW k \in Nat, NEW n
    PROVE  Sent(c, k, n) # <<Scribble>>
<1>1. SUFFICES ASSUME Sent(c, k, n) = <<Scribble>> PROVE FALSE
  OBVIOUS
<1>2. Len(<<Scribble>>) = 1 /\ <<Scribble>>[1] = Scribble
  OBVIOUS
<1>3. k = 1
  BY <1>1, <1>2, SentLen
<1>4. Sent(c, k, n)[1] = <<c, 1, n>>
  BY <1>3 DEF Sent
<1>5. <<c, 1, n>> = <<None, 0, 0>>
  BY <1>1, <1>2, <1>4 DEF Scribble
<1>6. QED BY <1>5

LEMMA WholeIsSent ==
    ASSUME NEW s, Whole(s)
    PROVE  s \in Seq(Chunks) /\ ~IsStartOf(<<Scribble>>, s)
<1>1. PICK c \in Calls, n \in 1..MaxChunks : s = Sent(c, n, n)
  BY DEF Whole, Sent
<1>2. n \in Nat /\ n >= 1 /\ Len(s) = n
  BY <1>1, SentLen, FilesAssumption
<1>3. s[1] = <<c, 1, n>>
  BY <1>1, <1>2 DEF Sent
<1>4. Len(<<Scribble>>) = 1 /\ <<Scribble>>[1] = <<None, 0, 0>>
  BY DEF Scribble
<1>5. IsStartOf(<<Scribble>>, s) => <<Scribble>>[1] = s[1]
  BY <1>4 DEF IsStartOf
<1>6. <<c, 1, n>> # <<None, 0, 0>>
  OBVIOUS
<1>7. s \in Seq(Chunks)
  <2>1. \A j \in 1..n : <<c, j, n>> \in Chunks
    BY <1>2, FilesAssumption DEF Chunks
  <2>2. s = [j \in 1..n |-> <<c, j, n>>]
    BY <1>1 DEF Sent
  <2>3. QED BY <1>2, <2>1, <2>2
<1>8. QED BY <1>3, <1>4, <1>5, <1>6, <1>7

LEMMA CopyFromPipeInv ==
    ASSUME FilesInv, NEW c \in Calls, CopyFromPipe(c), done' = done
    PROVE  FilesInv'
<1> DEFINE ino == wr[c].ino
           next == [call[c] EXCEPT !.pipe = "empty", !.pc = "recv"]
           chunk == <<c, call[c].sent, call[c].n>>
           ended == [wr[c] EXCEPT !.pc = "rename"]
<1>1. call[c] \in CallRecords /\ wr[c] \in WriteRecords /\ Joined(call[c], wr[c]) /\ CallData(c)
  BY RecordsOf
<1>2. wr[c].pc = "copy" /\ call[c].op = "upload" /\ UNCHANGED <<lost, done>> /\ wr[c].pc \in Filling
  BY DEF CopyFromPipe, Filling
<1>3. /\ call[c].sent \in Nat /\ call[c].n \in 0..MaxChunks /\ call[c].sent <= call[c].n
      /\ ~OverLimit(call[c].sent) /\ call[c].src = None /\ ino \in Inodes
      /\ call[c].pc # "idle" => call[c].sent >= 1
      /\ call[c].pc \notin {"read", "last"}
  BY <1>1, <1>2 DEF CallRecords, Joined, Active
<1>4. /\ next \in CallRecords /\ next.part = call[c].part
      /\ next.pc = "recv" /\ next.pipe = "empty" /\ next.op = call[c].op /\ next.path = call[c].path
      /\ next.src = call[c].src /\ next.sent = call[c].sent /\ next.n = call[c].n
  BY <1>1 DEF CallRecords
<1>5. data \in [Inodes -> Contents] /\ raw \in SUBSET Inodes
  BY DEF FilesInv, FilesTyped
<1> HIDE DEF next
<1>6. ASSUME call[c].pipe = "full", call' = [call EXCEPT ![c].pipe = "empty", ![c].pc = "recv"]
      PROVE  /\ call' \in [Calls -> CallRecords] /\ \A d \in Calls \ {c} : call'[d] = call[d]
             /\ call'[c] = next /\ call[c].pc = "write"
  <2>1. call' = [call EXCEPT ![c] = next]
    BY <1>6, RecordsOf DEF next
  <2>2. call[c].pc = "write"
    BY <1>1, <1>6 DEF Joined
  <2>3. QED BY <1>4, <2>1, <2>2, RecordsOf
<1>7. CASE /\ call[c].pipe = "full" /\ call' = [call EXCEPT ![c].pipe = "empty", ![c].pc = "recv"]
           /\ UNCHANGED <<tree, wr>> /\ Settle(Put(ino, chunk), raw)
  <2> DEFINE e == Put(ino, chunk)
             full == Sent(c, call[c].sent, call[c].n)
  <2>1. /\ call' \in [Calls -> CallRecords] /\ Others({c}) /\ call'[c] = next /\ wr'[c] = wr[c]
        /\ wr' \in [Calls -> WriteRecords] /\ UNCHANGED tree /\ call[c].pc = "write"
    BY <1>6, <1>7, RecordsOf DEF Others
  <2>2. \/ ino \in raw /\ data[ino] = <<Scribble>>
        \/ data[ino] = Sent(c, call[c].sent - 1, call[c].n)
    BY <1>1, <1>2, <1>7, <2>1 DEF CallData
  <2>3. full \in Contents
    <3>1. call[c].sent \in 0..MaxChunks /\ call[c].n \in 1..MaxChunks
      BY <1>3, <2>1, FilesAssumption
    <3>2. \A j \in 1..call[c].sent : <<c, j, call[c].n>> \in Chunks
      BY <1>3, <3>1, FilesAssumption DEF Chunks
    <3>3. QED BY <3>1, <3>2 DEF Contents, Sent
  <2>4. data[ino] = Sent(c, call[c].sent - 1, call[c].n) => data[ino] # <<Scribble>> /\ Append(data[ino], chunk) = full
    <3>1. call[c].sent - 1 \in Nat /\ call[c].sent >= 1
      BY <1>3, <2>1
    <3>2. QED BY <1>3, <3>1, SentIsSent, SentNext
  <2> HIDE DEF full, chunk
  <2>5. /\ e \in [Inodes -> Contents] /\ \A i \in Inodes : i # ino => e[i] = data[i]
        /\ (ino \in raw /\ e[ino] = <<Scribble>>) \/ e[ino] = full
    <3>1. CASE ino \in raw /\ data[ino] = <<Scribble>>
      <4>1. e = [data EXCEPT ![ino] = data[ino]]
        BY <3>1 DEF Put
      <4>2. QED BY <1>3, <1>5, <3>1, <4>1
    <3>2. CASE data[ino] = Sent(c, call[c].sent - 1, call[c].n)
      <4>1. e = [data EXCEPT ![ino] = full]
        BY <2>4, <3>2 DEF Put
      <4>2. QED BY <1>3, <1>5, <2>3, <4>1
    <3>3. QED BY <2>2, <3>1, <3>2
  <2>6. Settle(e, raw)
    BY <1>7
  <2> HIDE DEF e
  <2>7. /\ data' \in [Inodes -> Contents] /\ raw' \subseteq Inodes /\ OwnData({c}) /\ Freed'
        /\ \A i \in Held' : data'[i] = e[i] /\ (i \in raw' <=> i \in raw)
        /\ \A i \in raw' : i \in raw \/ i = wr[c].ino
    <3>1. e \in [Inodes -> Contents] /\ raw \in SUBSET Inodes /\ raw \subseteq raw
      BY <1>5, <2>5
    <3>2. \A i \in Inodes : i # wr[c].ino => e[i] = data[i] /\ (i \in raw <=> i \in raw)
      BY <2>5
    <3>3. QED BY ONLY FilesInv, c \in Calls, <2>6, <3>1, <3>2, SettleOwn
  <2>8. raw' \subseteq raw
    BY <2>7 DEF Freed
  <2>9. Joined(call'[c], wr'[c])
    BY <1>1, <1>2, <1>3, <1>4, <1>7, <2>1 DEF Joined, Active, Filling
  <2>10. CallData(c)'
    <3>1. ino \in Held'
      BY <1>3, <2>1 DEF Held
    <3>2. (ino \in raw' /\ data'[ino] = <<Scribble>>) \/ data'[ino] = full
      BY <2>5, <2>7, <3>1
    <3>3. QED BY <1>2, <1>3, <1>4, <2>1, <3>2, FilesAssumption DEF CallData, Reads, full
  <2>11. ~Deserted(c)'
    BY <1>4, <2>1 DEF Deserted
  <2>12. QED BY <1>2, <1>4, <2>1, <2>7, <2>8, <2>9, <2>10, <2>11, CopyInv
<1>8. CASE /\ call[c].pipe = "full" /\ WriteFails(c) /\ Settle(data, raw)
           /\ call' = [call EXCEPT ![c].pipe = "empty", ![c].pc = "recv"] \/ UNCHANGED call
  <2>1. /\ wr'[c].pc = "remove" /\ wr'[c].ino = None /\ wr'[c].tmp = wr[c].tmp
    BY <1>8, WriteFailsIs
  <2>2. CASE call' = [call EXCEPT ![c].pipe = "empty", ![c].pc = "recv"]
    <3>1. /\ call' \in [Calls -> CallRecords] /\ \A d \in Calls \ {c} : call'[d] = call[d]
          /\ call'[c] = next /\ call[c].pc = "write"
      BY <1>6, <1>8, <2>2
    <3>2. Joined(call'[c], wr'[c])
      BY <1>1, <1>2, <1>3, <1>4, <1>8, <2>1, <3>1 DEF Joined, Active, Filling
    <3>3. QED BY <1>2, <1>4, <1>8, <3>1, <3>2, FailsInv
  <2>3. CASE UNCHANGED call
    <3>1. Joined(call'[c], wr'[c])
      BY <1>1, <1>2, <1>3, <1>8, <2>1, <2>3 DEF Joined, Active, Filling
    <3>2. QED BY <1>2, <1>3, <1>8, <2>3, <3>1, RecordsOf, FailsInv
  <2>4. QED BY <1>8, <2>2, <2>3
<1>9. CASE /\ call[c].pipe = "closed" /\ wr' = [wr EXCEPT ![c].pc = "rename"]
           /\ UNCHANGED <<tree, call>> /\ Settle(data, raw)
  <2>1. /\ ended \in WriteRecords /\ ended.pc = "rename" /\ ended.ino = ino /\ ended.tmp = wr[c].tmp
    BY <1>1 DEF WriteRecords
  <2>2. wr' = [wr EXCEPT ![c] = ended]
    BY <1>9
  <2> HIDE DEF ended
  <2>3. UNCHANGED call /\ UNCHANGED tree
    BY <1>9
  <2>4. wr' \in [Calls -> WriteRecords] /\ Others({c}) /\ wr'[c] = ended /\ call'[c] = call[c]
    BY <2>1, <2>2, <2>3, RecordsOf DEF Others
  <2>5. Joined(call'[c], wr'[c])
    BY <1>1, <1>2, <1>9, <2>1, <2>4 DEF Joined, Active, Filling
  <2>6. /\ data' \in [Inodes -> Contents] /\ raw' \subseteq Inodes /\ \A i \in Held' : Same(i)
        /\ OwnData({c}) /\ Freed' /\ raw' \subseteq raw
    BY <1>9, SettleStays
  <2>7. call[c].sent = call[c].n /\ call[c].pc = "wait"
    BY <1>1, <1>9 DEF Joined
  <2>8. Same(ino)
    <3>1. ino \in Held'
      BY <1>3, <2>1, <2>4 DEF Held
    <3>2. QED BY <2>6, <3>1
  <2>9. ino \in raw \/ data[ino] = Sent(c, call[c].n, call[c].n)
    BY <1>1, <1>2, <1>9, <2>7 DEF CallData
  <2>10. Whole(Sent(c, call[c].n, call[c].n)) /\ Len(Sent(c, call[c].n, call[c].n)) = call[c].n
    <3>1. call[c].n \in 1..MaxChunks /\ call[c].n \in Nat /\ ~OverLimit(call[c].n)
      BY <1>3, <2>7, FilesAssumption
    <3>2. QED BY <3>1, SentWhole, SentLen
  <2>11. CallData(c)'
    BY <1>2, <1>3, <2>1, <2>4, <2>7, <2>8, <2>9, <2>10, FilesAssumption DEF CallData, Reads, Same
  <2>12. ~Deserted(c)' /\ wr'[c].pc \in Filling
    BY <2>1, <2>4 DEF Deserted, Filling
  <2>13. QED BY <1>2, <2>1, <2>3, <2>4, <2>5, <2>6, <2>11, <2>12, RecordsOf, CopyInv
<1>10. CASE call[c].pipe = "broken" /\ WriteFails(c) /\ UNCHANGED call /\ Settle(data, raw)
  <2>1. wr'[c].pc = "remove" /\ wr'[c].ino = None /\ wr'[c].tmp = wr[c].tmp
    BY <1>10, WriteFailsIs
  <2>2. Joined(call'[c], wr'[c])
    BY <1>1, <1>2, <1>3, <1>10, <2>1 DEF Joined, Active, Filling
  <2>3. QED BY <1>2, <1>3, <1>10, <2>2, RecordsOf, FailsInv
<1>11. QED BY <1>7, <1>8, <1>9, <1>10 DEF CopyFromPipe

LEMMA CopyFromFileInv ==
    ASSUME FilesInv, NEW c \in Calls, CopyFromFile(c), done' = done
    PROVE  FilesInv'
<1> DEFINE ino == wr[c].ino
           src == call[c].src
           at == call[c].sent + 1
           ended == [wr[c] EXCEPT !.pc = "rename"]
<1>1. call[c] \in CallRecords /\ wr[c] \in WriteRecords /\ Joined(call[c], wr[c]) /\ CallData(c)
  BY RecordsOf
<1>2. wr[c].pc = "copy" /\ call[c].op = "copy" /\ UNCHANGED <<lost, done>> /\ wr[c].pc \in Filling
  BY DEF CopyFromFile, Filling
<1>3. ino \in Inodes /\ call[c].pc = "wait" /\ call[c].sent \in Nat
  BY <1>1, <1>2 DEF Joined, Active, CallRecords
<1>4. data \in [Inodes -> Contents] /\ raw \in SUBSET Inodes
  BY DEF FilesInv, FilesTyped
<1>5. data[ino] \in Seq(Chunks) /\ Len(data[ino]) <= MaxChunks
  BY <1>3, <1>4, ContentsAre
<1>6. src \in Inodes => data[src] \in Seq(Chunks) /\ Len(data[src]) <= MaxChunks
  BY <1>4, ContentsAre
<1>7. \/ ino \in raw /\ data[ino] = <<Scribble>>
      \/ /\ Len(data[ino]) <= call[c].sent
         /\ Reads(c) => Len(data[ino]) = call[c].sent /\ IsStartOf(data[ino], data[src])
  BY <1>1, <1>2 DEF CallData
<1>8. Reads(c) => Settled(src) /\ src # ino /\ Whole(data[src])
  BY <1>1 DEF CallData, Settled
<1>9. CASE /\ src \in Inodes /\ at <= Len(data[src]) /\ call' = [call EXCEPT ![c].sent = at]
           /\ UNCHANGED <<tree, wr>> /\ Settle(Put(ino, data[src][at]), raw)
  <2> DEFINE e == Put(ino, data[src][at])
             longer == Append(data[ino], data[src][at])
  <2>1. PICK k \in Nat : k = at
    BY <1>3
  <2> DEFINE next == [call[c] EXCEPT !.sent = k]
  <2>2. /\ next \in CallRecords /\ next.sent = at /\ next.op = call[c].op /\ next.pc = call[c].pc
        /\ next.path = call[c].path /\ next.pipe = call[c].pipe /\ next.src = src
        /\ next.part = call[c].part /\ next.n = call[c].n
    BY <1>1, <2>1 DEF CallRecords
  <2> HIDE DEF next
  <2>3. /\ call' \in [Calls -> CallRecords] /\ Others({c}) /\ call'[c] = next /\ wr'[c] = wr[c]
        /\ wr' \in [Calls -> WriteRecords] /\ UNCHANGED tree
    <3>1. call' = [call EXCEPT ![c] = next]
      BY <1>9, <2>1, RecordsOf DEF next
    <3>2. UNCHANGED wr /\ UNCHANGED tree
      BY <1>9
    <3>3. QED BY <2>2, <3>1, <3>2, RecordsOf DEF Others
  <2>4. data[src][at] \in Chunks
    <3>1. at \in 1..Len(data[src])
      BY <1>3, <1>6, <1>9
    <3>2. QED BY <1>6, <1>9, <3>1, ElementOfSeq
  <2>5. longer \in Seq(Chunks) /\ Len(longer) = Len(data[ino]) + 1
    BY <1>5, <2>4
  <2>6. Len(data[ino]) <= call[c].sent => longer \in Contents
    <3>1. Len(data[ino]) <= call[c].sent => Len(data[ino]) + 1 <= MaxChunks
      BY <1>3, <1>5, <1>6, <1>9, FilesAssumption
    <3> HIDE DEF longer
    <3>2. QED BY <2>5, <3>1, ContentsAre
  <2> HIDE DEF longer
  <2>7. /\ e \in [Inodes -> Contents] /\ \A i \in Inodes : i # ino => e[i] = data[i]
        /\ e[ino] = IF data[ino] = <<Scribble>> THEN data[ino] ELSE longer
    <3>1. CASE data[ino] = <<Scribble>>
      <4>1. e = [data EXCEPT ![ino] = data[ino]]
        BY <3>1 DEF Put
      <4>2. QED BY <1>3, <1>4, <3>1, <4>1
    <3>2. CASE data[ino] # <<Scribble>>
      <4>1. e = [data EXCEPT ![ino] = longer]
        BY <3>2 DEF Put, longer
      <4>2. longer \in Contents
        BY <1>7, <2>6, <3>2
      <4>3. QED BY <1>3, <1>4, <3>2, <4>1, <4>2
    <3>3. QED BY <3>1, <3>2
  <2>8. Settle(e, raw)
    BY <1>9
  <2> HIDE DEF e
  <2>9. /\ data' \in [Inodes -> Contents] /\ raw' \subseteq Inodes /\ OwnData({c}) /\ Freed'
        /\ \A i \in Held' : data'[i] = e[i] /\ (i \in raw' <=> i \in raw)
        /\ \A i \in raw' : i \in raw \/ i = wr[c].ino
    <3>1. e \in [Inodes -> Contents] /\ raw \in SUBSET Inodes /\ raw \subseteq raw
      BY <1>4, <2>7
    <3>2. \A i \in Inodes : i # wr[c].ino => e[i] = data[i] /\ (i \in raw <=> i \in raw)
      BY <2>7
    <3>3. QED BY ONLY FilesInv, c \in Calls, <2>8, <3>1, <3>2, SettleOwn
  <2>10. ino \in Held' /\ src \in Held'
    BY <1>3, <1>9, <2>2, <2>3 DEF Held
  <2>11. data'[ino] = (IF data[ino] = <<Scribble>> THEN data[ino] ELSE longer) /\ (ino \in raw' <=> ino \in raw)
    BY <2>7, <2>9, <2>10
  <2>12. ASSUME Reads(c)'
         PROVE  Reads(c) /\ SettledAfter(src) /\ data'[src] = data[src]
    <3>1. Reads(c)
      BY <1>9, <2>2, <2>3, <2>9, <2>10, <2>12 DEF Reads
    <3>2. data'[src] = data[src]
      BY <1>8, <1>9, <2>7, <2>9, <2>10, <3>1
    <3>3. \A d \in Calls : wr'[d].ino = wr[d].ino
      BY <2>3 DEF Others
    <3>4. QED BY <1>8, <3>1, <3>2, <3>3 DEF Settled, SettledAfter
  <2>13. \/ ino \in raw' /\ data'[ino] = <<Scribble>>
         \/ /\ Len(data'[ino]) <= at
            /\ Reads(c)' => Len(data'[ino]) = at /\ IsStartOf(data'[ino], data'[src])
    <3>1. CASE ino \in raw /\ data[ino] = <<Scribble>>
      BY <2>11, <3>1
    <3>2. CASE ~(ino \in raw /\ data[ino] = <<Scribble>>)
      <4>1. /\ Len(data[ino]) <= call[c].sent
            /\ Reads(c) => Len(data[ino]) = call[c].sent /\ IsStartOf(data[ino], data[src])
        BY <1>7, <3>2
      <4>2. Len(data[ino]) \in Nat
        BY <1>5
      <4>3. Len(data'[ino]) <= at
        BY <1>3, <2>5, <2>11, <4>1, <4>2
      <4>4. ASSUME Reads(c)' PROVE Len(data'[ino]) = at /\ IsStartOf(data'[ino], data'[src])
        <5>1. Reads(c) /\ data'[src] = data[src]
          BY <2>12, <4>4
        <5>2. data[ino] # <<Scribble>>
          BY <1>8, <4>1, <5>1, WholeIsSent
        <5>3. data'[ino] = longer
          BY <2>11, <5>2
        <5>4. Len(data[ino]) = call[c].sent /\ IsStartOf(data[ino], data[src])
          BY <4>1, <5>1
        <5>5. IsStartOf(Append(data[ino], data[src][Len(data[ino]) + 1]), data[src])
          BY <1>5, <1>6, <1>9, <5>4, StartGrows
        <5>6. QED BY <2>5, <5>1, <5>3, <5>4, <5>5 DEF longer
      <4>5. QED BY <4>3, <4>4
    <3>3. QED BY <3>1, <3>2
  <2>14. Joined(call'[c], wr'[c])
    BY <1>1, <1>2, <1>3, <2>2, <2>3 DEF Joined, Active
  <2>15. CallData(c)'
    BY <1>2, <1>3, <2>2, <2>3, <2>12, <2>13 DEF CallData, Settled, SettledAfter
  <2>16. ~Deserted(c)'
    BY <1>3, <2>2, <2>3 DEF Deserted
  <2>17. QED BY <1>2, <2>2, <2>3, <2>9, <2>14, <2>15, <2>16, CopyInv
<1>10. CASE /\ src \in Inodes /\ at > Len(data[src])
            /\ wr' = [wr EXCEPT ![c].pc = "rename"] /\ UNCHANGED <<tree, call>>
            /\ Settle(data, IF call[c].part \/ src \in raw THEN raw \cup {ino} ELSE raw)
  <2> DEFINE r == IF call[c].part \/ src \in raw THEN raw \cup {ino} ELSE raw
  <2>1. /\ ended \in WriteRecords /\ ended.pc = "rename" /\ ended.ino = ino /\ ended.tmp = wr[c].tmp
    BY <1>1 DEF WriteRecords
  <2>2. wr' = [wr EXCEPT ![c] = ended]
    BY <1>10
  <2>3. UNCHANGED tree /\ UNCHANGED call
    BY <1>10
  <2> HIDE DEF ended
  <2>4. wr' \in [Calls -> WriteRecords] /\ Others({c}) /\ wr'[c] = ended /\ call'[c] = call[c]
    BY <2>1, <2>2, <2>3, RecordsOf DEF Others
  <2>5. Joined(call'[c], wr'[c])
    BY <1>1, <1>2, <2>1, <2>4 DEF Joined, Active, Filling
  <2>6. /\ r \in SUBSET Inodes /\ raw \subseteq r
        /\ \A i \in Inodes : i # ino => (i \in r <=> i \in raw)
        /\ ino \notin r => ~call[c].part /\ src \notin raw /\ ino \notin raw
    BY <1>3, <1>4
  <2>7. Settle(data, r)
    BY <1>10
  <2> HIDE DEF r
  <2>8. /\ data' \in [Inodes -> Contents] /\ raw' \subseteq Inodes /\ OwnData({c}) /\ Freed'
        /\ \A i \in Held' : data'[i] = data[i] /\ (i \in raw' <=> i \in r)
        /\ \A i \in raw' : i \in raw \/ i = wr[c].ino
    <3>1. \A i \in Inodes : i # wr[c].ino => data[i] = data[i] /\ (i \in r <=> i \in raw)
      BY <2>6
    <3>2. data \in [Inodes -> Contents] /\ r \in SUBSET Inodes /\ raw \subseteq r
      BY <1>4, <2>6
    <3>3. QED BY ONLY FilesInv, c \in Calls, <2>7, <3>1, <3>2, SettleOwn
  <2>9. ino \in Held' /\ src \in Held'
    BY <1>3, <1>10, <2>1, <2>4 DEF Held
  <2>10. data'[ino] = data[ino] /\ data'[src] = data[src] /\ (ino \in raw' <=> ino \in r)
    BY <2>8, <2>9
  <2>11. ino \notin raw' => Whole(data'[ino])
    <3>1. SUFFICES ASSUME ino \notin raw' PROVE Whole(data[ino])
      BY <2>10
    <3>2. Reads(c) /\ ino \notin raw
      BY <1>10, <2>6, <2>10, <3>1 DEF Reads
    <3>3. Len(data[ino]) = call[c].sent /\ IsStartOf(data[ino], data[src]) /\ Whole(data[src])
      BY <1>7, <1>8, <3>2
    <3>4. data[ino] = data[src]
      BY <1>5, <1>6, <1>10, <3>3, StartIsAll
    <3>5. QED BY <3>3, <3>4
  <2>12. Reads(c)' => SettledAfter(src)
    <3>1. SUFFICES ASSUME Reads(c)' PROVE SettledAfter(src)
      OBVIOUS
    <3>2. Reads(c)
      BY <1>10, <2>4, <2>6, <2>8, <2>9, <3>1 DEF Reads
    <3>3. \A d \in Calls : wr'[d].ino = wr[d].ino
      BY <2>1, <2>4 DEF Others
    <3>4. QED BY <1>8, <2>10, <3>2, <3>3 DEF Settled, SettledAfter
  <2>13. CallData(c)'
    BY <1>2, <1>3, <2>1, <2>4, <2>11, <2>12 DEF CallData, Settled, SettledAfter
  <2>14. ~Deserted(c)' /\ wr'[c].pc \in Filling
    BY <2>1, <2>4 DEF Deserted, Filling
  <2>15. QED BY <1>2, <2>1, <2>3, <2>4, <2>5, <2>8, <2>13, <2>14, RecordsOf, CopyInv
<1>11. CASE WriteFails(c) /\ UNCHANGED call /\ Settle(data, raw)
  <2>1. wr'[c].pc = "remove" /\ wr'[c].ino = None /\ wr'[c].tmp = wr[c].tmp
    BY <1>11, WriteFailsIs
  <2>2. Joined(call'[c], wr'[c])
    BY <1>1, <1>2, <1>11, <2>1 DEF Joined, Active, Filling
  <2>3. QED BY <1>2, <1>3, <1>11, <2>2, RecordsOf, FailsInv
<1>12. QED BY <1>9, <1>10, <1>11 DEF CopyFromFile

\* Nothing lies below a temporary path.
LEMMA BelowTemp == ASSUME NEW a \in TempPaths PROVE Under(a) = {}
<1>1. SUFFICES ASSUME NEW r \in Under(a) PROVE FALSE
  OBVIOUS
<1>2. PICK x \in Names : a = <<x>>
  BY BelowOf DEF AllPaths
<1>3. a \in Paths
  BY <1>2 DEF Paths
<1>4. QED BY <1>3, KindsApart

\* What is at the temporary name becomes the target.  It is settled, a client has been at
\* it, or it is the file this Write has filled.
LEMMA RenamedInv ==
    ASSUME FilesInv, NEW c \in Calls, wr[c].pc = "rename", Renamed(c), UNCHANGED <<call, done>>,
           Settle(data, raw)
    PROVE  FilesInv'
<1> DEFINE ino == wr[c].ino
           tmp == wr[c].tmp
           path == call[c].path
           k == IF tree[tmp] = ino THEN Len(data[ino]) ELSE 0
           w == [wr[c] EXCEPT !.pc = "remove", !.ino = None, !.res = "ok", !.put = k]
<1>1. call[c] \in CallRecords /\ wr[c] \in WriteRecords /\ Joined(call[c], wr[c]) /\ CallData(c)
  BY RecordsOf
<1>2. /\ path \in AllPaths /\ ino \in Inodes /\ tmp \in TempPaths /\ tmp \in AllPaths
      /\ call[c].pc \notin {"read", "last"}
  BY <1>1 DEF Joined, Filling, Active, AllPaths
<1>3. /\ tree \in [AllPaths -> Inodes \cup {"none", "dir"}] /\ data \in [Inodes -> Contents]
      /\ lost \subseteq TempPaths
  BY DEF FilesInv, FilesTyped
<1>4. /\ tree[tmp] # "none" /\ tmp # path /\ tree' = Move(tree, tmp, path)
      /\ lost' = lost \cup ({path} \cap TempPaths)
  BY DEF Renamed, CanMove
<1>5. Under(tmp) = {} /\ Below(tree, tmp) = {}
  BY <1>2, BelowTemp DEF Below
<1>6. /\ tree' \in [AllPaths -> Inodes \cup {"none", "dir"}]
      /\ tree'[path] = tree[tmp] /\ tree'[tmp] = "none"
      /\ \A p \in AllPaths : p \notin {path, tmp} => tree'[p] = tree[p]
  <2>1. tree' = [q \in AllPaths |-> IF q = path THEN tree[tmp] ELSE IF q = tmp THEN "none" ELSE tree[q]]
    BY <1>4, <1>5 DEF Move
  <2>2. QED BY <1>2, <1>3, <1>4, <2>1
<1>7. k \in Nat
  BY <1>2, <1>3, ContentsAre
<1> HIDE DEF k
<1>8. /\ w \in WriteRecords /\ w.pc = "remove" /\ w.ino = None /\ w.tmp = tmp /\ w.put = k
  BY <1>1, <1>7 DEF WriteRecords
<1>9. wr' = [wr EXCEPT ![c] = w]
  BY RecordsOf DEF Renamed, k
<1> HIDE DEF w
<1>10. /\ wr' \in [Calls -> WriteRecords] /\ Others({c}) /\ wr'[c] = w /\ call'[c] = call[c]
       /\ call' \in [Calls -> CallRecords]
  BY <1>8, <1>9, RecordsOf DEF Others
<1>11. Joined(call'[c], wr'[c])
  BY <1>1, <1>2, <1>8, <1>10 DEF Joined, Active, Filling
<1>12. /\ data' \in [Inodes -> Contents] /\ raw' \subseteq Inodes /\ raw' \subseteq raw
       /\ \A i \in Held' : Same(i)
       /\ OwnData({c}) /\ Freed'
  BY SettleStays
<1>13. FilesTyped'
  BY <1>3, <1>4, <1>6, <1>10, <1>12 DEF FilesInv, FilesTyped
<1>14. OnePath'
  <2>1. OnePath
    BY DEF FilesInv
  <2>2. \A p \in AllPaths : tree[p] \in Inodes /\ tree[p] = tree[tmp] => p = tmp
    BY <1>2, <2>1 DEF OnePath
  <2>3. \A p, q \in AllPaths : tree'[p] \in Inodes /\ tree'[p] = tree'[q] => p = q
    BY <1>2, <1>6, <2>1, <2>2, FilesAssumption DEF OnePath
  <2>4. QED BY <2>3 DEF OnePath
<1>15. Carried
  BY <1>8, <1>10 DEF Carried, Others, Filling
<1>16. FreshOnly
  BY <1>8, <1>10, FilesAssumption DEF FreshOnly, Others
<1>17. tree[tmp] \in Inodes \ raw' => SettledAfter(tree[tmp])
  <2>1. SUFFICES ASSUME tree[tmp] \in Inodes \ raw' PROVE SettledAfter(tree[tmp])
    OBVIOUS
  <2>2. tree[tmp] \in Held /\ tree[tmp] \in Held'
    BY <1>2, <1>6, <2>1 DEF Held
  <2>3. Same(tree[tmp]) /\ tree[tmp] \notin raw
    BY <1>12, <2>1, <2>2 DEF Same
  <2>4. CASE Settled(tree[tmp])
    BY <1>12, <1>16, <2>1, <2>2, <2>4, SettledKept
  <2>5. CASE ~Settled(tree[tmp])
    <3>1. ino = tree[tmp]
      BY <1>2, <2>1, <2>3, <2>5 DEF FilesInv, Placed, Filling
    <3>2. Whole(data'[ino])
      BY <1>1, <2>3, <3>1 DEF CallData, Same
    <3>3. \A d \in Calls : wr'[d].ino # ino
      BY <1>2, <1>8, <1>10, FilesAssumption DEF FilesInv, OneWrite, Others
    <3>4. QED BY <3>1, <3>2, <3>3 DEF SettledAfter
  <2>6. QED BY <2>4, <2>5
<1>18. Moves
  BY <1>6, <1>17, KindsApart, FilesAssumption DEF Moves
<1>19. Stays({c})
  <2>1. SUFFICES ASSUME NEW p \in TempPaths \ lost', tree'[p] # "none"
                 PROVE  p \notin lost /\ tree'[p] = tree[p] /\ ~Keeps(c, p)
    BY <1>12 DEF Stays
  <2>2. p # tmp /\ p # path /\ p \notin lost
    BY <1>4, <1>6, <2>1
  <2>3. QED BY <1>6, <2>2 DEF Keeps, AllPaths
<1>20. tmp \notin lost' /\ call[c].op = "upload" => k = call[c].n
  <2>1. SUFFICES ASSUME tmp \notin lost', call[c].op = "upload" PROVE k = call[c].n
    OBVIOUS
  <2>2. PICK d \in Calls : Keeps(d, tmp)
    BY <1>2, <1>4, <2>1 DEF FilesInv, Owned
  <2>3. d = c
    BY <1>2, <2>2 DEF FilesInv, OneWrite, Keeps
  <2>4. ino = tree[tmp] /\ ino \notin raw
    BY <2>1, <2>2, <2>3 DEF Keeps
  <2>5. QED BY <1>1, <2>1, <2>4 DEF CallData, k
<1>21. CallData(c)'
  BY <1>2, <1>8, <1>10, <1>12, <1>20, ClosedData DEF Filling
<1>22. lost \subseteq lost'
  BY <1>4
<1>23. QED BY <1>10, <1>11, <1>12, <1>13, <1>14, <1>15, <1>18, <1>19, <1>21, <1>22, StepInv

LEMMA WriteRenameInv ==
    ASSUME FilesInv, NEW c \in Calls, WriteRename(c), done' = done
    PROVE  FilesInv'
<1>1. call[c] \in CallRecords /\ wr[c] \in WriteRecords /\ Joined(call[c], wr[c])
  BY RecordsOf
<1>2. wr[c].pc = "rename" /\ UNCHANGED <<call, done>> /\ Settle(data, raw)
  BY DEF WriteRename
<1>3. CASE Renamed(c)
  BY <1>2, <1>3, RenamedInv
<1>4. CASE WriteFails(c) /\ UNCHANGED lost
  <2>1. wr'[c].pc = "remove" /\ wr'[c].ino = None /\ wr'[c].tmp = wr[c].tmp
    BY <1>4, WriteFailsIs
  <2>2. Joined(call'[c], wr'[c]) /\ call[c].pc \notin {"read", "last"}
    BY <1>1, <1>2, <2>1 DEF Joined, Active, Filling
  <2>3. QED BY <1>2, <1>4, <2>2, RecordsOf, FailsInv
<1>5. QED BY <1>3, <1>4 DEF WriteRename

LEMMA WriteRemoveInv ==
    ASSUME FilesInv, NEW c \in Calls, WriteRemove(c), done' = done
    PROVE  FilesInv'
<1>1. call[c] \in CallRecords /\ wr[c] \in WriteRecords /\ Joined(call[c], wr[c]) /\ CallData(c)
  BY RecordsOf
<1>2. /\ wr[c].pc = "remove" /\ tree' = [tree EXCEPT ![wr[c].tmp] = "none"]
      /\ WriteReturns(c, wr[c]) /\ UNCHANGED <<lost, done>> /\ Settle(data, raw)
  BY DEF WriteRemove
<1>3. /\ data' \in [Inodes -> Contents] /\ raw' \subseteq Inodes /\ raw' \subseteq raw
      /\ OwnData({c}) /\ Freed'
  BY <1>2, SettleStays
<1>4. wr[c].ino = None /\ wr[c].tmp \in TempPaths /\ wr[c].tmp \in AllPaths /\ wr[c].pc \in Active
  BY <1>1, <1>2 DEF Joined, Filling, Active, AllPaths
<1>5. /\ tree' \in [AllPaths -> Inodes \cup {"none", "dir"}] /\ tree'[wr[c].tmp] = "none"
      /\ \A p \in AllPaths : tree'[p] # "none" => tree'[p] = tree[p]
  BY <1>2, <1>4 DEF FilesInv, FilesTyped
<1>6. \A p \in TempPaths : tree'[p] # "none" => ~Keeps(c, p)
  BY <1>5 DEF Keeps
<1>7. wr[c].res = "ok" /\ wr[c].tmp \notin lost /\ call[c].op = "upload" =>
        wr[c].put = call[c].n \/ call[c].pc = "idle"
  BY <1>1, <1>2 DEF CallData
<1>8. QED BY <1>1, <1>2, <1>3, <1>4, <1>5, <1>6, <1>7, ReturnedInv

LEMMA RemoveFailsInv ==
    ASSUME FilesInv, NEW c \in Calls, RemoveFails(c), done' \in 0..MaxCommands
    PROVE  FilesInv'
<1>1. call[c] \in CallRecords /\ wr[c] \in WriteRecords /\ Joined(call[c], wr[c]) /\ CallData(c)
  BY RecordsOf
<1>2. /\ wr[c].pc = "remove" /\ lost' = lost \cup {wr[c].tmp}
      /\ WriteReturns(c, wr[c]) /\ UNCHANGED <<tree, data, raw>>
  BY DEF RemoveFails
<1>3. wr[c].ino = None /\ wr[c].tmp \in TempPaths /\ wr[c].pc \in Active
  BY <1>1, <1>2 DEF Joined, Filling, Active
<1>4. /\ call' \in [Calls -> CallRecords] /\ wr' \in [Calls -> WriteRecords] /\ Others({c})
      /\ Joined(call'[c], wr'[c]) /\ wr'[c].pc \in {"none", "done"} /\ wr'[c].ino = None
      /\ wr'[c].tmp \in {None, wr[c].tmp} /\ call'[c].pc \notin {"read", "last"}
      /\ call[c].src \in Inodes => call'[c].src = call[c].src
      /\ call'[c].src \in Inodes => call'[c].src = call[c].src /\ call'[c].part = call[c].part
      /\ call'[c].pc # "idle" => wr'[c].tmp = wr[c].tmp
  BY <1>1, <1>2, <1>3, WriteReturnsIs
<1>5. Freed' /\ OwnData({c})
  BY <1>2, <1>3, <1>4, FilesAssumption, FreedKept
<1>6. wr'[c].pc \notin Filling
  BY <1>4 DEF Filling
<1>7. CallData(c)'
  BY <1>2, <1>4, <1>5, <1>6, ClosedData
<1>8. FilesTyped'
  BY <1>2, <1>3, <1>4 DEF FilesInv, FilesTyped
<1>9. OnePath'
  BY <1>2 DEF FilesInv, OnePath
<1>10. Carried
  <2>1. wr'[c].tmp \in TempPaths => wr'[c].tmp = wr[c].tmp
    BY <1>4, FilesAssumption DEF AllPaths
  <2>2. QED BY <1>4, <1>6, <2>1 DEF Carried, Others
<1>11. Moves
  BY <1>2, KindsApart DEF Moves
<1>12. Stays({c})
  BY <1>2 DEF Stays, Keeps
<1>13. lost \subseteq lost'
  BY <1>2
<1>14. QED BY <1>4, <1>5, <1>7, <1>8, <1>9, <1>10, <1>11, <1>12, <1>13, StepInv

-----------------------------------------------------------------------------
(* Commands, SFTP and the death of the daemon.                               *)

LEMMA CommandInv ==
    ASSUME FilesInv, UNCHANGED <<call, wr>>,
           tree' \in [AllPaths -> Inodes \cup {"none", "dir"}],
           data' \in [Inodes -> Contents], raw' \subseteq Inodes,
           lost' \subseteq TempPaths, lost \subseteq lost', done' \in 0..MaxCommands,
           Freed', OwnData({}), OnePath', Moves,
           \A p \in TempPaths \ lost' : tree'[p] # "none" =>
             tree'[p] = tree[p] /\ (tree[p] \in raw' => tree[p] \in raw)
    PROVE  FilesInv'
<1>1. FilesTyped'
  BY DEF FilesInv, FilesTyped
<1>2. Others({}) /\ Carried
  BY DEF Others, Carried
<1>3. Stays({})
  BY DEF Stays
<1>4. {} \in SUBSET Calls
  OBVIOUS
<1>5. QED BY <1>1, <1>2, <1>3, <1>4, StepInv

\* Files stay where they are, or go.
LEMMA RemovalInv ==
    ASSUME FilesInv, UNCHANGED <<call, wr>>,
           tree' \in [AllPaths -> Inodes \cup {"none", "dir"}],
           data' \in [Inodes -> Contents], raw' \subseteq Inodes, raw' \subseteq raw,
           lost' \subseteq TempPaths, lost \subseteq lost', done' \in 0..MaxCommands,
           Freed', OwnData({}),
           \A p \in AllPaths : tree'[p] \in Inodes => tree'[p] = tree[p],
           \A p \in TempPaths \ lost' : tree'[p] # "none" => tree'[p] = tree[p]
    PROVE  FilesInv'
<1>1. OnePath'
  BY DEF FilesInv, OnePath
<1>2. Moves
  BY KindsApart DEF Moves
<1>3. QED BY <1>1, <1>2, CommandInv

\* Directories are made, and no file is touched.
LEMMA DirsMadeInv ==
    ASSUME FilesInv, UNCHANGED <<call, wr, data, raw>>,
           tree' \in [AllPaths -> Inodes \cup {"none", "dir"}],
           lost' \subseteq TempPaths, lost \subseteq lost', done' \in 0..MaxCommands,
           \A q \in AllPaths :
             \/ tree'[q] = tree[q]
             \/ q \notin TempPaths \ lost' /\ tree[q] \in {"none", "dir"} /\ tree'[q] = "dir"
    PROVE  FilesInv'
<1>1. /\ \A q \in AllPaths : tree'[q] \in Inodes => tree'[q] = tree[q]
      /\ \A q \in AllPaths : tree[q] \in Inodes => tree'[q] = tree[q]
      /\ \A q \in TempPaths \ lost' : tree'[q] = tree[q]
  BY FilesAssumption DEF AllPaths
<1>2. Held \subseteq Held'
  BY <1>1 DEF Held
<1>3. Freed' /\ OwnData({})
  BY <1>2 DEF FilesInv, Freed, OwnData, Kept
<1>4. data' \in [Inodes -> Contents] /\ raw' \subseteq Inodes /\ raw' \subseteq raw
  BY DEF FilesInv, FilesTyped
<1>5. QED BY <1>1, <1>3, <1>4, RemovalInv

LEMMA CreateDirInv ==
    ASSUME FilesInv, NEW p \in AllPaths, CreateDir(p), done' \in 0..MaxCommands
    PROVE  FilesInv'
<1> DEFINE made == MkdirAll(tree, Parent(p))
<1>1. tree \in [AllPaths -> Inodes \cup {"none", "dir"}] /\ lost \subseteq TempPaths
  BY DEF FilesInv, FilesTyped
<1>2. /\ ResolvePath(p) /\ tree[p] = "none" /\ tree' = MkdirAll(made, p)
      /\ lost' = lost \cup ({p} \cap TempPaths) /\ UNCHANGED <<call, wr, data, raw>>
  BY DEF CreateDir
<1>3. p # <<>>
  BY DEF AllPaths, Paths, TempPaths
<1>4. /\ made \in [AllPaths -> Inodes \cup {"none", "dir"}]
      /\ \A q \in AllPaths :
           \/ made[q] = tree[q]
           \/ q \in Paths /\ tree[q] \in {"none", "dir"} /\ made[q] = "dir"
  BY <1>1, <1>2, MkdirKeeps DEF ResolvePath
<1> HIDE DEF made
<1>5. tree' = [made EXCEPT ![p] = "dir"]
  BY <1>2, <1>3 DEF MkdirAll
<1>6. /\ tree' \in [AllPaths -> Inodes \cup {"none", "dir"}]
      /\ \A q \in AllPaths :
           \/ tree'[q] = tree[q]
           \/ q \notin TempPaths \ lost' /\ tree[q] \in {"none", "dir"} /\ tree'[q] = "dir"
  BY <1>2, <1>4, <1>5, KindsApart
<1>7. lost' \subseteq TempPaths /\ lost \subseteq lost'
  BY <1>1, <1>2
<1>8. QED BY <1>2, <1>6, <1>7, DirsMadeInv

LEMMA DeleteInv ==
    ASSUME FilesInv, NEW p \in AllPaths, NEW all \in BOOLEAN, Delete(p, all), done' \in 0..MaxCommands
    PROVE  FilesInv'
<1>1. tree \in [AllPaths -> Inodes \cup {"none", "dir"}] /\ lost \subseteq TempPaths
  BY DEF FilesInv, FilesTyped
<1>2. /\ tree' = [q \in AllPaths |-> IF q = p \/ q \in Under(p) THEN "none" ELSE tree[q]]
      /\ UNCHANGED <<call, wr, lost>> /\ Settle(data, raw)
  BY DEF Delete
<1>3. /\ data' \in [Inodes -> Contents] /\ raw' \subseteq Inodes /\ raw' \subseteq raw
      /\ OwnData({}) /\ Freed'
  BY <1>2, SettleStays
<1>4. tree' \in [AllPaths -> Inodes \cup {"none", "dir"}]
  BY <1>1, <1>2
<1>5. /\ \A q \in AllPaths : tree'[q] \in Inodes => tree'[q] = tree[q]
      /\ \A q \in TempPaths : tree'[q] # "none" => tree'[q] = tree[q]
  BY <1>2, FilesAssumption DEF AllPaths
<1>6. QED BY <1>1, <1>2, <1>3, <1>4, <1>5, RemovalInv

LEMMA RenameInv ==
    ASSUME FilesInv, NEW a \in AllPaths, NEW b \in AllPaths, Rename(a, b), done' \in 0..MaxCommands
    PROVE  FilesInv'
<1> DEFINE made == MkdirAll(tree, Parent(b))
           below == Below(made, a)
           named == IF a \in TempPaths THEN {tree[a]} \cap Inodes ELSE {}
           r == raw \cup named
<1>1. /\ tree \in [AllPaths -> Inodes \cup {"none", "dir"}] /\ lost \subseteq TempPaths
      /\ data \in [Inodes -> Contents] /\ raw \subseteq Inodes
  BY DEF FilesInv, FilesTyped
<1>2. /\ ResolvePath(b) /\ UNCHANGED <<call, wr>>
      /\ \A q \in below : Moved(q, a, b) \in AllPaths
  BY DEF Rename
<1>3. /\ made \in [AllPaths -> Inodes \cup {"none", "dir"}]
      /\ \A q \in AllPaths :
           \/ made[q] = tree[q]
           \/ q \in Paths /\ tree[q] \in {"none", "dir"} /\ made[q] = "dir"
  BY <1>1, <1>2, MkdirKeeps DEF ResolvePath
<1>4. /\ \A q \in AllPaths : made[q] \in Inodes => made[q] = tree[q]
      /\ \A q \in TempPaths : made[q] = tree[q]
  BY <1>3, KindsApart, FilesAssumption DEF AllPaths
<1>5. CASE tree' = made /\ UNCHANGED <<lost, data, raw>>
  <2> HIDE DEF made
  <2>1. \A q \in AllPaths :
          \/ tree'[q] = tree[q]
          \/ q \notin TempPaths \ lost' /\ tree[q] \in {"none", "dir"} /\ tree'[q] = "dir"
    BY <1>3, <1>5, KindsApart
  <2>2. QED BY <1>1, <1>2, <1>3, <1>5, <2>1, DirsMadeInv
<1>6. CASE /\ CanMove(made, a, b) /\ tree' = Move(made, a, b)
           /\ lost' = lost \cup (({b} \cup {Moved(q, a, b) : q \in below}) \cap TempPaths)
           /\ Settle(data, r)
  <2> DEFINE Arrives(q) == \E s \in below : Moved(s, a, b) = q
             origin(q) == CHOOSE s \in below : Moved(s, a, b) = q
  <2>1. below \subseteq AllPaths /\ below \subseteq Under(a) /\ a # b
    BY <1>6 DEF Below, Under, CanMove
  <2>2. \A q \in AllPaths : Arrives(q) => origin(q) \in below /\ Moved(origin(q), a, b) = q
    OBVIOUS
  <2>3. \A s \in below : /\ s \in Paths <=> Moved(s, a, b) \in Paths
                         /\ s \in TempPaths <=> Moved(s, a, b) \in TempPaths
                         /\ Name(Moved(s, a, b)) = Name(s)
                         /\ s # a /\ Moved(s, a, b) # b
    BY <1>2, <2>1, MovedKind
  <2>4. \A s, t \in below : Moved(s, a, b) = Moved(t, a, b) => s = t
    BY <1>2, <2>1, MovedInjective
  <2>5. tree' = [q \in AllPaths |->
                IF q = b THEN made[a]
                ELSE IF Arrives(q) THEN made[origin(q)]
                ELSE IF q = a \/ q \in Under(a) THEN "none" ELSE made[q]]
    BY <1>6 DEF Move
  <2>6. r \in SUBSET Inodes /\ raw \subseteq r /\ (a \in TempPaths /\ tree[a] \in Inodes => tree[a] \in r)
        /\ \A i \in r : i \in raw \/ (a \in TempPaths /\ i = tree[a])
    BY <1>1
  <2>7. Settle(data, r)
    BY <1>6
  <2> HIDE DEF made, below, Arrives, origin, named, r
  <2>8. /\ data' \in [Inodes -> Contents] /\ raw' \subseteq Inodes /\ Freed'
        /\ \A i \in Held' : data'[i] = data[i] /\ (i \in raw' <=> i \in r)
    BY <1>1, <2>6, <2>7, SettleLeaves
  <2>9. OwnData({})
    BY <2>6, <2>8 DEF OwnData, Kept
  <2>10. tree' \in [AllPaths -> Inodes \cup {"none", "dir"}]
    <3>1. SUFFICES ASSUME NEW q \in AllPaths PROVE tree'[q] \in Inodes \cup {"none", "dir"}
      BY <2>5
    <3>2. Arrives(q) => made[origin(q)] \in Inodes \cup {"none", "dir"}
      BY <1>3, <2>1, <2>2
    <3>3. made[a] \in Inodes \cup {"none", "dir"} /\ made[q] \in Inodes \cup {"none", "dir"}
      BY <1>3
    <3>4. QED BY <2>5, <3>2, <3>3
  <2> DEFINE From(s, q) == \/ q = b /\ s = a
                           \/ s \in below /\ Moved(s, a, b) = q
                           \/ s = q /\ q # a /\ q # b /\ q \notin Under(a)
  <2>11. ASSUME NEW q \in AllPaths, tree'[q] \in Inodes
         PROVE  \E s \in AllPaths : tree'[q] = tree[s] /\ From(s, q)
    <3>1. CASE q = b
      BY <1>4, <2>5, <2>11, <3>1
    <3>2. CASE q # b /\ Arrives(q)
      <4>1. tree'[q] = made[origin(q)] /\ origin(q) \in AllPaths /\ origin(q) \in below
            /\ Moved(origin(q), a, b) = q
        BY <2>1, <2>2, <2>5, <3>2
      <4>2. tree'[q] = tree[origin(q)]
        BY <1>4, <2>11, <4>1
      <4>3. QED BY <4>1, <4>2
    <3>3. CASE q # b /\ ~Arrives(q)
      <4>1. q # a /\ q \notin Under(a) /\ tree'[q] = made[q]
        BY <2>5, <2>11, <3>3, FilesAssumption
      <4>2. QED BY <1>4, <2>11, <3>3, <4>1
    <3>4. QED BY <3>1, <3>2, <3>3
  <2>12. OnePath'
    <3>1. SUFFICES ASSUME NEW p \in AllPaths, NEW q \in AllPaths, tree'[p] \in Inodes, tree'[p] = tree'[q]
                   PROVE  p = q
      BY DEF OnePath
    <3>2. PICK s \in AllPaths : tree'[p] = tree[s] /\ From(s, p)
      BY <2>11, <3>1
    <3>3. PICK t \in AllPaths : tree'[q] = tree[t] /\ From(t, q)
      BY <2>11, <3>1
    <3>4. s = t
      BY <3>1, <3>2, <3>3 DEF FilesInv, OnePath
    <3>5. QED BY <2>1, <2>3, <2>4, <3>2, <3>3, <3>4
  <2>13. Moves
    <3>1. SUFFICES ASSUME NEW p \in AllPaths, tree'[p] \in Inodes \ raw'
                   PROVE  \E s \in AllPaths : /\ tree[s] = tree'[p]
                                              /\ s \in Paths \/ (p \in TempPaths /\ Name(p) = Name(s))
      BY DEF Moves
    <3>2. PICK s \in AllPaths : tree'[p] = tree[s] /\ From(s, p)
      BY <2>11, <3>1
    <3>3. tree'[p] \in Held'
      BY <3>1 DEF Held
    <3>4. CASE p = b /\ s = a
      <4>1. a \notin TempPaths
        BY <2>6, <2>8, <3>1, <3>2, <3>3, <3>4
      <4>2. QED BY <3>2, <3>4, <4>1, KindsApart
    <3>5. CASE s \in below /\ Moved(s, a, b) = p
      BY <2>3, <3>2, <3>5, KindsApart
    <3>6. CASE s = p
      BY <3>2, <3>6, KindsApart
    <3>7. QED BY <3>2, <3>4, <3>5, <3>6
  <2>14. lost' \subseteq TempPaths /\ lost \subseteq lost'
    BY <1>1, <1>6
  <2>15. ASSUME NEW p \in TempPaths \ lost', tree'[p] # "none"
         PROVE  tree'[p] = tree[p] /\ (tree[p] \in raw' => tree[p] \in raw)
    <3>1. p \in AllPaths /\ p # b
      BY <1>6, <2>15 DEF AllPaths
    <3>2. ~Arrives(p)
      <4>1. SUFFICES ASSUME Arrives(p) PROVE FALSE
        OBVIOUS
      <4>2. p \in {Moved(q, a, b) : q \in below}
        BY <4>1 DEF Arrives
      <4>3. p \in lost'
        BY <1>6, <2>15, <4>2 DEF below
      <4>4. QED BY <2>15, <4>3
    <3>3. p # a /\ p \notin Under(a) /\ tree'[p] = made[p]
      BY <2>5, <2>15, <3>1, <3>2
    <3>4. tree'[p] = tree[p]
      BY <1>4, <3>3
    <3>5. tree[p] \in raw' => tree[p] \in raw
      <4>1. SUFFICES ASSUME tree[p] \in raw', tree[p] \notin raw PROVE FALSE
        OBVIOUS
      <4>2. tree[p] \in Inodes /\ tree[p] \in Held'
        BY <2>8, <3>1, <3>4, <4>1 DEF Held
      <4>3. tree[p] = tree[a]
        BY <2>6, <2>8, <4>1, <4>2
      <4>4. QED BY <3>1, <3>3, <4>2, <4>3 DEF FilesInv, OnePath
    <3>6. QED BY <3>4, <3>5
  <2>16. QED BY <1>2, <2>8, <2>9, <2>10, <2>12, <2>13, <2>14, <2>15, CommandInv
<1>7. QED BY <1>5, <1>6 DEF Rename

LEMMA FilewriteInv ==
    ASSUME FilesInv, NEW p \in AllPaths, Filewrite(p), done' \in 0..MaxCommands
    PROVE  FilesInv'
<1> DEFINE i == IF tree[p] = "none" THEN Fresh ELSE tree[p]
           made == MkdirAll(tree, Parent(p))
           e == [data EXCEPT ![i] = <<Scribble>>]
<1>1. /\ tree \in [AllPaths -> Inodes \cup {"none", "dir"}] /\ lost \subseteq TempPaths
      /\ data \in [Inodes -> Contents] /\ raw \in SUBSET Inodes /\ OnePath
  BY DEF FilesInv, FilesTyped
<1>2. /\ ResolvePath(p) /\ tree[p] # "dir" /\ (tree[p] = "none" => Held # Inodes)
      /\ tree' = [made EXCEPT ![p] = i] /\ UNCHANGED <<call, wr>>
      /\ lost' = lost \cup ({p} \cap TempPaths)
      /\ Settle(e, raw \cup {i})
  BY DEF Filewrite
<1>3. tree[p] = "none" => Fresh \in Inodes /\ Fresh \notin Held
  <2>1. SUFFICES ASSUME tree[p] = "none" PROVE Fresh \in Inodes /\ Fresh \notin Held
    OBVIOUS
  <2>2. \E j \in Inodes : j \notin Held
    BY <1>2, <2>1 DEF Held
  <2>3. QED BY <2>2 DEF Fresh
<1>4. i \in Inodes
  BY <1>1, <1>2, <1>3
<1>5. \A q \in AllPaths : tree[q] = i => q = p
  <2>1. CASE tree[p] = "none"
    <3>1. i = Fresh /\ Fresh \in Inodes /\ Fresh \notin Held
      BY <1>3, <2>1
    <3>2. \A q \in AllPaths : tree[q] # Fresh
      BY <3>1 DEF Held
    <3>3. QED BY <3>1, <3>2
  <2>2. CASE tree[p] # "none"
    <3>1. i = tree[p] /\ tree[p] \in Inodes
      BY <1>4, <2>2
    <3>2. QED BY <1>1, <3>1 DEF OnePath
  <2>3. QED BY <2>1, <2>2
<1>6. /\ made \in [AllPaths -> Inodes \cup {"none", "dir"}]
      /\ \A q \in AllPaths :
           \/ made[q] = tree[q]
           \/ q \in Paths /\ tree[q] \in {"none", "dir"} /\ made[q] = "dir"
  BY <1>1, <1>2, MkdirKeeps DEF ResolvePath
<1>7. <<Scribble>> \in Contents
  <2>1. Scribble \in Chunks
    BY DEF Chunks
  <2>2. <<Scribble>> \in Seq(Chunks) /\ Len(<<Scribble>>) = 1
    BY <2>1
  <2>3. ASSUME NEW s \in Seq(Chunks), Len(s) = 1 PROVE s \in Contents
    <3>1. Len(s) <= MaxChunks
      BY <2>3, FilesAssumption
    <3>2. QED BY <3>1, ContentsAre
  <2>4. QED BY <2>2, <2>3
<1>8. /\ e \in [Inodes -> Contents] /\ raw \cup {i} \in SUBSET Inodes /\ e[i] = <<Scribble>>
      /\ \A j \in Inodes : j # i => e[j] = data[j]
  BY <1>1, <1>4, <1>7
<1> HIDE DEF i, made, e
<1>9. /\ tree' \in [AllPaths -> Inodes \cup {"none", "dir"}] /\ tree'[p] = i
      /\ \A q \in AllPaths : q # p /\ tree'[q] \in Inodes => tree'[q] = tree[q]
      /\ \A q \in TempPaths : q # p => tree'[q] = tree[q]
  BY <1>2, <1>4, <1>6, KindsApart, FilesAssumption DEF AllPaths
<1>10. /\ data' \in [Inodes -> Contents] /\ raw' \subseteq Inodes /\ Freed'
       /\ \A j \in Held' : data'[j] = e[j] /\ (j \in raw' <=> j \in raw \cup {i})
  BY <1>2, <1>8, SettleLeaves
<1>11. Held' \subseteq Inodes /\ i \in Held' /\ i \in raw'
  BY <1>4, <1>9, <1>10 DEF Held
<1>12. OwnData({})
  BY <1>8, <1>10, <1>11 DEF OwnData, Kept
<1>13. OnePath'
  <2>1. \A q \in AllPaths : q # p => tree'[q] # i
    BY <1>4, <1>5, <1>9
  <2>2. \A q, r \in AllPaths : tree'[q] \in Inodes /\ tree'[q] = tree'[r] => q = r
    BY <1>1, <1>9, <2>1 DEF OnePath
  <2>3. QED BY <2>2 DEF OnePath
<1>14. Moves
  BY <1>9, <1>11, KindsApart DEF Moves
<1>15. lost' \subseteq TempPaths /\ lost \subseteq lost'
  BY <1>1, <1>2
<1>16. ASSUME NEW q \in TempPaths \ lost', tree'[q] # "none"
       PROVE  tree'[q] = tree[q] /\ (tree[q] \in raw' => tree[q] \in raw)
  <2>1. q # p /\ q \in AllPaths
    BY <1>2, <1>16 DEF AllPaths
  <2>2. tree'[q] = tree[q]
    BY <1>9, <1>16, <2>1
  <2>3. tree[q] # i
    BY <1>5, <2>1
  <2>4. ASSUME tree[q] \in raw' PROVE tree[q] \in raw
    <3>1. tree[q] \in Held'
      BY <1>10, <2>1, <2>2, <2>4 DEF Held
    <3>2. QED BY <1>10, <2>3, <2>4, <3>1
  <2>5. QED BY <2>2, <2>4
<1>17. QED BY <1>2, <1>9, <1>10, <1>12, <1>13, <1>14, <1>15, <1>16, CommandInv

LEMMA DaemonDiesInv ==
    ASSUME FilesInv, DaemonDies, done' \in 0..MaxCommands
    PROVE  FilesInv'
<1>1. /\ call' = [c \in Calls |-> IdleCall] /\ wr' = [c \in Calls |-> NoWrite]
      /\ lost' = {p \in TempPaths : tree[p] # "none"} /\ UNCHANGED tree /\ Settle(data, raw)
  BY DEF DaemonDies
<1>2. /\ data' \in [Inodes -> Contents] /\ raw' \subseteq Inodes /\ Freed'
      /\ Calls \in SUBSET Calls /\ OwnData(Calls)
  BY <1>1, SettleStays
<1>3. Calls # {} => IdleCall \in CallRecords /\ NoWrite \in WriteRecords
  BY RecordsOf
<1>4. FilesTyped'
  BY <1>1, <1>2, <1>3 DEF FilesInv, FilesTyped
<1>5. /\ Joined(IdleCall, NoWrite) /\ IdleCall.src = None /\ NoWrite.ino = None
      /\ NoWrite.pc = "none" /\ NoWrite.tmp = None /\ "none" \notin Filling
      /\ None \notin TempPaths /\ None \notin Inodes
  BY FilesAssumption DEF Joined, IdleCall, NoWrite, Active, Filling, OverLimit, AllPaths
<1>6. OnePath'
  BY <1>1 DEF FilesInv, OnePath
<1>7. Others(Calls) /\ Carried
  BY <1>1, <1>5 DEF Others, Carried
<1>8. Moves
  BY <1>1, KindsApart DEF Moves
<1>9. Stays(Calls)
  BY <1>1 DEF Stays
<1>10. \A c \in Calls : Joined(call'[c], wr'[c]) /\ CallData(c)'
  BY <1>1, <1>5, NoData
<1>11. QED BY <1>2, <1>4, <1>6, <1>7, <1>8, <1>9, <1>10, StepInv

-----------------------------------------------------------------------------
(* The theorems.                                                             *)

LEMMA FilesInvInit == FilesInit => FilesInv
<1> SUFFICES ASSUME FilesInit PROVE FilesInv
  OBVIOUS
<1>1. /\ tree = [p \in AllPaths |-> "none"] /\ data = [i \in Inodes |-> <<>>] /\ raw = {}
      /\ call = [c \in Calls |-> IdleCall] /\ wr = [c \in Calls |-> NoWrite]
      /\ lost = {} /\ done = 0
  BY DEF FilesInit
<1>2. <<>> \in Seq(Chunks) /\ <<>> \in Contents
  <2>1. <<>> \in Seq(Chunks) /\ Len(<<>>) = 0
    BY EmptySeq
  <2>2. ASSUME NEW s \in Seq(Chunks), Len(s) = 0 PROVE s \in Contents
    <3>1. Len(s) <= MaxChunks
      BY <2>2, FilesAssumption
    <3>2. QED BY <3>1, ContentsAre
  <2>3. QED BY <2>1, <2>2
<1>3. IdleCall \in CallRecords
  BY <1>2, FilesAssumption DEF IdleCall, CallRecords
<1>4. NoWrite \in WriteRecords
  BY DEF NoWrite, WriteRecords
<1>5. FilesTyped
  BY <1>1, <1>2, <1>3, <1>4, FilesAssumption DEF FilesTyped
<1>6. /\ Joined(IdleCall, NoWrite) /\ IdleCall.src = None /\ NoWrite.ino = None
      /\ NoWrite.tmp = None /\ NoWrite.pc = "none" /\ IdleCall.pc = "idle"
  BY FilesAssumption DEF Joined, IdleCall, NoWrite, Active, Filling, OverLimit
<1>7. \A p \in AllPaths : tree[p] = "none" /\ tree[p] \notin Inodes
  BY <1>1, FilesAssumption
<1>8. OnePath /\ Placed /\ Owned
  BY <1>7 DEF OnePath, Placed, Owned, AllPaths
<1>9. OneWrite
  <2>1. None \notin Inodes /\ None \notin TempPaths
    BY FilesAssumption DEF AllPaths
  <2>2. QED BY <1>1, <1>6, <2>1 DEF OneWrite
<1>10. Freed
  BY <1>1 DEF Freed
<1>11. \A c \in Calls : CallData(c)
  BY <1>1, <1>6, FilesAssumption DEF CallData, Reads
<1>12. QED BY <1>1, <1>5, <1>6, <1>8, <1>9, <1>10, <1>11 DEF FilesInv

LEMMA StutterFiles == ASSUME FilesInv, UNCHANGED fileVars PROVE FilesInv'
<1>1. /\ tree' = tree /\ data' = data /\ raw' = raw /\ call' = call /\ wr' = wr
      /\ lost' = lost /\ done' = done
  BY DEF fileVars
<1>2. FilesTyped' /\ OnePath' /\ OneWrite' /\ \A c \in Calls : Joined(call'[c], wr'[c])
  BY <1>1 DEF FilesInv, FilesTyped, OnePath, OneWrite
<1>3. Freed'
  BY <1>1 DEF FilesInv, Freed, Held
<1>4. Owned'
  BY <1>1 DEF FilesInv, Owned, Keeps, Deserted
<1>5. Placed'
  BY <1>1 DEF FilesInv, Placed, Settled
<1>6. ASSUME NEW c \in Calls PROVE CallData(c)'
  <2>1. CallData(c)
    BY DEF FilesInv
  <2>2. QED BY <1>1, <2>1 DEF CallData, Reads, Settled
<1>7. QED BY <1>2, <1>3, <1>4, <1>5, <1>6 DEF FilesInv

LEMMA FilesInvNext == FilesInv /\ [FilesNext]_fileVars => FilesInv'
<1> SUFFICES ASSUME FilesInv, [FilesNext]_fileVars PROVE FilesInv'
  OBVIOUS
<1>1. ASSUME NEW c \in Calls, CallStep(c) PROVE FilesInv'
  <2>1. done' = done
    BY <1>1 DEF CallStep
  <2>2. CASE \E p \in Targets, n \in Sizes[c] : UploadBegin(c, p, n)
    BY <2>1, <2>2, UploadBeginInv
  <2>3. CASE \E pq \in Copies[c] : CopyBegin(c, pq[1], pq[2])
    BY <2>1, <2>3, CopyBeginInv
  <2>4. CASE \E p \in Downloads[c] : DownloadBegin(c, p)
    BY <2>1, <2>4, DownloadBeginInv
  <2>5. CASE HandlerStep(c)
    BY <2>1, <2>5, UploadRecvInv, UploadLastInv, UploadCutInv, AnswerInv, DownloadReadInv, DownloadLastInv
       DEF HandlerStep
  <2>6. CASE WriteStep(c)
    BY <2>1, <2>6, WriteStartInv, WriteTempInv, CopyFromPipeInv, CopyFromFileInv, WriteRenameInv, WriteRemoveInv
       DEF WriteStep
  <2>7. CASE ClientGone(c)
    BY <2>1, <2>7, ClientGoneInv
  <2>8. QED BY <1>1, <2>2, <2>3, <2>4, <2>5, <2>6, <2>7 DEF CallStep
<1>2. ASSUME Disturb PROVE FilesInv'
  <2>1. done' \in 0..MaxCommands
    BY <1>2, FilesAssumption DEF Disturb, FilesInv, FilesTyped
  <2>2. CASE \E p \in Named : CreateDir(p)
    BY <2>1, <2>2, CreateDirInv, FilesAssumption
  <2>3. CASE \E p \in Named : Delete(p, FALSE) \/ Delete(p, TRUE)
    BY <2>1, <2>3, DeleteInv, FilesAssumption
  <2>4. CASE \E pq \in Renames : Rename(pq[1], pq[2])
    <3>1. PICK pq \in Renames : Rename(pq[1], pq[2])
      BY <2>4
    <3>2. pq[1] \in AllPaths /\ pq[2] \in AllPaths
      BY FilesAssumption
    <3>3. QED BY <2>1, <3>1, <3>2, RenameInv
  <2>5. CASE \E p \in Named : Filewrite(p)
    BY <2>1, <2>5, FilewriteInv, FilesAssumption
  <2>6. CASE \E c \in Calls : RemoveFails(c)
    BY <2>1, <2>6, RemoveFailsInv
  <2>7. CASE DaemonDies
    BY <2>1, <2>7, DaemonDiesInv
  <2>8. QED BY <1>2, <2>2, <2>3, <2>4, <2>5, <2>6, <2>7 DEF Disturb, Filecmd
<1>3. QED BY <1>1, <1>2, StutterFiles DEF FilesNext

LEMMA FilesInvCorrect == FilesSpec => []FilesInv
  BY FilesInvInit, FilesInvNext, PTL DEF FilesSpec

\* The tree, the contents and the calls keep their types, the handler of an upload waits
\* in the pipe only with a chunk in it, and no upload takes more than max_upload_bytes.
THEOREM FilesTypeCorrect == FilesSpec => []FilesTypeOK
<1>1. FilesInv => FilesTypeOK
  BY DEF FilesInv, FilesTyped, FilesTypeOK, Joined, CallRecords, WriteRecords
<1>2. QED BY <1>1, FilesInvCorrect, PTL

\* Whatever fails, overlaps or dies, a file under any name that is not a temporary one
\* holds one whole upload within the limit, clients that name temporary files included,
\* unless SFTP has written it in place or it is a temporary file a client has renamed or
\* copied itself.
THEOREM PublishedWholeCorrect == FilesSpec => []PublishedWhole
<1>1. FilesInv => PublishedWhole
  BY KindsApart DEF FilesInv, PublishedWhole, Placed, Settled, AllPaths
<1>2. QED BY <1>1, FilesInvCorrect, PTL

\* A temporary file that List shows belongs to a Write that is still going to rename or
\* remove it, and that no client has deserted in the pipe, except in the four cases where
\* it stays behind: a crash, a renamed directory, a client gone in mid-upload, a failing
\* os.Remove.
THEOREM TempsOwnedCorrect == FilesSpec => []TempsOwned
<1>1. FilesInv => TempsOwned
  <2> SUFFICES ASSUME FilesInv, NEW d \in {<<>>} \cup Paths, NEW p \in (List(d) \cap TempPaths) \ lost
               PROVE  \E c \in Calls : /\ wr[c].tmp = p /\ wr[c].pc \in {"copy", "rename", "remove"}
                                       /\ ~Deserted(c)
    BY DEF TempsOwned
  <2>1. tree[p] # "none" /\ p \in TempPaths \ lost
    BY DEF List
  <2>2. PICK c \in Calls : Keeps(c, p)
    BY <2>1 DEF FilesInv, Owned
  <2>3. QED BY <2>2 DEF Keeps, Filling, Deserted
<1>2. QED BY <1>1, FilesInvCorrect, PTL

\* A step of a call concerns no other.
LEMMA OthersUntouched ==
    ASSUME NEW c \in Calls, NEW d \in Calls, d # c, call \in [Calls -> CallRecords], CallStep(d)
    PROVE  call'[c] = call[c]
<1>1. CASE \/ \E p \in Targets, n \in Sizes[d] : UploadBegin(d, p, n)
           \/ \E pq \in Copies[d] : CopyBegin(d, pq[1], pq[2])
           \/ \E p \in Downloads[d] : DownloadBegin(d, p)
  BY <1>1 DEF UploadBegin, CopyBegin, DownloadBegin
<1>2. CASE HandlerStep(d) \/ ClientGone(d)
  BY <1>2 DEF HandlerStep, UploadRecv, UploadLast, UploadCut, Answer, DownloadRead, DownloadLast,
              ClientGone, Return
<1>3. CASE WriteStep(d)
  BY <1>3 DEF WriteStep, WriteStart, WriteTemp, CopyFromPipe, CopyFromFile, WriteRename, WriteRemove,
              WriteRefused, WriteReturns
<1>4. QED BY <1>1, <1>2, <1>3 DEF CallStep

\* manager.Write does not end a handler that is still there.
LEMMA WriteEndsNoHandler ==
    ASSUME NEW c \in Calls, call \in [Calls -> CallRecords], call[c].pc # "idle", WriteStep(c)
    PROVE  call'[c].pc # "idle"
<1>1. CASE WriteStart(c) \/ WriteTemp(c) \/ WriteRename(c) \/ WriteRemove(c)
  BY <1>1 DEF WriteStart, WriteTemp, WriteRename, WriteRemove, WriteRefused, WriteReturns
<1>2. CASE CopyFromPipe(c)
  <2>1. \/ call' = [call EXCEPT ![c].pipe = "empty", ![c].pc = "recv"]
        \/ call' = call
    BY <1>2 DEF CopyFromPipe
  <2>2. QED BY <2>1 DEF CallRecords
<1>3. CASE CopyFromFile(c)
  <2>1. call' = [call EXCEPT ![c].sent = call[c].sent + 1] \/ call' = call
    BY <1>3 DEF CopyFromFile
  <2>2. QED BY <2>1 DEF CallRecords
<1>4. QED BY <1>1, <1>2, <1>3 DEF WriteStep

\* What a call answers is true: a download that ends with the final message has delivered
\* one whole upload, and an upload is confirmed only when Write has renamed its own file
\* with all of the chunks, unless clients have been at the temporary names themselves.
THEOREM AnswersTrueCorrect == FilesSpec => AnswersTrue
<1> DEFINE Truth(c) ==
             /\ call[c].pc = "last" /\ ~call[c].part /\ call[c].src \notin raw
                  => Whole(call[c].got)
             /\ call[c].op = "upload" /\ call[c].pc = "wait"
                  => /\ wr[c].pc = "done"
                     /\ wr[c].res = "ok" /\ wr[c].tmp \notin lost => wr[c].put = call[c].n
<1>1. FilesInv /\ [FilesNext]_fileVars => [\A c \in Calls : Returns(c) => Truth(c)]_fileVars
  <2> SUFFICES ASSUME FilesInv, FilesNext, NEW c \in Calls, Returns(c) PROVE Truth(c)
    OBVIOUS
  <2>1. call[c] \in CallRecords /\ wr[c] \in WriteRecords /\ Joined(call[c], wr[c]) /\ CallData(c)
    BY RecordsOf
  <2>2. call[c].pc # "idle" /\ call'[c].pc = "idle" /\ done' = done
    BY DEF Returns
  <2>3. ~Disturb
    <3>1. done \in 0..MaxCommands
      BY DEF FilesInv, FilesTyped
    <3>2. QED BY <2>2, <3>1, FilesAssumption DEF Disturb
  <2>4. CallStep(c)
    BY <2>2, <2>3, RecordsOf, OthersUntouched DEF FilesNext
  <2>5. call[c].pc = "last" => (~call[c].part /\ call[c].src \notin raw => Whole(call[c].got))
    BY <2>1 DEF Joined, CallData, Reads
  <2>6. SUFFICES ASSUME call[c].op = "upload", call[c].pc = "wait"
                 PROVE  /\ wr[c].pc = "done"
                        /\ wr[c].res = "ok" /\ wr[c].tmp \notin lost => wr[c].put = call[c].n
    BY <2>5
  <2>7. ~WriteStep(c)
    BY <2>2, RecordsOf, WriteEndsNoHandler
  <2>8. ~ClientGone(c)
    <3>1. SUFFICES ASSUME ClientGone(c) PROVE FALSE
      OBVIOUS
    <3>2. call' = [call EXCEPT ![c].gone = TRUE]
      BY <3>1 DEF ClientGone
    <3>3. call'[c].pc = call[c].pc
      BY <2>1, <3>2, RecordsOf DEF CallRecords
    <3>4. QED BY <2>2, <3>3
  <2>9. Answer(c)
    BY <2>4, <2>6, <2>7, <2>8 DEF CallStep, HandlerStep, UploadBegin, CopyBegin, DownloadBegin, Free,
       UploadRecv, UploadLast, UploadCut, DownloadRead, DownloadLast
  <2>10. wr[c].pc = "done"
    BY <2>9 DEF Answer
  <2>11. QED BY <2>1, <2>6, <2>10 DEF CallData
<1>2. QED BY <1>1, FilesInvCorrect, PTL DEF FilesSpec, AnswersTrue

=============================================================================
