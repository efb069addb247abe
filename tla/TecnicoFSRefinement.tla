------------------------- MODULE TecnicoFSRefinement -------------------------
(***************************************************************************)
(* If callers are careful, TecnicoFS implements FileStore: inodes, data    *)
(* blocks and directory entries hold what the named files are said to.     *)
(***************************************************************************)
EXTENDS TecnicoFSCareful, SequenceTheorems

Datum == Byte \cup {Garbage}

-----------------------------------------------------------------------------
(* Sequences.                                                              *)

LEMMA ThreeParts ==
    ASSUME NEW S, NEW a \in Seq(S), NEW b \in Seq(S), NEW c \in Seq(S),
           NEW abc, abc = a \o b \o c
    PROVE  /\ abc \in Seq(S)
           /\ Len(abc) = Len(a) + Len(b) + Len(c)
           /\ \A i \in 1 .. Len(a) + Len(b) + Len(c) :
                abc[i] = IF i <= Len(a) THEN a[i]
                         ELSE IF i <= Len(a) + Len(b) THEN b[i - Len(a)]
                         ELSE c[i - (Len(a) + Len(b))]
  <1>1. Len(a) \in Nat /\ Len(b) \in Nat /\ Len(c) \in Nat
    BY LenProperties
  <1>2. PICK ab : ab = a \o b
    OBVIOUS
  <1>3. abc = ab \o c
    BY <1>2
  <1>4. /\ ab \in Seq(S)
        /\ Len(ab) = Len(a) + Len(b)
        /\ \A i \in 1 .. Len(a) + Len(b) : ab[i] = IF i <= Len(a) THEN a[i] ELSE b[i - Len(a)]
    <2>1. /\ a \o b \in Seq(S)
          /\ Len(a \o b) = Len(a) + Len(b)
          /\ \A i \in 1 .. Len(a) + Len(b) :
               (a \o b)[i] = IF i <= Len(a) THEN a[i] ELSE b[i - Len(a)]
      BY ONLY ConcatProperties, Zenon
    <2> QED
      BY <1>2, <2>1, Zenon
  <1>5. /\ abc \in Seq(S)
        /\ Len(abc) = Len(a) + Len(b) + Len(c)
        /\ \A i \in 1 .. Len(a) + Len(b) + Len(c) :
             abc[i] = IF i <= Len(a) + Len(b) THEN ab[i] ELSE c[i - (Len(a) + Len(b))]
    <2>1. /\ abc \in Seq(S)
          /\ Len(abc) = Len(ab) + Len(c)
          /\ \A i \in 1 .. Len(ab) + Len(c) :
               abc[i] = IF i <= Len(ab) THEN ab[i] ELSE c[i - Len(ab)]
      <3>1. ab \in Seq(S)
        BY <1>4
      <3> QED
        <4>1. /\ ab \o c \in Seq(S)
              /\ Len(ab \o c) = Len(ab) + Len(c)
              /\ \A i \in 1 .. Len(ab) + Len(c) :
                   (ab \o c)[i] = IF i <= Len(ab) THEN ab[i] ELSE c[i - Len(ab)]
          BY ONLY <3>1, ConcatProperties, Zenon
        <4> QED
          BY <1>3, <4>1, Zenon
    <2>2. Len(ab) + Len(c) = Len(a) + Len(b) + Len(c)
      BY <1>4, Zenon
    <2>3. ASSUME NEW i \in 1 .. Len(a) + Len(b) + Len(c)
          PROVE  abc[i] = IF i <= Len(a) + Len(b) THEN ab[i] ELSE c[i - (Len(a) + Len(b))]
      <3>1. abc[i] = IF i <= Len(ab) THEN ab[i] ELSE c[i - Len(ab)]
        BY <2>1, <2>2, Zenon
      <3> QED
        BY <1>4, <3>1, Zenon
    <2> QED
      BY <2>1, <2>2, <2>3, Zenon
  <1>6. ASSUME NEW i \in 1 .. Len(a) + Len(b) + Len(c)
        PROVE  abc[i] = IF i <= Len(a) THEN a[i]
                        ELSE IF i <= Len(a) + Len(b) THEN b[i - Len(a)]
                        ELSE c[i - (Len(a) + Len(b))]
    <2>1. CASE i <= Len(a)
      <3>1. i <= Len(a) + Len(b)
        BY <1>1, <2>1
      <3>2. abc[i] = ab[i] /\ i \in 1 .. Len(a) + Len(b)
        BY <1>1, <1>5, <3>1
      <3> QED
        BY <1>4, <2>1, <3>2
    <2>2. CASE ~(i <= Len(a)) /\ i <= Len(a) + Len(b)
      <3>1. abc[i] = ab[i] /\ i \in 1 .. Len(a) + Len(b)
        BY <1>1, <1>5, <2>2
      <3> QED
        BY <1>4, <2>2, <3>1
    <2>3. CASE ~(i <= Len(a)) /\ ~(i <= Len(a) + Len(b))
      BY <1>5, <2>3
    <2> QED
      BY <1>1, <2>1, <2>2, <2>3
  <1> QED
    BY <1>5, <1>6, Zenon

(* A sequence with k elements of data stored over it after the first off.  *)
IsPatched(g, f, off, data, k) ==
    /\ off \in 0 .. Len(f) /\ k \in 0 .. Len(data)
    /\ Len(g) \in {off + k, Len(f)} /\ off + k <= Len(g) /\ Len(f) <= Len(g)
    /\ \A i \in 1 .. Len(g) :
         /\ off < i /\ i <= off + k => g[i] = data[i - off]
         /\ ~(off < i /\ i <= off + k) => g[i] = f[i]

LEMMA Patched ==
    ASSUME NEW S, NEW f \in Seq(S), NEW data \in Seq(S), NEW g \in Seq(S),
           NEW off, NEW k, IsPatched(g, f, off, data, k)
    PROVE  g = Store!Written(f, off, data, k)
  <1> USE DEF IsPatched
  <1> DEFINE a == SubSeq(f, 1, off)
             b == SubSeq(data, 1, k)
             c == SubSeq(f, off + k + 1, Len(f))
  <1>1. /\ Len(f) \in Nat /\ Len(data) \in Nat
        /\ \A i \in 1 .. Len(f) : f[i] \in S
        /\ \A i \in 1 .. Len(data) : data[i] \in S
    BY LenProperties, ElementOfSeq
  <1>2. /\ a \in Seq(S) /\ Len(a) = off
        /\ \A i \in 1 .. off : a[i] = f[i]
    <2>1. /\ 1 \in Int /\ off \in Int
          /\ \A i \in 1 .. off : f[i] \in S
      BY <1>1
    <2>2. /\ a \in Seq(S)
          /\ Len(a) = IF 1 <= off THEN off - 1 + 1 ELSE 0
          /\ \A i \in 1 .. off - 1 + 1 : a[i] = f[1 + i - 1]
      BY <2>1, SubSeqProperties
    <2> QED
      BY <1>1, <2>2
  <1>3. /\ b \in Seq(S) /\ Len(b) = k
        /\ \A i \in 1 .. k : b[i] = data[i]
    <2>1. /\ 1 \in Int /\ k \in Int
          /\ \A i \in 1 .. k : data[i] \in S
      BY <1>1
    <2>2. /\ b \in Seq(S)
          /\ Len(b) = IF 1 <= k THEN k - 1 + 1 ELSE 0
          /\ \A i \in 1 .. k - 1 + 1 : b[i] = data[1 + i - 1]
      BY <2>1, SubSeqProperties
    <2> QED
      BY <1>1, <2>2
  <1>4. /\ c \in Seq(S)
        /\ Len(c) = IF off + k + 1 <= Len(f) THEN Len(f) - (off + k) ELSE 0
        /\ \A i \in 1 .. Len(f) - (off + k) : c[i] = f[off + k + i]
    <2>1. /\ off + k + 1 \in Int /\ Len(f) \in Int
          /\ \A i \in off + k + 1 .. Len(f) : f[i] \in S
      BY <1>1
    <2>2. /\ c \in Seq(S)
          /\ Len(c) = IF off + k + 1 <= Len(f) THEN Len(f) - (off + k + 1) + 1 ELSE 0
          /\ \A i \in 1 .. Len(f) - (off + k + 1) + 1 : c[i] = f[off + k + 1 + i - 1]
      BY <2>1, SubSeqProperties
    <2> QED
      BY <1>1, <2>2
  <1> HIDE DEF a, b, c
  <1>5. PICK abc : abc = a \o b \o c
    OBVIOUS
  <1>6. /\ abc \in Seq(S)
        /\ Len(abc) = off + k + Len(c)
        /\ \A i \in 1 .. off + k + Len(c) :
             abc[i] = IF i <= off THEN a[i]
                      ELSE IF i <= off + k THEN b[i - off] ELSE c[i - (off + k)]
    <2>1. /\ abc \in Seq(S)
          /\ Len(abc) = Len(a) + Len(b) + Len(c)
          /\ \A i \in 1 .. Len(a) + Len(b) + Len(c) :
               abc[i] = IF i <= Len(a) THEN a[i]
                        ELSE IF i <= Len(a) + Len(b) THEN b[i - Len(a)]
                        ELSE c[i - (Len(a) + Len(b))]
      <3>1. a \in Seq(S) /\ b \in Seq(S) /\ c \in Seq(S)
        BY <1>2, <1>3, <1>4
      <3> QED
        BY <1>5, <3>1, ThreeParts
    <2>2. /\ Len(a) + Len(b) + Len(c) = off + k + Len(c)
          /\ Len(a) + Len(b) = off + k
      BY <1>2, <1>3, Zenon
    <2>3. ASSUME NEW i \in 1 .. off + k + Len(c)
          PROVE  abc[i] = IF i <= off THEN a[i]
                          ELSE IF i <= off + k THEN b[i - off] ELSE c[i - (off + k)]
      <3>1. abc[i] = IF i <= Len(a) THEN a[i]
                     ELSE IF i <= Len(a) + Len(b) THEN b[i - Len(a)]
                     ELSE c[i - (Len(a) + Len(b))]
        BY <2>1, <2>2, Zenon
      <3> QED
        BY <1>2, <2>2, <3>1, Zenon
    <2> QED
      BY <2>1, <2>2, <2>3, Zenon
  <1>7. Len(abc) = Len(g) /\ Len(g) = off + k + Len(c)
    <2>1. CASE off + k <= Len(f)
      <3>1. Len(g) = Len(f)
        BY <1>1, <2>1
      <3>2. Len(c) = Len(f) - (off + k)
        BY <1>1, <1>4, <2>1
      <3>3. Len(g) = off + k + Len(c)
        BY <1>1, <3>1, <3>2
      <3> QED
        BY <1>6, <3>3
    <2>2. CASE off + k > Len(f)
      <3>1. Len(g) = off + k
        BY <1>1, <2>2
      <3>2. Len(c) = 0
        BY <1>1, <1>4, <2>2
      <3>3. Len(g) = off + k + Len(c)
        BY <1>1, <3>1, <3>2
      <3> QED
        BY <1>6, <3>3
    <2> QED
      BY <1>1, <2>1, <2>2
  <1>8. ASSUME NEW i \in 1 .. Len(g) PROVE g[i] = abc[i]
    <2>1. CASE i <= off
      <3>1. abc[i] = a[i] /\ i \in 1 .. off
        BY <1>6, <1>7, <2>1
      <3>2. g[i] = f[i]
        BY <1>1, <2>1
      <3> QED
        BY <1>2, <3>1, <3>2
    <2>2. CASE off < i /\ i <= off + k
      <3>1. abc[i] = b[i - off] /\ i - off \in 1 .. k
        BY <1>1, <1>6, <1>7, <2>2
      <3> QED
        BY <1>3, <2>2, <3>1
    <2>3. CASE off + k < i
      <3>1. abc[i] = c[i - (off + k)]
        BY <1>1, <1>6, <1>7, <2>3
      <3>2. i - (off + k) \in 1 .. Len(f) - (off + k)
        BY <1>1, <2>3
      <3>3. c[i - (off + k)] = f[off + k + (i - (off + k))]
        BY <1>4, <3>2
      <3>4. off + k + (i - (off + k)) = i
        BY <1>1
      <3>5. g[i] = f[i]
        BY <1>1, <2>3
      <3> QED
        BY <3>1, <3>3, <3>4, <3>5
    <2> QED
      BY <1>1, <2>1, <2>2, <2>3
  <1>9. g = abc
    BY <1>6, <1>7, <1>8, SeqEqual
  <1> QED
    BY <1>5, <1>9, Zenon DEF a, b, c, Store!Written

-----------------------------------------------------------------------------
(* The refinement mapping, as a function of the tables D (dir), I          *)
(* (inode_table), F (fs_data), T (open_file_table) and E (its free map).   *)

Used(D, d, n) == D[d].d_inumber # -1 /\ D[d].d_name = n
UsedIn(D, n) == {d \in Entries : Used(D, d, n)}
InumberIn(D, n) == D[CHOOSE d \in UsedIn(D, n) : TRUE].d_inumber
NameIn(D, i) == D[CHOOSE d \in Entries : D[d].d_inumber = i].d_name

BytesIn(F, q, k) == [p \in 1 .. k |-> F[q + p - 1]]
ContentsIn(I, F, i) == BytesIn(F, PlaceOf(I[i].i_data_block), I[i].i_size)

FilesIn(D, I, F) ==
    [n \in Name |-> IF UsedIn(D, n) = {} THEN NoFile ELSE ContentsIn(I, F, InumberIn(D, n))]

HandlesIn(D, T, E) ==
    [h \in Handles |-> IF E[h] = "TAKEN"
                       THEN [file |-> NameIn(D, T[h].of_inumber), offset |-> T[h].of_offset]
                       ELSE Closed]

(* Two entries in use have different names and different inodes.           *)
NoDuplicate(D) ==
    \A d, e \in Entries :
        /\ D[d].d_inumber # -1 /\ D[e].d_inumber # -1
        /\ D[d].d_inumber = D[e].d_inumber \/ D[d].d_name = D[e].d_name
        => d = e

LEMMA MappingNow ==
    files = FilesIn(dir, inode_table, fs_data)
    /\ handles = HandlesIn(dir, open_file_table, free_open_file_entries)
  BY DEF files, handles, FilesIn, HandlesIn, Matches, UsedIn, Used, Contents, ContentsIn, BytesAt,
         BytesIn, InumberOf, InumberIn, NameOf, NameIn, IsOpen, OffsetOf

LEMMA MappingNext ==
    files' = FilesIn(dir', inode_table', fs_data')
    /\ handles' = HandlesIn(dir', open_file_table', free_open_file_entries')
  BY DEF files, handles, FilesIn, HandlesIn, Matches, UsedIn, Used, Contents, ContentsIn, BytesAt,
         BytesIn, InumberOf, InumberIn, NameOf, NameIn, IsOpen, OffsetOf

LEMMA DuplicatesNow == DirectoryIsExact => NoDuplicate(dir)
  BY DEF DirectoryIsExact, NoDuplicate

LEMMA DuplicatesNext == DirectoryIsExact' => NoDuplicate(dir')
  BY DEF DirectoryIsExact, NoDuplicate

(* The file and the handle that an entry in use stands for.                *)
LEMMA FileAt ==
    ASSUME NEW D, NEW I, NEW F, NoDuplicate(D), NEW n \in Name, NEW d \in Entries, Used(D, d, n)
    PROVE  FilesIn(D, I, F)[n] = ContentsIn(I, F, D[d].d_inumber)
  <1>1. \A e \in UsedIn(D, n) : e = d
    BY DEF UsedIn, Used, NoDuplicate
  <1>2. d \in UsedIn(D, n)
    BY DEF UsedIn
  <1>3. (CHOOSE e \in UsedIn(D, n) : TRUE) = d
    BY <1>1, <1>2
  <1> QED
    BY <1>2, <1>3 DEF FilesIn, InumberIn

LEMMA NoFileAt ==
    ASSUME NEW D, NEW I, NEW F, NEW n \in Name, \A d \in Entries : ~Used(D, d, n)
    PROVE  FilesIn(D, I, F)[n] = NoFile
  BY DEF FilesIn, UsedIn

LEMMA NameAt ==
    ASSUME NEW D, NoDuplicate(D), NEW d \in Entries, D[d].d_inumber # -1
    PROVE  NameIn(D, D[d].d_inumber) = D[d].d_name
  <1>1. \A e \in Entries : D[e].d_inumber = D[d].d_inumber => e = d
    BY DEF NoDuplicate
  <1>2. (CHOOSE e \in Entries : D[e].d_inumber = D[d].d_inumber) = d
    BY <1>1
  <1> QED
    BY <1>2 DEF NameIn

LEMMA EmptyContents ==
    ASSUME NEW I, NEW F, NEW i, I[i].i_size = 0
    PROVE  ContentsIn(I, F, i) = <<>>
  <1>1. \A q : BytesIn(F, q, 0) = <<>>
    BY DEF BytesIn
  <1> QED
    BY <1>1 DEF ContentsIn

-----------------------------------------------------------------------------
(* What the mapping shows of a state.                                      *)

LEMMA ContentsType ==
    ASSUME IInv, NEW i \in Inumbers, Live(i)
    PROVE  /\ ContentsIn(inode_table, fs_data, i) \in Seq(Datum)
           /\ Len(ContentsIn(inode_table, fs_data, i)) = inode_table[i].i_size
           /\ \A p \in 1 .. inode_table[i].i_size :
                ContentsIn(inode_table, fs_data, i)[p] = fs_data[PlaceOf(BlockOf(i)) + p - 1]
           /\ \A p \in 1 .. inode_table[i].i_size : PlaceOf(BlockOf(i)) + p - 1 \in Places
  <1> DEFINE k == inode_table[i].i_size
             q == PlaceOf(BlockOf(i))
  <1>1. k \in 0 .. BLOCK_SIZE /\ k \in Nat
    BY SizesFit DEF IInv, TypeOK, Inode
  <1>2. \A p \in 1 .. k : q + p - 1 \in Places
    <2>1. CASE k = 0
      BY <2>1
    <2>2. CASE k > 0
      <3>1. BlockOf(i) \in Blocks
        BY <2>2 DEF IInv, BlocksAreOwned, HasBlock, BlockOf
      <3>2. q \in Nat /\ InMemory(BlockOf(i), 0, k) /\ MemorySize \in Nat
        BY <1>1, <3>1, PlaceType, BlockInMemory, SizesFit
      <3>3. q + k <= MemorySize
        BY <1>1, <3>2 DEF InMemory
      <3> HIDE DEF q, k
      <3> QED
        BY <1>1, <3>2, <3>3 DEF Places
    <2> QED
      BY <1>1, <2>1, <2>2
  <1>3. \A p \in 1 .. k : fs_data[q + p - 1] \in Datum
    BY <1>2 DEF IInv, TypeOK, Datum
  <1>4. ContentsIn(inode_table, fs_data, i) = [p \in 1 .. k |-> fs_data[q + p - 1]]
    BY DEF ContentsIn, BytesIn, BlockOf
  <1> HIDE DEF q, k
  <1>5. PICK f : f = [p \in 1 .. k |-> fs_data[q + p - 1]]
    OBVIOUS
  <1>6. f \in Seq(Datum) /\ Len(f) = k /\ \A p \in 1 .. k : f[p] = fs_data[q + p - 1]
    BY <1>1, <1>3, <1>5
  <1> QED
    BY <1>2, <1>4, <1>5, <1>6 DEF q, k

(* An open handle is a name and an offset; the name has the contents of    *)
(* the handle's inode.                                                     *)
LEMMA OpenHandle ==
    ASSUME IInv, CInv, NEW h \in Handles, IsOpen(h)
    PROVE  \E n \in Name, d \in Entries :
             /\ Used(dir, d, n) /\ dir[d].d_inumber = open_file_table[h].of_inumber
             /\ handles[h] = [file |-> n, offset |-> OffsetOf(h)]
             /\ files[n] = ContentsIn(inode_table, fs_data, open_file_table[h].of_inumber)
  <1> DEFINE inum == open_file_table[h].of_inumber
  <1>1. inum \in Inumbers /\ Live(inum) /\ inum # ROOT_DIR_INUM
    BY FreshOffset DEF IInv, CInv
  <1>2. PICK d \in Entries : dir[d].d_inumber = inum
    BY <1>1 DEF IInv, DirectoryIsExact
  <1>3. dir[d].d_inumber # -1
    BY <1>1, <1>2 DEF Inumbers
  <1>4. dir[d].d_name \in Name /\ Used(dir, d, dir[d].d_name) /\ NoDuplicate(dir)
    BY <1>3, DuplicatesNow DEF IInv, DirectoryIsExact, Used
  <1>5. handles[h] = [file |-> dir[d].d_name, offset |-> OffsetOf(h)]
    <2>1. NameIn(dir, inum) = dir[d].d_name
      BY <1>2, <1>3, <1>4, NameAt
    <2> QED
      BY <2>1, MappingNow DEF HandlesIn, IsOpen, OffsetOf
  <1>6. files[dir[d].d_name] = ContentsIn(inode_table, fs_data, inum)
    BY <1>2, <1>4, FileAt, MappingNow
  <1> QED
    BY <1>2, <1>4, <1>5, <1>6

(* A handle looks closed exactly when it is free.                          *)
LEMMA ClosedIsFree ==
    ASSUME IInv, CInv, NEW h \in Handles
    PROVE  handles[h] = Closed <=> free_open_file_entries[h] = "FREE"
  <1>1. CASE IsOpen(h)
    <2>1. PICK n \in Name : handles[h] = [file |-> n, offset |-> OffsetOf(h)]
      BY <1>1, OpenHandle
    <2>2. OffsetOf(h) \in Nat
      BY SizesFit DEF IInv, TypeOK, OpenFile, OffsetOf
    <2>3. handles[h] # Closed
      BY <2>1, <2>2, StoreAssumption
    <2> QED
      BY <1>1, <2>3 DEF IsOpen
  <1>2. CASE ~IsOpen(h)
    BY <1>2, MappingNow DEF HandlesIn, IsOpen, IInv, TypeOK
  <1> QED
    BY <1>1, <1>2

(* A name that is looked up and found has a file.                          *)
LEMMA FoundFile ==
    ASSUME IInv, NEW n, NEW inum \in Inumbers, tfs_lookup(n, inum)
    PROVE  \E d \in Entries :
             /\ n \in Name /\ Used(dir, d, n) /\ dir[d].d_inumber = inum
             /\ Live(inum) /\ inum # ROOT_DIR_INUM
             /\ files[n] = ContentsIn(inode_table, fs_data, inum)
             /\ files[n] # NoFile
  <1>1. PICK d \in Entries : dir[d].d_inumber = inum /\ dir[d].d_name = n
    BY LookupFinds DEF IInv
  <1>2. n \in Name /\ Live(inum) /\ inum # ROOT_DIR_INUM /\ inum # -1
    BY LookupFinds DEF IInv, Inumbers
  <1>3. Used(dir, d, n) /\ NoDuplicate(dir)
    BY <1>1, <1>2, DuplicatesNow DEF IInv, Used
  <1>4. files[n] = ContentsIn(inode_table, fs_data, inum)
    BY <1>1, <1>2, <1>3, FileAt, MappingNow
  <1>5. files[n] # NoFile
    BY <1>2, <1>4, ContentsType, StoreAssumption DEF Datum
  <1> QED
    BY <1>1, <1>2, <1>3, <1>4, <1>5

-----------------------------------------------------------------------------
(* What the mapping shows of a step.                                       *)

LEMMA FilesEqual ==
    ASSUME \A n \in Name : files'[n] = files[n]
    PROVE  files' = files
  <1>1. files = [n \in Name |-> files[n]] /\ files' = [n \in Name |-> files'[n]]
    BY MappingNow, MappingNext DEF FilesIn
  <1> QED
    BY <1>1

LEMMA FilesExcept ==
    ASSUME NEW n \in Name, NEW v, files'[n] = v,
           \A m \in Name : m # n => files'[m] = files[m]
    PROVE  files' = [files EXCEPT ![n] = v]
  <1>1. files = [m \in Name |-> files[m]] /\ files' = [m \in Name |-> files'[m]]
    BY MappingNow, MappingNext DEF FilesIn
  <1> QED
    BY <1>1

LEMMA HandlesEqual ==
    ASSUME \A h \in Handles : handles'[h] = handles[h]
    PROVE  handles' = handles
  <1>1. handles = [h \in Handles |-> handles[h]] /\ handles' = [h \in Handles |-> handles'[h]]
    BY MappingNow, MappingNext DEF HandlesIn
  <1> QED
    BY <1>1

LEMMA HandlesExcept ==
    ASSUME NEW h \in Handles, NEW v, handles'[h] = v,
           \A g \in Handles : g # h => handles'[g] = handles[g]
    PROVE  handles' = [handles EXCEPT ![h] = v]
  <1>1. handles = [g \in Handles |-> handles[g]] /\ handles' = [g \in Handles |-> handles'[g]]
    BY MappingNow, MappingNext DEF HandlesIn
  <1> QED
    BY <1>1

Contents1(i) == ContentsIn(inode_table, fs_data, i)
Contents2(i) == ContentsIn(inode_table', fs_data', i)

(* A name whose entry stays, and with it the contents of its inode.        *)
LEMMA FileStays ==
    ASSUME IInv, IInv', NEW n \in Name,
           \A d \in Entries : Used(dir, d, n) =>
             dir'[d] = dir[d] /\ Contents2(dir[d].d_inumber) = Contents1(dir[d].d_inumber),
           (\A d \in Entries : ~Used(dir, d, n)) => \A d \in Entries : ~Used(dir', d, n)
    PROVE  files'[n] = files[n]
  <1>1. NoDuplicate(dir) /\ NoDuplicate(dir')
    BY DuplicatesNow, DuplicatesNext DEF IInv
  <1>2. CASE \E d \in Entries : Used(dir, d, n)
    <2>1. PICK d \in Entries : Used(dir, d, n)
      BY <1>2
    <2>2. Used(dir', d, n)
      BY <2>1 DEF Used
    <2>3. files[n] = Contents1(dir[d].d_inumber)
      BY <1>1, <2>1, FileAt, MappingNow DEF Contents1
    <2>4. files'[n] = Contents2(dir'[d].d_inumber)
      BY <1>1, <2>2, FileAt, MappingNext DEF Contents2
    <2> QED
      BY <2>1, <2>3, <2>4
  <1>3. CASE \A d \in Entries : ~Used(dir, d, n)
    BY <1>3, NoFileAt, MappingNow, MappingNext
  <1> QED
    BY <1>2, <1>3

(* Every file stays when directory and contents of what exists do.         *)
LEMMA FilesStay ==
    ASSUME IInv, IInv', UNCHANGED dir,
           \A i \in Inumbers : Live(i) => Contents2(i) = Contents1(i)
    PROVE  files' = files
  <1>1. \A d \in Entries : dir[d].d_inumber # -1 =>
          dir[d].d_inumber \in Inumbers /\ Live(dir[d].d_inumber)
    BY DEF IInv, TypeOK, DirEntry, DirectoryIsExact
  <1>2. ASSUME NEW n \in Name PROVE files'[n] = files[n]
    <2>1. \A d \in Entries : Used(dir, d, n) => Contents2(dir[d].d_inumber) = Contents1(dir[d].d_inumber)
      BY <1>1 DEF Used
    <2> QED
      BY <2>1, FileStays
  <1> QED
    BY <1>2, FilesEqual

(* A handle that stays open or closed, on a file that keeps its entry.     *)
LEMMA HandleStays ==
    ASSUME IInv, IInv', CInv, NEW h \in Handles,
           free_open_file_entries'[h] = free_open_file_entries[h],
           open_file_table'[h] = open_file_table[h],
           \A d \in Entries : dir[d].d_inumber = open_file_table[h].of_inumber /\ IsOpen(h)
             => dir'[d] = dir[d]
    PROVE  handles'[h] = handles[h]
  <1>1. CASE ~IsOpen(h)
    BY <1>1, MappingNow, MappingNext DEF IsOpen, HandlesIn
  <1>2. CASE IsOpen(h)
    <2>1. PICK n \in Name, d \in Entries :
            /\ Used(dir, d, n) /\ dir[d].d_inumber = open_file_table[h].of_inumber
            /\ handles[h] = [file |-> n, offset |-> OffsetOf(h)]
      BY <1>2, OpenHandle
    <2>2. Used(dir', d, n) /\ dir'[d].d_inumber = open_file_table[h].of_inumber
      BY <1>2, <2>1 DEF Used
    <2>3. NameIn(dir', open_file_table[h].of_inumber) = n
      BY <2>2, NameAt, DuplicatesNext DEF IInv, Used
    <2> QED
      BY <1>2, <2>1, <2>3, MappingNext DEF HandlesIn, IsOpen, OffsetOf
  <1> QED
    BY <1>1, <1>2

LEMMA HandlesStay ==
    ASSUME IInv, IInv', CInv, UNCHANGED <<dir, opens>>
    PROVE  handles' = handles
  <1>1. \A h \in Handles : handles'[h] = handles[h]
    BY HandleStays DEF opens
  <1> QED
    BY <1>1, HandlesEqual

(* A handle that moves on in its file.                                     *)
LEMMA HandleMoves ==
    ASSUME IInv, IInv', CInv, NEW h \in Handles, IsOpen(h), NEW k, Advance(h, k),
           UNCHANGED <<dir, free_open_file_entries>>
    PROVE  handles' = [handles EXCEPT ![h].offset = OffsetOf(h) + k]
  <1>1. PICK n \in Name, d \in Entries :
          /\ Used(dir, d, n) /\ dir[d].d_inumber = open_file_table[h].of_inumber
          /\ handles[h] = [file |-> n, offset |-> OffsetOf(h)]
    BY OpenHandle
  <1>2. /\ open_file_table'[h].of_inumber = open_file_table[h].of_inumber
        /\ open_file_table'[h].of_offset = OffsetOf(h) + k
        /\ \A g \in Handles : g # h => open_file_table'[g] = open_file_table[g]
    BY DEF Advance, OffsetOf, IInv, TypeOK, OpenFile
  <1>3. NameIn(dir, open_file_table[h].of_inumber) = n
    BY <1>1, NameAt, DuplicatesNow DEF IInv, Used
  <1>4. handles'[h] = [file |-> n, offset |-> OffsetOf(h) + k]
    BY <1>2, <1>3, MappingNext DEF HandlesIn, IsOpen
  <1>5. \A g \in Handles : g # h => handles'[g] = handles[g]
    BY <1>2, HandleStays
  <1>6. handles' = [handles EXCEPT ![h] = [file |-> n, offset |-> OffsetOf(h) + k]]
    BY <1>4, <1>5, HandlesExcept
  <1>7. [handles[h] EXCEPT !.offset = OffsetOf(h) + k] = [file |-> n, offset |-> OffsetOf(h) + k]
    BY <1>1
  <1>8. [handles EXCEPT ![h].offset = OffsetOf(h) + k]
          = [handles EXCEPT ![h] = [handles[h] EXCEPT !.offset = OffsetOf(h) + k]]
    OBVIOUS
  <1> QED
    BY <1>6, <1>7, <1>8

(* tfs_open gets the first free handle, or none.                           *)
LEMMA HandleOpens ==
    ASSUME IInv, IInv', CInv, NEW inum \in Inumbers, NEW offset, NEW n \in Name,
           NEW d \in Entries, Used(dir', d, n), dir'[d].d_inumber = inum,
           \A e \in Entries : dir[e].d_inumber # -1 => dir'[e] = dir[e],
           add_to_open_file_table(inum, offset)
    PROVE  \/ \E h \in Handles :
                /\ Returns(h) /\ handles[h] = Closed
                /\ handles' = [handles EXCEPT ![h] = [file |-> n, offset |-> offset]]
           \/ /\ Returns(-1) /\ handles' = handles
              /\ \A h \in Handles : handles[h] # Closed
  <1>1. ASSUME NEW g \in Handles, IsOpen(g), NEW e \in Entries,
               dir[e].d_inumber = open_file_table[g].of_inumber
        PROVE  dir'[e] = dir[e]
    BY <1>1, FreshOffset DEF IInv, CInv, Inumbers
  <1>2. ASSUME NEW h \in Handles,
               First(FreeIn(free_open_file_entries), h),
               free_open_file_entries' = [free_open_file_entries EXCEPT ![h] = "TAKEN"],
               open_file_table' =
                 [open_file_table EXCEPT ![h] = [of_inumber |-> inum, of_offset |-> offset]]
        PROVE  /\ handles[h] = Closed
               /\ handles' = [handles EXCEPT ![h] = [file |-> n, offset |-> offset]]
    <2>1. handles[h] = Closed
      BY <1>2, ClosedIsFree DEF First, FreeIn
    <2>2. /\ open_file_table'[h] = [of_inumber |-> inum, of_offset |-> offset]
          /\ free_open_file_entries'[h] = "TAKEN"
          /\ \A g \in Handles : g # h =>
               /\ open_file_table'[g] = open_file_table[g]
               /\ free_open_file_entries'[g] = free_open_file_entries[g]
      BY <1>2 DEF IInv, TypeOK
    <2>3. NameIn(dir', inum) = n
      BY NameAt, DuplicatesNext DEF IInv, Used
    <2>4. handles'[h] = [file |-> n, offset |-> offset]
      BY <2>2, <2>3, MappingNext DEF HandlesIn
    <2>5. \A g \in Handles : g # h => handles'[g] = handles[g]
      BY <1>1, <2>2, HandleStays
    <2> QED
      BY <2>1, <2>4, <2>5, HandlesExcept
  <1>3. ASSUME FreeIn(free_open_file_entries) = {}, UNCHANGED opens
        PROVE  handles' = handles /\ \A h \in Handles : handles[h] # Closed
    <2>1. \A h \in Handles : handles'[h] = handles[h]
      BY <1>1, <1>3, HandleStays DEF opens
    <2>2. \A h \in Handles : handles[h] # Closed
      BY <1>3, ClosedIsFree DEF FreeIn, IInv, TypeOK
    <2> QED
      BY <2>1, <2>2, HandlesEqual
  <1> QED
    BY <1>2, <1>3 DEF add_to_open_file_table

-----------------------------------------------------------------------------
(* Each action is a step of FileStore.                                     *)

LEMMA FailMaps ==
    ASSUME IInv, IInv', CInv, Returns(-1), UNCHANGED <<dir, opens>>,
           \A i \in Inumbers : Live(i) => Contents2(i) = Contents1(i)
    PROVE  Store!Fail
  <1>1. files' = files /\ handles' = handles
    BY FilesStay, HandlesStay
  <1> QED
    BY <1>1 DEF Store!Fail, Store!Returns, Returns

LEMMA FailsMaps ==
    ASSUME IInv, IInv', CInv, Fails
    PROVE  Store!Fail
  <1>1. \A i : Contents2(i) = Contents1(i)
    BY DEF Fails, inodes, blocks, Contents1, Contents2
  <1> QED
    BY <1>1, FailMaps DEF Fails

(* A file whose entry no open handle's inode has.                          *)
LEMMA NobodyHas ==
    ASSUME IInv, CInv, NEW n \in Name,
           \A h \in Handles, d \in Entries :
             IsOpen(h) /\ dir[d].d_inumber = open_file_table[h].of_inumber => ~Used(dir, d, n)
    PROVE  Store!NotOpen(n)
  <1> SUFFICES ASSUME NEW h \in Handles, handles[h] # Closed
               PROVE  handles[h].file # n
    BY DEF Store!NotOpen
  <1>1. IsOpen(h)
    BY ClosedIsFree DEF IsOpen, IInv, TypeOK
  <1>2. PICK m \in Name, d \in Entries :
          /\ Used(dir, d, m) /\ dir[d].d_inumber = open_file_table[h].of_inumber
          /\ handles[h] = [file |-> m, offset |-> OffsetOf(h)]
    BY <1>1, OpenHandle
  <1>3. m # n
    BY <1>1, <1>2
  <1> QED
    BY <1>2, <1>3

LEMMA NobodyHasFound ==
    ASSUME Careful, IInv, CInv, NEW n \in Name, NEW inum \in Inumbers, tfs_lookup(n, inum),
           MayDiscard(n)
    PROVE  Store!NotOpen(n)
  <1>1. \A h \in Handles : IsOpen(h) => open_file_table[h].of_inumber # inum
    BY DiscardsNothingOpen
  <1>2. \A d \in Entries : Used(dir, d, n) => dir[d].d_inumber = inum
    <2>1. PICK d \in Entries : Used(dir, d, n) /\ dir[d].d_inumber = inum
      BY FoundFile
    <2> QED
      BY <2>1, DuplicatesNow DEF IInv, NoDuplicate, Used
  <1> QED
    BY <1>1, <1>2, NobodyHas

LEMMA OpenExistingMaps ==
    ASSUME Careful, IInv, IInv', CInv, NEW n, NEW mode,
           "TRUNC" \in mode => MayDiscard(n), OpenExisting(n, mode)
    PROVE  n \in Name /\ Store!Open(n)
  <1>1. PICK inum \in Inumbers :
          /\ tfs_lookup(n, inum)
          /\ IF "TRUNC" \in mode /\ inode_table[inum].i_size > 0
             THEN Truncate(inum)
             ELSE UNCHANGED <<free_blocks, inode_table, status>>
          /\ add_to_open_file_table(inum, IF "APPEND" \in mode THEN inode_table'[inum].i_size ELSE 0)
          /\ UNCHANGED <<freeinode_ts, fs_data, dir>>
    BY DEF OpenExisting
  <1>2. PICK d \in Entries :
          /\ n \in Name /\ Used(dir, d, n) /\ dir[d].d_inumber = inum
          /\ Live(inum)
          /\ files[n] = Contents1(inum) /\ files[n] # NoFile
    BY <1>1, FoundFile DEF Contents1
  <1> DEFINE offset == IF "APPEND" \in mode THEN inode_table'[inum].i_size ELSE 0
  <1>3. /\ Store!Created(n)
        /\ offset \in 0 .. BLOCK_SIZE
        /\ offset \in {0, Len(files'[n])}
    <2>1. CASE UNCHANGED inode_table
      <3>1. \A i : Contents2(i) = Contents1(i)
        BY <1>1, <2>1 DEF Contents1, Contents2
      <3>2. files' = files
        BY <1>1, <3>1, FilesStay
      <3>3. Len(files'[n]) = inode_table'[inum].i_size
        BY <1>2, <2>1, <3>2, ContentsType DEF Contents1
      <3>4. inode_table'[inum].i_size \in 0 .. BLOCK_SIZE /\ 0 \in 0 .. BLOCK_SIZE
        BY <2>1, SizesFit DEF IInv, TypeOK, Inode
      <3> QED
        BY <1>2, <3>2, <3>3, <3>4 DEF Store!Created
    <2>2. ASSUME "TRUNC" \in mode, Truncate(inum)
          PROVE  /\ Store!Created(n)
                 /\ offset \in 0 .. BLOCK_SIZE
                 /\ offset \in {0, Len(files'[n])}
      <3>1. /\ inode_table'[inum].i_size = 0
            /\ \A i \in Inumbers : i # inum => inode_table'[i] = inode_table[i]
        BY <2>2 DEF Truncate, IInv, TypeOK, Inode
      <3>2. \A i \in Inumbers : i # inum => Contents2(i) = Contents1(i)
        BY <1>1, <3>1 DEF Contents1, Contents2, ContentsIn
      <3>3. files'[n] = <<>>
        <4>1. Contents2(inum) = <<>>
          BY <3>1, EmptyContents DEF Contents2
        <4>2. Used(dir', d, n) /\ dir'[d].d_inumber = inum /\ NoDuplicate(dir')
          BY <1>1, <1>2, DuplicatesNext DEF IInv
        <4> QED
          BY <1>2, <4>1, <4>2, FileAt, MappingNext DEF Contents2
      <3>4. ASSUME NEW m \in Name, m # n PROVE files'[m] = files[m]
        <4>1. \A e \in Entries : Used(dir, e, m) =>
                dir[e].d_inumber \in Inumbers /\ dir[e].d_inumber # inum
          BY <1>2, <3>4 DEF Used, IInv, TypeOK, DirEntry, DirectoryIsExact
        <4> QED
          BY <1>1, <3>2, <4>1, FileStays
      <3>5. files' = [files EXCEPT ![n] = <<>>]
        BY <1>2, <3>3, <3>4, FilesExcept
      <3>6. Len(files'[n]) = 0
        BY <3>3
      <3>7. 0 \in 0 .. BLOCK_SIZE
        BY SizesFit
      <3>8. Store!NotOpen(n)
        BY <1>1, <1>2, <2>2, NobodyHasFound
      <3> QED
        BY <3>1, <3>5, <3>6, <3>7, <3>8 DEF Store!Created
    <2> QED
      BY <1>1, <2>1, <2>2
  <1> HIDE DEF offset
  <1>4. add_to_open_file_table(inum, offset)
    BY <1>1 DEF offset
  <1>5. \/ \E h \in Handles :
            /\ Returns(h) /\ handles[h] = Closed
            /\ handles' = [handles EXCEPT ![h] = [file |-> n, offset |-> offset]]
        \/ /\ Returns(-1) /\ handles' = handles
           /\ \A h \in Handles : handles[h] # Closed
    BY <1>1, <1>2, <1>4, HandleOpens DEF Used
  <1> QED
    BY <1>2, <1>3, <1>5 DEF Store!Open, Store!Returns, Returns

LEMMA OpenCreateMaps ==
    ASSUME IInv, IInv', CInv, NEW n \in Name \cup {LongName}, NEW mode, OpenCreate(n, mode)
    PROVE  n \in Name /\ Store!Open(n)
  <1>1. PICK inum \in Inumbers, d \in Entries :
          /\ First(FreeIn(freeinode_ts), inum)
          /\ First({e \in Entries : dir[e].d_inumber = -1}, d)
          /\ inode_table' = [inode_table EXCEPT ![inum] = EmptyInode]
          /\ dir' = [dir EXCEPT ![d] = [d_name |-> n, d_inumber |-> inum]]
          /\ add_to_open_file_table(inum, 0)
    BY DEF OpenCreate
  <1>2. n \in Name /\ UNCHANGED fs_data
    BY DEF OpenCreate, blocks
  <1>3. ~Live(inum) /\ inum # -1 /\ dir[d].d_inumber = -1
    BY <1>1 DEF First, FreeIn, Live, Inumbers
  <1>4. /\ Used(dir', d, n) /\ dir'[d].d_inumber = inum
        /\ \A e \in Entries : e # d => dir'[e] = dir[e]
        /\ \A e \in Entries : dir[e].d_inumber # -1 => dir'[e] = dir[e]
    BY <1>1, <1>3 DEF IInv, TypeOK, Used
  <1>5. /\ inode_table'[inum].i_size = 0
        /\ \A i \in Inumbers : i # inum => inode_table'[i] = inode_table[i]
    BY <1>1 DEF IInv, TypeOK, EmptyInode
  <1>6. files'[n] = <<>>
    <2>1. Contents2(inum) = <<>>
      BY <1>5, EmptyContents DEF Contents2
    <2> QED
      BY <1>2, <1>4, <2>1, FileAt, DuplicatesNext, MappingNext DEF IInv, Contents2
  <1>7. ASSUME NEW m \in Name, m # n PROVE files'[m] = files[m]
    <2>1. ASSUME NEW e \in Entries, Used(dir, e, m)
          PROVE  dir'[e] = dir[e] /\ Contents2(dir[e].d_inumber) = Contents1(dir[e].d_inumber)
      <3>1. dir[e].d_inumber \in Inumbers /\ Live(dir[e].d_inumber)
        BY <2>1 DEF Used, IInv, TypeOK, DirEntry, DirectoryIsExact
      <3> QED
        BY <1>2, <1>3, <1>4, <1>5, <2>1, <3>1 DEF Used, Contents1, Contents2, ContentsIn
    <2>2. (\A e \in Entries : ~Used(dir, e, m)) => \A e \in Entries : ~Used(dir', e, m)
      BY <1>4, <1>7 DEF Used
    <2> QED
      BY <2>1, <2>2, FileStays
  <1>8. files' = [files EXCEPT ![n] = <<>>]
    BY <1>2, <1>6, <1>7, FilesExcept
  <1>9. \/ \E h \in Handles :
            /\ Returns(h) /\ handles[h] = Closed
            /\ handles' = [handles EXCEPT ![h] = [file |-> n, offset |-> 0]]
        \/ /\ Returns(-1) /\ handles' = handles
           /\ \A h \in Handles : handles[h] # Closed
    BY <1>1, <1>2, <1>4, HandleOpens
  <1>10. 0 \in 0 .. BLOCK_SIZE
    BY SizesFit
  <1>11. Store!NotOpen(n)
    <2>1. \A e \in Entries : ~Used(dir, e, n)
      BY DEF OpenCreate, Matches, Used
    <2> QED
      BY <1>2, <2>1, NobodyHas
  <1> QED
    BY <1>2, <1>8, <1>9, <1>10, <1>11 DEF Store!Open, Store!Created, Store!Returns, Returns

LEMMA OpenCreateUndoneMaps ==
    ASSUME IInv, IInv', CInv, NEW n, NEW mode, OpenCreateUndone(n, mode)
    PROVE  Store!Fail
  <1>1. PICK inum \in Inumbers :
          /\ First(FreeIn(freeinode_ts), inum)
          /\ inode_table' = [inode_table EXCEPT ![inum] = EmptyInode]
    BY DEF OpenCreateUndone
  <1>2. \A i \in Inumbers : Live(i) => inode_table'[i] = inode_table[i]
    BY <1>1 DEF First, FreeIn, Live, IInv, TypeOK
  <1>3. \A i \in Inumbers : Live(i) => Contents2(i) = Contents1(i)
    BY <1>2 DEF OpenCreateUndone, blocks, Contents1, Contents2, ContentsIn
  <1> QED
    BY <1>3, FailMaps DEF OpenCreateUndone

LEMMA CloseMaps ==
    ASSUME IInv, IInv', CInv, NEW h \in Handles, tfs_close(h)
    PROVE  Store!Close(h)
  <1>1. \A i : Contents2(i) = Contents1(i)
    BY DEF tfs_close, inodes, blocks, Contents1, Contents2
  <1>2. files' = files
    BY <1>1, FilesStay DEF tfs_close
  <1>3. handles[h] # Closed
    BY ClosedIsFree DEF tfs_close, IsOpen
  <1>4. /\ free_open_file_entries'[h] = "FREE"
        /\ \A g \in Handles : g # h =>
             /\ open_file_table'[g] = open_file_table[g]
             /\ free_open_file_entries'[g] = free_open_file_entries[g]
    BY DEF tfs_close, IInv, TypeOK
  <1>5. handles'[h] = Closed
    BY <1>4, MappingNext DEF HandlesIn
  <1>6. \A g \in Handles : g # h => handles'[g] = handles[g]
    BY <1>4, HandleStays DEF tfs_close
  <1>7. handles' = [handles EXCEPT ![h] = Closed]
    BY <1>5, <1>6, HandlesExcept
  <1> QED
    BY <1>2, <1>3, <1>7 DEF tfs_close, Store!Close, Store!Returns, Returns

LEMMA UnlinkMaps ==
    ASSUME Careful, IInv, IInv', CInv, NEW n, MayDiscard(n), UnlinkFile(n)
    PROVE  n \in Name /\ Store!Unlink(n)
  <1>1. PICK inum \in Inumbers : tfs_lookup(n, inum)
    BY DEF UnlinkFile
  <1>2. PICK d \in Entries :
          /\ First({e \in Entries : dir[e].d_name = n}, d)
          /\ dir' = [dir EXCEPT ![d] = [d_name |-> NoName, d_inumber |-> -1]]
    BY DEF UnlinkFile
  <1>3. n \in Name /\ inum # -1 /\ files[n] # NoFile
    BY <1>1, FoundFile DEF Inumbers
  <1>4. dir[d].d_inumber = inum /\ dir[d].d_name = n
    BY <1>1, <1>2, ClearsTheEntryFound DEF IInv
  <1>5. /\ dir'[d].d_inumber = -1
        /\ \A e \in Entries : e # d => dir'[e] = dir[e]
    BY <1>2 DEF IInv, TypeOK
  <1>6. \A e \in Entries : dir[e].d_inumber # -1 /\ e # d =>
          dir[e].d_name # n /\ dir[e].d_inumber # inum
    BY <1>3, <1>4 DEF IInv, DirectoryIsExact
  <1>7. files'[n] = NoFile
    <2>1. \A e \in Entries : ~Used(dir', e, n)
      BY <1>5, <1>6 DEF Used
    <2> QED
      BY <1>3, <2>1, NoFileAt, MappingNext
  <1>8. ASSUME NEW m \in Name, m # n PROVE files'[m] = files[m]
    <2>1. \A i : Contents2(i) = Contents1(i)
      BY DEF UnlinkFile, Contents1, Contents2
    <2>2. \A e \in Entries : Used(dir, e, m) => dir'[e] = dir[e]
      BY <1>4, <1>5, <1>8 DEF Used
    <2>3. (\A e \in Entries : ~Used(dir, e, m)) => \A e \in Entries : ~Used(dir', e, m)
      BY <1>5 DEF Used
    <2> QED
      BY <2>1, <2>2, <2>3, FileStays
  <1>9. files' = [files EXCEPT ![n] = NoFile]
    BY <1>3, <1>7, <1>8, FilesExcept
  <1>10. handles' = handles
    <2>1. \A h \in Handles : IsOpen(h) => open_file_table[h].of_inumber # inum
      BY <1>1, DiscardsNothingOpen
    <2>2. \A h \in Handles, e \in Entries :
            dir[e].d_inumber = open_file_table[h].of_inumber /\ IsOpen(h) => dir'[e] = dir[e]
      BY <1>4, <1>5, <2>1
    <2>3. \A h \in Handles : handles'[h] = handles[h]
      BY <2>2, HandleStays DEF UnlinkFile, opens
    <2> QED
      BY <2>3, HandlesEqual
  <1>11. Store!NotOpen(n)
    BY <1>1, <1>3, NobodyHasFound
  <1> QED
    BY <1>3, <1>9, <1>10, <1>11 DEF UnlinkFile, Store!Unlink, Store!Returns, Returns

-----------------------------------------------------------------------------
(* Writes and reads.                                                       *)

LEMMA WriteLenIs ==
    ASSUME IInv, CInv, NEW h \in Handles, IsOpen(h), NEW data \in Buffers
    PROVE  WriteLen(h, Len(data)) =
             IF OffsetOf(h) + Len(data) > BLOCK_SIZE THEN BLOCK_SIZE - OffsetOf(h) ELSE Len(data)
  <1> DEFINE off == OffsetOf(h)
             len == Len(data)
  <1>1. off \in 0 .. BLOCK_SIZE /\ len \in 0 .. MaxRequest /\ MaxRequest \in Nat
    BY FreshOffset, BufferFits, SizesFit, FSAssumption DEF IInv, CInv
  <1>2. /\ SizeMod \in Nat \ {0} /\ BLOCK_SIZE \in Nat
        /\ len + off \in 0 .. SizeMod - 1 /\ BLOCK_SIZE - off \in 0 .. SizeMod - 1
    BY <1>1, SizesFit, FSAssumption
  <1>3. WriteLen(h, len) = IF len + off > BLOCK_SIZE THEN BLOCK_SIZE - off ELSE len
    BY <1>2, ModSmall DEF WriteLen
  <1> QED
    BY <1>1, <1>3

LEMMA ReadLenIs ==
    ASSUME IInv, CInv, NEW h \in Handles, IsOpen(h), NEW len \in Nat
    PROVE  ReadLen(h, len) =
             IF OffsetOf(h) + len > InodeOf(h).i_size
             THEN InodeOf(h).i_size - OffsetOf(h) ELSE len
  <1> DEFINE left == InodeOf(h).i_size - OffsetOf(h)
  <1>1. /\ OffsetOf(h) \in Nat /\ InodeOf(h).i_size \in Nat
        /\ SizeMod \in Nat \ {0} /\ left \in 0 .. SizeMod - 1
    BY FreshOffset, SizesFit DEF IInv, CInv
  <1>2. ReadLen(h, len) = IF left > len THEN len ELSE left
    BY <1>1, ModSmall DEF ReadLen
  <1> QED
    BY <1>1, <1>2

LEMMA WriteShape ==
    ASSUME NEW h, NEW data, NEW n, NEW off, NEW k,
           handles[h] = [file |-> n, offset |-> off], handles[h] # Closed,
           k = IF off + Len(data) > BLOCK_SIZE THEN BLOCK_SIZE - off ELSE Len(data),
           Returns(k), handles' = [handles EXCEPT ![h].offset = off + k],
           files' = [files EXCEPT ![n] = Store!Written(files[n], off, data, k)]
    PROVE  Store!Write(h, data)
  <1>1. handles[h].file = n /\ handles[h].offset = off
    OBVIOUS
  <1> QED
    BY <1>1, Zenon DEF Store!Write, Store!Returns, Returns

LEMMA ReadShape ==
    ASSUME NEW h, NEW len, NEW n, NEW off, NEW k,
           handles[h] = [file |-> n, offset |-> off], handles[h] # Closed,
           k = IF off + len > Len(files[n]) THEN Len(files[n]) - off ELSE len,
           ret' = k, buf' = SubSeq(files[n], off + 1, off + k),
           handles' = [handles EXCEPT ![h].offset = off + k], files' = files
    PROVE  Store!Read(h, len)
  <1>1. handles[h].file = n /\ handles[h].offset = off
    OBVIOUS
  <1> QED
    BY <1>1, Zenon DEF Store!Read

LEMMA BufferIsSeq ==
    ASSUME NEW data \in Buffers
    PROVE  data \in Seq(Datum)
  <1>1. PICK k \in 0 .. MaxRequest : data \in [1 .. k -> Byte]
    BY FSAssumption
  <1>2. k \in Nat /\ data \in Seq(Byte)
    BY <1>1, FSAssumption
  <1> QED
    BY <1>2, SeqMonotonic DEF Datum

(* A call that moves no bytes leaves the handle where it is.               *)
LEMMA NotMoved ==
    ASSUME NEW h \in Handles, NEW n, NEW off \in Nat, handles[h] = [file |-> n, offset |-> off],
           handles' = handles
    PROVE  handles' = [handles EXCEPT ![h].offset = off + 0]
  <1>1. handles = [g \in Handles |-> handles[g]]
    BY MappingNow DEF HandlesIn
  <1>2. [handles[h] EXCEPT !.offset = off + 0] = handles[h]
    OBVIOUS
  <1>3. [handles EXCEPT ![h].offset = off + 0]
          = [handles EXCEPT ![h] = [handles[h] EXCEPT !.offset = off + 0]]
    OBVIOUS
  <1> QED
    BY <1>1, <1>2, <1>3

LEMMA WriteNothingMaps ==
    ASSUME IInv, IInv', CInv, NEW h \in Handles, IsOpen(h), NEW data \in Buffers,
           WriteNothing(h, data)
    PROVE  Store!Write(h, data)
  <1>1. PICK n \in Name :
          /\ handles[h] = [file |-> n, offset |-> OffsetOf(h)]
          /\ files[n] = ContentsIn(inode_table, fs_data, open_file_table[h].of_inumber)
    BY OpenHandle
  <1>2. PICK f : f = files[n]
    OBVIOUS
  <1>3. f \in Seq(Datum) /\ Len(f) = InodeOf(h).i_size
    BY <1>1, <1>2, FreshOffset, ContentsType DEF IInv, CInv, InodeOf
  <1>4. OffsetOf(h) \in 0 .. Len(f) /\ 0 \in 0 .. Len(data) /\ OffsetOf(h) \in Nat
    BY <1>3, FreshOffset, BuffersType, SizesFit DEF IInv, CInv
  <1>5. f = Store!Written(f, OffsetOf(h), data, 0)
    <2>1. IsPatched(f, f, OffsetOf(h), data, 0)
      BY <1>4 DEF IsPatched
    <2> QED
      BY <1>3, <2>1, BufferIsSeq, Patched
  <1>6. files' = files /\ handles' = handles
    <2>1. \A i : Contents2(i) = Contents1(i)
      BY DEF WriteNothing, inodes, blocks, Contents1, Contents2
    <2> QED
      BY <2>1, FilesStay, HandlesStay DEF WriteNothing
  <1>7. files' = [files EXCEPT ![n] = Store!Written(files[n], OffsetOf(h), data, 0)]
    <2>1. files = [m \in Name |-> files[m]]
      BY MappingNow DEF FilesIn
    <2> QED
      BY <1>2, <1>5, <1>6, <2>1
  <1>8. handles[h] # Closed
    BY ClosedIsFree DEF IsOpen
  <1>9. 0 = IF OffsetOf(h) + Len(data) > BLOCK_SIZE THEN BLOCK_SIZE - OffsetOf(h) ELSE Len(data)
    BY WriteLenIs DEF WriteNothing
  <1>10. handles' = [handles EXCEPT ![h].offset = OffsetOf(h) + 0]
    BY <1>1, <1>4, <1>6, NotMoved
  <1>11. Returns(0)
    BY DEF WriteNothing
  <1> QED
    BY <1>1, <1>7, <1>8, <1>9, <1>10, <1>11, WriteShape

(* The k elements of a sequence that stand after the first off.            *)
LEMMA PartOf ==
    ASSUME NEW S, NEW f \in Seq(S), NEW off \in Nat, NEW k \in Nat, off + k <= Len(f),
           NEW b, b = [p \in 1 .. k |-> f[off + p]]
    PROVE  b = SubSeq(f, off + 1, off + k)
  <1>1. Len(f) \in Nat /\ \A i \in 1 .. Len(f) : f[i] \in S
    BY LenProperties, ElementOfSeq
  <1>2. PICK m : m = off + 1
    OBVIOUS
  <1>3. PICK r : r = off + k
    OBVIOUS
  <1>4. /\ m \in Int /\ r \in Int /\ r - m + 1 = k /\ (m <= r \/ k = 0)
        /\ m \in 1 .. Len(f) + 1 /\ r <= Len(f)
        /\ \A p \in 1 .. k : m + p - 1 = off + p /\ off + p \in 1 .. Len(f)
    BY <1>1, <1>2, <1>3
  <1>5. \A i \in m .. r : f[i] \in S
    <2>1. \A i \in m .. r : i \in 1 .. Len(f)
      BY <1>1, <1>4
    <2> QED
      BY <1>1, <2>1
  <1>6. PICK s : s = SubSeq(f, m, r)
    OBVIOUS
  <1>7. /\ s \in Seq(S)
        /\ Len(s) = IF m <= r THEN r - m + 1 ELSE 0
        /\ \A i \in 1 .. r - m + 1 : s[i] = f[m + i - 1]
    <2>1. m \in Int /\ r \in Int
      BY <1>4
    <2> QED
      BY <1>5, <1>6, <2>1, SubSeqProperties
  <1>8. Len(s) = k
    BY <1>4, <1>7
  <1>9. \A p \in 1 .. k : s[p] = f[off + p]
    BY <1>4, <1>7
  <1>10. \A p \in 1 .. k : f[off + p] \in S
    BY <1>1, <1>4
  <1>11. b \in Seq(S) /\ Len(b) = k /\ \A p \in 1 .. k : b[p] = f[off + p]
    BY <1>10
  <1>12. b = s
    BY <1>7, <1>8, <1>9, <1>11, SeqEqual
  <1> QED
    BY <1>2, <1>3, <1>6, <1>12, Zenon

LEMMA ReadMaps ==
    ASSUME IInv, IInv', CInv, NEW h \in Handles, IsOpen(h), NEW len \in Nat,
           ReadNothing(h, len) \/ ReadBytes(h, len)
    PROVE  Store!Read(h, len)
  <1> DEFINE off == OffsetOf(h)
             k   == ReadLen(h, len)
  <1>1. PICK n \in Name :
          /\ handles[h] = [file |-> n, offset |-> off]
          /\ files[n] = ContentsIn(inode_table, fs_data, open_file_table[h].of_inumber)
    BY OpenHandle
  <1>2. PICK f : f = files[n]
    OBVIOUS
  <1>3. /\ f \in Seq(Datum) /\ Len(f) = InodeOf(h).i_size
        /\ \A p \in 1 .. Len(f) : f[p] = fs_data[PlaceOf(InodeOf(h).i_data_block) + p - 1]
    BY <1>1, <1>2, FreshOffset, ContentsType DEF IInv, CInv, InodeOf, BlockOf
  <1>4. /\ off \in Nat /\ k \in Nat /\ Len(f) \in Nat /\ off + k <= Len(f)
        /\ k = IF off + len > Len(f) THEN Len(f) - off ELSE len
    <2>1. off \in Nat /\ InodeOf(h).i_size \in Nat /\ off + k <= InodeOf(h).i_size
      BY FreshOffset, ReadFits, SizesFit DEF IInv, CInv
    <2>2. k \in Nat
      BY ReadLenType DEF IInv
    <2>3. k = IF off + len > InodeOf(h).i_size THEN InodeOf(h).i_size - off ELSE len
      BY ReadLenIs
    <2> QED
      BY <1>3, <2>1, <2>2, <2>3, Zenon
  <1>5. handles[h] # Closed
    BY ClosedIsFree DEF IsOpen
  <1>6. files' = files
    <2>1. \A i : Contents2(i) = Contents1(i)
      BY DEF ReadNothing, ReadBytes, inodes, blocks, Contents1, Contents2
    <2> QED
      BY <2>1, FilesStay DEF ReadNothing, ReadBytes
  <1> HIDE DEF off, k
  <1>7. CASE ReadNothing(h, len)
    <2>1. k = 0 /\ ret' = k /\ buf' = <<>>
      BY <1>7 DEF ReadNothing, Returns, k
    <2>2. SubSeq(f, off + 1, off + k) = <<>>
      <3>1. off + 1 \in Int /\ off + k \in Int /\ off + k < off + 1
        BY <1>4, <2>1
      <3> QED
        BY <3>1, SubSeqEmpty
    <2>3. handles' = [handles EXCEPT ![h].offset = off + k]
      <3>1. handles' = handles
        BY <1>7, HandlesStay DEF ReadNothing
      <3> QED
        BY <1>1, <1>4, <2>1, <3>1, NotMoved
    <2> QED
      BY <1>1, <1>2, <1>4, <1>5, <1>6, <2>1, <2>2, <2>3, ReadShape
  <1>8. CASE ReadBytes(h, len)
    <2>1. ret' = k /\ buf' = BytesAt(PlaceOf(InodeOf(h).i_data_block) + off, k)
      BY <1>8 DEF ReadBytes, k, off
    <2>2. PlaceOf(InodeOf(h).i_data_block) \in Nat
      BY <1>8, PlaceType DEF ReadBytes
    <2>3. buf' = SubSeq(f, off + 1, off + k)
      <3> DEFINE q == PlaceOf(InodeOf(h).i_data_block)
      <3>1. PICK b : b = [p \in 1 .. k |-> fs_data[q + off + p - 1]]
        OBVIOUS
      <3>2. buf' = b
        BY <2>1, <3>1, Zenon DEF BytesAt
      <3> HIDE DEF q
      <3>3. ASSUME NEW p \in 1 .. k PROVE b[p] = f[off + p]
        <4>1. /\ off + p \in 1 .. Len(f)
              /\ q + (off + p) - 1 = q + off + p - 1
          BY <1>4, <2>2 DEF q
        <4>2. f[off + p] = fs_data[q + (off + p) - 1]
          BY <1>3, <4>1 DEF q
        <4>3. b[p] = fs_data[q + off + p - 1]
          BY <3>1
        <4> QED
          BY <4>1, <4>2, <4>3, Zenon
      <3>4. b = [p \in 1 .. k |-> f[off + p]]
        BY <3>1, <3>3
      <3>5. b = SubSeq(f, off + 1, off + k)
        BY <1>3, <1>4, <3>4, PartOf
      <3> QED
        BY <3>2, <3>5, Zenon
    <2>4. handles' = [handles EXCEPT ![h].offset = off + k]
      BY <1>8, HandleMoves DEF ReadBytes, k, off
    <2> QED
      BY <1>1, <1>2, <1>4, <1>5, <1>6, <2>1, <2>3, <2>4, ReadShape
  <1> QED
    BY <1>7, <1>8

(* Two blocks have no byte in common.                                      *)
LEMMA BlocksApart ==
    ASSUME NEW b \in Blocks, NEW c \in Blocks, b # c,
           NEW i \in 0 .. BLOCK_SIZE - 1, NEW j \in 0 .. BLOCK_SIZE - 1
    PROVE  PlaceOf(b) + i # PlaceOf(c) + j
  <1>1. b \in Nat /\ c \in Nat /\ BLOCK_SIZE \in Nat /\ i \in Nat /\ j \in Nat
    BY FSAssumption DEF Blocks
  <1>2. ASSUME NEW x \in Nat, NEW y \in Nat, x < y
        PROVE  x * BLOCK_SIZE + BLOCK_SIZE <= y * BLOCK_SIZE
    <2>1. PICK m \in Nat : y = x + 1 + m
      <3>1. y - x - 1 \in Nat /\ y = x + 1 + (y - x - 1)
        BY <1>2
      <3> QED
        BY <3>1
    <2>2. (x + 1 + m) * BLOCK_SIZE = x * BLOCK_SIZE + BLOCK_SIZE + m * BLOCK_SIZE
      BY <1>1
    <2>3. m * BLOCK_SIZE \in Nat /\ x * BLOCK_SIZE \in Nat
      BY <1>1
    <2> QED
      BY <1>1, <2>1, <2>2, <2>3
  <1>3. PlaceOf(b) \in Nat /\ PlaceOf(c) \in Nat
    BY PlaceType
  <1>4. PlaceOf(b) + BLOCK_SIZE <= PlaceOf(c) \/ PlaceOf(c) + BLOCK_SIZE <= PlaceOf(b)
    <2>1. b < c \/ c < b
      BY <1>1
    <2> QED
      BY <1>1, <1>2, <2>1 DEF PlaceOf
  <1> QED
    BY <1>1, <1>3, <1>4

(* A block's bytes after a write of k bytes at off.                        *)
LEMMA BlockWritten ==
    ASSUME NEW b \in Blocks, NEW off \in Nat, NEW k \in Nat, off + k <= BLOCK_SIZE,
           NEW data, fs_data' = Overwritten(PlaceOf(b) + off, k, data)
    PROVE  /\ \A p \in 1 .. BLOCK_SIZE :
                fs_data'[PlaceOf(b) + p - 1] =
                  IF off < p /\ p <= off + k THEN data[p - off] ELSE fs_data[PlaceOf(b) + p - 1]
           /\ \A p \in 1 .. BLOCK_SIZE : PlaceOf(b) + p - 1 \in Places
           /\ \A c \in Blocks, p \in 1 .. BLOCK_SIZE :
                c # b => fs_data'[PlaceOf(c) + p - 1] = fs_data[PlaceOf(c) + p - 1]
  <1>1. BLOCK_SIZE \in Nat /\ MemorySize \in Nat
    BY SizesFit
  <1>2. ASSUME NEW c \in Blocks, NEW p \in 1 .. BLOCK_SIZE
        PROVE  PlaceOf(c) + p - 1 \in Places
    <2>1. PlaceOf(c) \in Nat
      BY PlaceType
    <2>2. p \in Nat /\ p <= BLOCK_SIZE
      BY <1>1
    <2>3. InMemory(c, 0, p)
      BY <1>1, <2>2, BlockInMemory
    <2>4. PlaceOf(c) + p <= MemorySize
      BY <2>1, <2>2, <2>3 DEF InMemory
    <2> QED
      BY <1>1, <2>1, <2>2, <2>4 DEF Places
  <1>3. ASSUME NEW x \in Places
        PROVE  fs_data'[x] = IF x \in PlaceOf(b) + off .. PlaceOf(b) + off + k - 1
                             THEN data[x - (PlaceOf(b) + off) + 1] ELSE fs_data[x]
    BY DEF Overwritten
  <1>4. PICK q \in Nat : q = PlaceOf(b)
    BY PlaceType
  <1>5. ASSUME NEW p \in 1 .. BLOCK_SIZE
        PROVE  fs_data'[q + p - 1] =
                 IF off < p /\ p <= off + k THEN data[p - off] ELSE fs_data[q + p - 1]
    <2>1. PICK x \in Places : x = q + p - 1
      BY <1>2, <1>4
    <2>2. /\ x \in q + off .. q + off + k - 1 <=> off < p /\ p <= off + k
          /\ x - (q + off) + 1 = p - off
      BY <1>1, <2>1
    <2>3. fs_data'[x] = IF x \in q + off .. q + off + k - 1
                        THEN data[x - (q + off) + 1] ELSE fs_data[x]
      BY <1>3, <1>4, Zenon
    <2>4. fs_data'[x] = IF off < p /\ p <= off + k THEN data[p - off] ELSE fs_data[x]
      BY <2>2, <2>3, Zenon
    <2> QED
      BY <2>1, <2>4, Zenon
  <1>6. ASSUME NEW c \in Blocks, NEW p \in 1 .. BLOCK_SIZE, c # b
        PROVE  fs_data'[PlaceOf(c) + p - 1] = fs_data[PlaceOf(c) + p - 1]
    <2>1. PICK x \in Places : x = PlaceOf(c) + p - 1
      BY <1>2
    <2>2. PICK r \in Nat : r = PlaceOf(c)
      BY PlaceType
    <2>3. \A j \in 0 .. BLOCK_SIZE - 1 : x # q + j
      <3>1. \A i, j \in 0 .. BLOCK_SIZE - 1 : r + i # q + j
        BY <1>4, <1>6, <2>2, BlocksApart
      <3>2. x = r + (p - 1) /\ p - 1 \in 0 .. BLOCK_SIZE - 1
        BY <1>1, <2>1, <2>2
      <3> QED
        BY <3>1, <3>2
    <2>4. x \notin q + off .. q + off + k - 1
      <3>1. x \in Nat
        BY <1>1 DEF Places
      <3>2. ASSUME x \in q + off .. q + off + k - 1 PROVE FALSE
        <4>1. x - q \in 0 .. BLOCK_SIZE - 1 /\ x = q + (x - q)
          BY <1>1, <3>1, <3>2
        <4> QED
          BY <2>3, <4>1
      <3> QED
        BY <3>2
    <2> QED
      BY <1>3, <1>4, <2>1, <2>4, Zenon
  <1> QED
    BY <1>2, <1>4, <1>5, <1>6, Zenon

(* The block that a file's bytes are written to, and what becomes of them. *)
LEMMA BlockTaken ==
    ASSUME IInv, CInv, NEW h \in Handles, IsOpen(h), NEW b \in Blocks, BlockToWrite(h, b),
           NEW i \in Inumbers, Live(i), HasBlock(i)
    PROVE  IF i = open_file_table[h].of_inumber THEN BlockOf(i) = b ELSE BlockOf(i) # b
  <1>1. /\ BlockOf(i) \in Blocks /\ free_blocks[BlockOf(i)] = "TAKEN"
        /\ \A j \in Inumbers : Live(j) /\ HasBlock(j) /\ j # i => BlockOf(i) # BlockOf(j)
    BY DEF IInv, BlocksAreOwned, BlockOf
  <1>2. /\ open_file_table[h].of_inumber \in Inumbers
        /\ Live(open_file_table[h].of_inumber)
        /\ InodeOf(h).i_size \in Nat
    BY FreshOffset, SizesFit DEF IInv, CInv
  <1>3. CASE InodeOf(h).i_size = 0
    <2>1. free_blocks[b] = "FREE"
      BY <1>3 DEF BlockToWrite, First, FreeIn
    <2>2. ~HasBlock(open_file_table[h].of_inumber)
      BY <1>3 DEF HasBlock, InodeOf
    <2> QED
      BY <1>1, <2>1, <2>2
  <1>4. CASE InodeOf(h).i_size # 0
    <2>1. b = BlockOf(open_file_table[h].of_inumber) /\ HasBlock(open_file_table[h].of_inumber)
      BY <1>2, <1>4 DEF BlockToWrite, InodeOf, BlockOf, HasBlock
    <2> QED
      BY <1>1, <1>2, <2>1
  <1> QED
    BY <1>3, <1>4

(* The bytes of a file after a write.                                      *)
Stores(inum, b, off, k, data) ==
    /\ fs_data' = Overwritten(PlaceOf(b) + off, k, data)
    /\ inode_table' = [inode_table EXCEPT ![inum] =
         [i_size |-> SizeAfter(@.i_size, off + k), i_data_block |-> b]]

LEMMA ContentsWritten ==
    ASSUME IInv, IInv', CInv, NEW h \in Handles, IsOpen(h), NEW data \in Buffers,
           NEW b \in Blocks, BlockToWrite(h, b),
           NEW off, off = OffsetOf(h), NEW k \in Nat, k <= Len(data), off + k <= BLOCK_SIZE,
           NEW inum, inum = open_file_table[h].of_inumber,
           Stores(inum, b, off, k, data)
    PROVE  /\ Contents2(inum) = Store!Written(Contents1(inum), off, data, k)
           /\ \A i \in Inumbers : Live(i) /\ i # inum => Contents2(i) = Contents1(i)
  <1> USE DEF Stores
  <1>1. PICK size : size = inode_table[inum].i_size
    OBVIOUS
  <1>2. /\ inum \in Inumbers /\ Live(inum) /\ off \in 0 .. size /\ size \in 0 .. BLOCK_SIZE
        /\ BLOCK_SIZE \in Nat
    BY <1>1, FreshOffset, SizesFit DEF IInv, CInv, InodeOf
  <1>3. PICK after : after = IF off + k > size THEN off + k ELSE size
    OBVIOUS
  <1>4. /\ after \in Nat /\ after <= BLOCK_SIZE /\ BLOCK_SIZE \in Nat
        /\ off \in Nat /\ size \in Nat /\ off <= size
    BY <1>2, <1>3
  <1>5. /\ inode_table'[inum] = [i_size |-> after, i_data_block |-> b]
        /\ \A i \in Inumbers : i # inum => inode_table'[i] = inode_table[i]
    BY <1>1, <1>2, <1>3 DEF IInv, TypeOK, SizeAfter
  <1>6. PICK q \in Nat : q = PlaceOf(b)
    BY PlaceType
  <1>7. /\ \A p \in 1 .. BLOCK_SIZE :
             fs_data'[q + p - 1] =
               IF off < p /\ p <= off + k THEN data[p - off] ELSE fs_data[q + p - 1]
        /\ \A p \in 1 .. BLOCK_SIZE : q + p - 1 \in Places
        /\ \A c \in Blocks, p \in 1 .. BLOCK_SIZE :
             c # b => fs_data'[PlaceOf(c) + p - 1] = fs_data[PlaceOf(c) + p - 1]
    <2>1. off \in Nat
      BY <1>4
    <2>2. /\ \A p \in 1 .. BLOCK_SIZE :
               fs_data'[PlaceOf(b) + p - 1] =
                 IF off < p /\ p <= off + k THEN data[p - off] ELSE fs_data[PlaceOf(b) + p - 1]
          /\ \A p \in 1 .. BLOCK_SIZE : PlaceOf(b) + p - 1 \in Places
          /\ \A c \in Blocks, p \in 1 .. BLOCK_SIZE :
               c # b => fs_data'[PlaceOf(c) + p - 1] = fs_data[PlaceOf(c) + p - 1]
      BY <2>1, BlockWritten
    <2> QED
      BY <1>6, <2>2, Zenon
  <1>8. PICK f : f = Contents1(inum)
    OBVIOUS
  <1>9. /\ f \in Seq(Datum) /\ Len(f) = size
        /\ \A p \in 1 .. size : f[p] = fs_data[q + p - 1]
    <2>1. /\ f \in Seq(Datum) /\ Len(f) = size
          /\ \A p \in 1 .. size : f[p] = fs_data[PlaceOf(BlockOf(inum)) + p - 1]
      BY <1>1, <1>2, <1>8, ContentsType DEF Contents1
    <2>2. CASE size = 0
      BY <2>1, <2>2
    <2>3. CASE size # 0
      <3>1. HasBlock(inum)
        <4>1. size > 0
          BY <1>4, <2>3
        <4> QED
          BY <1>1, <4>1, Zenon DEF HasBlock
      <3>2. BlockOf(inum) = b
        BY <1>2, <3>1, BlockTaken
      <3> QED
        BY <1>6, <2>1, <3>2
    <2> QED
      BY <2>2, <2>3
  <1>10. PICK g : g = Contents2(inum)
    OBVIOUS
  <1>11. /\ g \in Seq(Datum) /\ Len(g) = after
         /\ \A p \in 1 .. after : g[p] = fs_data'[q + p - 1]
    <2>1. g = [p \in 1 .. after |-> fs_data'[q + p - 1]]
      BY <1>5, <1>6, <1>10 DEF Contents2, ContentsIn, BytesIn
    <2>2. ASSUME NEW p \in 1 .. after PROVE fs_data'[q + p - 1] \in Datum
      <3>1. p \in 1 .. BLOCK_SIZE
        BY <1>4
      <3>2. q + p - 1 \in Places
        BY <1>7, <3>1
      <3> QED
        BY <3>2 DEF IInv, TypeOK, Datum
    <2> QED
      BY <1>4, <2>1, <2>2
  <1>12. g = Store!Written(f, off, data, k)
    <2>1. off \in 0 .. Len(f) /\ k \in 0 .. Len(data)
      BY <1>4, <1>9, BuffersType
    <2>2. after \in {off + k, Len(f)} /\ off + k <= after /\ Len(f) <= after
      BY <1>3, <1>4, <1>9
    <2>3. ASSUME NEW i \in 1 .. after
          PROVE  /\ off < i /\ i <= off + k => g[i] = data[i - off]
                 /\ ~(off < i /\ i <= off + k) => g[i] = f[i]
      <3>1. i \in 1 .. BLOCK_SIZE
        BY <1>4
      <3>2. g[i] = IF off < i /\ i <= off + k THEN data[i - off] ELSE fs_data[q + i - 1]
        BY <1>7, <1>11, <3>1, Zenon
      <3>3. CASE off < i /\ i <= off + k
        BY <3>2, <3>3
      <3>4. CASE ~(off < i /\ i <= off + k)
        <4>1. i \in 1 .. size
          BY <1>3, <1>4, <3>4
        <4> QED
          BY <1>9, <3>2, <3>4, <4>1
      <3> QED
        BY <3>3, <3>4
    <2>4. IsPatched(g, f, off, data, k)
      BY <1>11, <2>1, <2>2, <2>3 DEF IsPatched
    <2> QED
      BY <1>9, <1>11, <2>4, BufferIsSeq, Patched
  <1>13. ASSUME NEW i \in Inumbers, Live(i), i # inum PROVE Contents2(i) = Contents1(i)
    <2>1. inode_table'[i] = inode_table[i] /\ inode_table[i].i_size \in 0 .. BLOCK_SIZE
      BY <1>5, <1>13 DEF IInv, TypeOK, Inode
    <2>2. CASE inode_table[i].i_size = 0
      BY <2>1, <2>2, EmptyContents DEF Contents1, Contents2
    <2>3. CASE inode_table[i].i_size # 0
      <3>1. HasBlock(i)
        BY <1>2, <2>1, <2>3 DEF HasBlock
      <3>2. BlockOf(i) # b /\ BlockOf(i) \in Blocks
        BY <1>13, <3>1, BlockTaken DEF IInv, BlocksAreOwned, BlockOf
      <3>3. PICK r \in Nat : r = PlaceOf(BlockOf(i))
        BY <3>2, PlaceType
      <3>4. PICK m \in Nat : m = inode_table[i].i_size
        BY <1>2, <2>1
      <3>5. \A p \in 1 .. BLOCK_SIZE : fs_data'[r + p - 1] = fs_data[r + p - 1]
        BY <1>7, <3>2, <3>3
      <3>6. /\ Contents1(i) = [p \in 1 .. m |-> fs_data[r + p - 1]]
            /\ Contents2(i) = [p \in 1 .. m |-> fs_data'[r + p - 1]]
        BY <2>1, <3>3, <3>4 DEF Contents1, Contents2, ContentsIn, BytesIn, BlockOf
      <3>7. \A p \in 1 .. m : p \in 1 .. BLOCK_SIZE
        BY <1>2, <2>1, <3>4
      <3> QED
        BY <3>5, <3>6, <3>7
    <2> QED
      BY <2>2, <2>3
  <1> QED
    BY <1>8, <1>10, <1>12, <1>13

LEMMA WriteBytesMaps ==
    ASSUME IInv, IInv', CInv, NEW h \in Handles, IsOpen(h), NEW data \in Buffers,
           WriteBytes(h, data)
    PROVE  Store!Write(h, data)
  <1>1. PICK off : off = OffsetOf(h)
    OBVIOUS
  <1>2. PICK k : k = WriteLen(h, Len(data))
    OBVIOUS
  <1>3. PICK inum : inum = open_file_table[h].of_inumber
    OBVIOUS
  <1>4. PICK n \in Name, d \in Entries :
          /\ Used(dir, d, n) /\ dir[d].d_inumber = inum
          /\ handles[h] = [file |-> n, offset |-> off]
          /\ files[n] = Contents1(inum)
    BY <1>1, <1>3, OpenHandle DEF Contents1
  <1>5. k = IF off + Len(data) > BLOCK_SIZE THEN BLOCK_SIZE - off ELSE Len(data)
    BY <1>1, <1>2, WriteLenIs
  <1>6. k \in Nat /\ k <= Len(data) /\ off + k <= BLOCK_SIZE
    <2>1. PICK len : len = Len(data)
      OBVIOUS
    <2>2. off \in Nat /\ len \in Nat /\ BLOCK_SIZE \in Nat /\ off <= BLOCK_SIZE
      BY <1>1, <2>1, FreshOffset, BuffersType, SizesFit DEF IInv, CInv
    <2>3. k = IF off + len > BLOCK_SIZE THEN BLOCK_SIZE - off ELSE len
      BY <1>5, <2>1, Zenon
    <2>4. k \in Nat /\ k <= len /\ off + k <= BLOCK_SIZE
      BY <2>2, <2>3
    <2> QED
      BY <2>1, <2>4
  <1>7. PICK b \in Blocks :
          BlockToWrite(h, b) /\ Stores(inum, b, off, k, data)
    BY <1>1, <1>2, <1>3 DEF WriteBytes, Stores
  <1>8. /\ Advance(h, k) /\ Returns(k)
        /\ UNCHANGED <<dir, free_open_file_entries>>
    BY <1>2 DEF WriteBytes
  <1>9. /\ Contents2(inum) = Store!Written(Contents1(inum), off, data, k)
        /\ \A i \in Inumbers : Live(i) /\ i # inum => Contents2(i) = Contents1(i)
    BY <1>1, <1>3, <1>6, <1>7, ContentsWritten
  <1>10. files'[n] = Store!Written(files[n], off, data, k)
    <2>1. Used(dir', d, n) /\ dir'[d].d_inumber = inum
      BY <1>4, <1>8
    <2>2. files'[n] = Contents2(inum)
      BY <2>1, FileAt, DuplicatesNext, MappingNext DEF IInv, Contents2
    <2> QED
      BY <1>4, <1>9, <2>2
  <1>11. ASSUME NEW m \in Name, m # n PROVE files'[m] = files[m]
    <2>1. ASSUME NEW e \in Entries, Used(dir, e, m)
          PROVE  Contents2(dir[e].d_inumber) = Contents1(dir[e].d_inumber)
      <3>1. dir[e].d_inumber \in Inumbers /\ Live(dir[e].d_inumber)
        BY <2>1 DEF Used, IInv, TypeOK, DirEntry, DirectoryIsExact
      <3>2. dir[e].d_inumber # inum
        BY <1>4, <1>11, <2>1, DuplicatesNow DEF Used, IInv, NoDuplicate
      <3> QED
        BY <1>9, <3>1, <3>2
    <2> QED
      BY <1>8, <2>1, FileStays
  <1>12. files' = [files EXCEPT ![n] = Store!Written(files[n], off, data, k)]
    BY <1>10, <1>11, FilesExcept
  <1>13. handles' = [handles EXCEPT ![h].offset = off + k]
    BY <1>1, <1>8, HandleMoves
  <1>14. handles[h] # Closed
    BY ClosedIsFree DEF IsOpen
  <1> QED
    BY <1>4, <1>5, <1>8, <1>12, <1>13, <1>14, WriteShape

-----------------------------------------------------------------------------
(* The refinement.                                                         *)

LEMMA InitMaps == Init => Store!Init
  <1> SUFFICES ASSUME Init PROVE Store!Init
    OBVIOUS
  <1>1. \A d \in Entries : dir[d].d_inumber = -1
    BY DEF Init
  <1>2. \A n \in Name : UsedIn(dir, n) = {}
    BY <1>1 DEF UsedIn, Used
  <1>3. files = [n \in Name |-> NoFile]
    BY <1>2, MappingNow DEF FilesIn
  <1>4. handles = [h \in Handles |-> Closed]
    BY MappingNow DEF HandlesIn, Init
  <1> QED
    BY <1>3, <1>4 DEF Init, Store!Init

LEMMA StepMaps ==
    ASSUME Careful, IInv, IInv', CInv, [Next]_vars
    PROVE  [Store!Next]_(Store!vars)
  <1>1. ASSUME NEW n \in Name \cup {LongName}, NEW mode \in Modes,
               "TRUNC" \in mode => MayDiscard(n), tfs_open(n, mode)
        PROVE  Store!Next
    <2>1. CASE OpenExisting(n, mode)
      BY <1>1, <2>1, OpenExistingMaps DEF Store!Next
    <2>2. CASE OpenCreate(n, mode)
      BY <2>2, OpenCreateMaps DEF Store!Next
    <2>3. CASE OpenCreateUndone(n, mode)
      BY <2>3, OpenCreateUndoneMaps DEF Store!Next
    <2>4. CASE OpenFails(n, mode)
      BY <2>4, FailsMaps DEF OpenFails, Store!Next
    <2> QED
      BY <1>1, <2>1, <2>2, <2>3, <2>4 DEF tfs_open
  <1>2. ASSUME NEW n \in Name \cup {LongName}, MayDiscard(n), tfs_unlink(n)
        PROVE  Store!Next
    <2>1. CASE UnlinkFails(n)
      BY <2>1, FailsMaps DEF UnlinkFails, Store!Next
    <2>2. CASE UnlinkFile(n)
      BY <1>2, <2>2, UnlinkMaps DEF Store!Next
    <2> QED
      BY <1>2, <2>1, <2>2 DEF tfs_unlink
  <1>3. ASSUME NEW h \in Handles, BadHandle(h) PROVE Store!Next
    BY <1>3, FailsMaps DEF BadHandle, Store!Next
  <1>4. ASSUME NEW h \in Handles, tfs_close(h) PROVE Store!Next
    BY <1>4, CloseMaps DEF Store!Next
  <1>5. ASSUME NEW h \in Handles, NEW data \in Buffers, tfs_write(h, data)
        PROVE  Store!Next
    <2>1. IsOpen(h) /\ ~WriteWild(h, data)
      BY <1>5, NothingWild DEF tfs_write, CInv
    <2>2. CASE WriteNothing(h, data)
      BY <2>1, <2>2, WriteNothingMaps DEF Store!Next
    <2>3. CASE WriteNoSpace(h, data)
      BY <2>3, FailsMaps DEF WriteNoSpace, Store!Next
    <2>4. CASE WriteBytes(h, data)
      BY <2>1, <2>4, WriteBytesMaps DEF Store!Next
    <2> QED
      BY <1>5, <2>1, <2>2, <2>3, <2>4 DEF tfs_write
  <1>6. ASSUME NEW h \in Handles, NEW len \in 0 .. MaxRequest, tfs_read(h, len)
        PROVE  Store!Next
    <2>1. IsOpen(h) /\ ~ReadWild(h, len) /\ len \in Nat
      BY <1>6, NothingWild, FSAssumption DEF tfs_read, CInv
    <2>2. ReadNothing(h, len) \/ ReadBytes(h, len)
      BY <1>6, <2>1 DEF tfs_read
    <2> QED
      BY <2>1, <2>2, ReadMaps DEF Store!Next
  <1>7. CASE UNCHANGED vars
    <2>1. \A i : Contents2(i) = Contents1(i)
      BY <1>7 DEF vars, inodes, blocks, Contents1, Contents2
    <2>2. files' = files /\ handles' = handles
      BY <1>7, <2>1, FilesStay, HandlesStay DEF vars
    <2> QED
      BY <1>7, <2>2 DEF vars, Store!vars
  <1>8. CASE Next
    BY <1>1, <1>2, <1>3, <1>4, <1>5, <1>6, <1>8 DEF Next
  <1> QED
    BY <1>7, <1>8

(* If callers are careful, the file system is a FileStore, whatever the    *)
(* sizes of its tables: tfs_read gives the bytes that tfs_write last put   *)
(* at that place of that file, and no call changes another file or handle. *)
THEOREM CarefulRefinement == ASSUME Careful PROVE Spec => IsFileStore
  <1>1. Init => Store!Init
    BY InitMaps
  <1>2. IInv /\ (Careful => CInv) /\ IInv' /\ [Next]_vars => [Store!Next]_(Store!vars)
    BY StepMaps
  <1> QED
    BY <1>1, <1>2, CarefulInvariance, PTL DEF Spec, IsFileStore, Store!Spec

(* What FileStore has by itself, the file system has.                      *)
SP == INSTANCE FileStoreProofs WITH Handle <- Handles, MaxSize <- BLOCK_SIZE

LEMMA StoreAssumptions == SP!Assumptions
  <1>1. Buffers \subseteq Seq(Byte)
    <2>1. ASSUME NEW data \in Buffers PROVE data \in Seq(Byte)
      <3>1. PICK k \in 0 .. MaxRequest : data \in [1 .. k -> Byte]
        BY FSAssumption
      <3> QED
        BY <3>1, FSAssumption
    <2> QED
      BY <2>1
  <1>2. BLOCK_SIZE \in Nat /\ MaxRequest \in Nat
    BY FSAssumption
  <1>3. NoFile \notin Seq(Byte)
    BY StoreAssumption, SeqMonotonic
  <1> QED
    BY <1>1, <1>2, <1>3, StoreAssumption DEF SP!Assumptions

LEMMA SameStore == IsFileStore => SP!Spec
  <1>1. Store!Init => SP!Init
    BY DEF Store!Init, SP!Init
  <1>2. Store!vars = SP!vars
    BY DEF Store!vars, SP!vars
  <1>3. Store!Next => SP!Next
    <2>1. \A n, h : Store!NotOpen(n) = SP!NotOpen(n) /\ Store!Close(h) = SP!Close(h)
      BY DEF Store!NotOpen, SP!NotOpen, Store!Close, SP!Close, Store!Returns, SP!Returns
    <2>2. \A n : Store!Unlink(n) => SP!Unlink(n)
      BY <2>1 DEF Store!Unlink, SP!Unlink, Store!Returns, SP!Returns
    <2>3. \A n : Store!Created(n) = SP!Created(n)
      BY <2>1 DEF Store!Created, SP!Created
    <2>4. \A n : Store!Open(n) => SP!Open(n)
      BY <2>3 DEF Store!Open, SP!Open, Store!Returns, SP!Returns
    <2>5. \A h, data : Store!Write(h, data) => SP!Write(h, data)
      BY Zenon DEF Store!Write, SP!Write, Store!Written, SP!Written, Store!Returns, SP!Returns
    <2>6. \A h, len : Store!Read(h, len) => SP!Read(h, len)
      BY Zenon DEF Store!Read, SP!Read
    <2>7. Store!Fail => SP!Fail
      BY DEF Store!Fail, SP!Fail, Store!Returns, SP!Returns
    <2> QED
      BY <2>1, <2>2, <2>4, <2>5, <2>6, <2>7, Zenon DEF Store!Next, SP!Next
  <1>4. [Store!Next]_(Store!vars) => [SP!Next]_(SP!vars)
    BY <1>2, <1>3, Zenon DEF Store!vars, SP!vars
  <1> QED
    BY <1>1, <1>4, PTL DEF IsFileStore, Store!Spec, SP!Spec

(* If callers are careful, tfs_read returns only bytes that tfs_write was  *)
(* given, and never what malloc left in fs_data.                           *)
THEOREM CarefulReadsBytes == Spec => []ReadsOnlyWritten
  <1>1. CASE Careful
    <2>1. Spec => IsFileStore
      BY <1>1, CarefulRefinement
    <2>2. IsFileStore => []SP!Consistent
      BY StoreAssumptions, SameStore, SP!StoreIsConsistent, PTL
    <2>3. SP!Consistent => ReadsOnlyWritten
      BY DEF SP!Consistent, SP!TypeOK, ReadsOnlyWritten
    <2> QED
      BY <2>1, <2>2, <2>3, PTL
  <1>2. CASE ~Careful
    <2>1. ReadsOnlyWritten
      BY <1>2 DEF ReadsOnlyWritten
    <2> QED
      BY <2>1, PTL
  <1> QED
    BY <1>1, <1>2

=============================================================================
