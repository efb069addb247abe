--------------------------- MODULE TecnicoFSProofs ---------------------------
(***************************************************************************)
(* Proofs about TecnicoFS for any sizes of its tables, any names and any   *)
(* contents, whether its callers are careful or not.                       *)
(***************************************************************************)
EXTENDS TecnicoFS, FiniteSetTheorems, TLAPS

(* A directory entry that is not in use and stands before one that is was  *)
(* cleared by tfs_unlink: its name is not that of a file.                  *)
ClearedBeforeUsed ==
    \A d, e \in Entries :
        d < e /\ dir[d].d_inumber = -1 /\ dir[e].d_inumber # -1 => dir[d].d_name \notin Name

IInv == TypeOK /\ DirectoryIsExact /\ ClearedBeforeUsed /\ BlocksAreOwned

-----------------------------------------------------------------------------
(* Facts about the operators.                                              *)

LEMMA PlaceType ==
    ASSUME NEW b \in Blocks
    PROVE  PlaceOf(b) \in Nat
  BY FSAssumption DEF PlaceOf, Blocks

(* SizeMod exceeds every size there is.                                    *)
LEMMA SizesFit ==
    /\ BLOCK_SIZE \in Nat /\ MemorySize \in Nat /\ SizeMod \in Nat
    /\ BLOCK_SIZE <= MemorySize /\ MemorySize < SizeMod
  <1>1. DATA_BLOCKS \in Nat \ {0} /\ BLOCK_SIZE \in Nat \ {0}
    BY FSAssumption
  <1>2. MemorySize \in Nat /\ BLOCK_SIZE <= MemorySize
    BY <1>1 DEF MemorySize
  <1> QED
    BY <1>1, <1>2, FSAssumption

LEMMA ModSmall ==
    ASSUME NEW m \in Nat \ {0}, NEW x \in 0 .. m - 1
    PROVE  x % m = x
  OBVIOUS

LEMMA ModAtMost ==
    ASSUME NEW m \in Nat \ {0}, NEW x \in Nat
    PROVE  x % m \in Nat /\ x % m <= x
  OBVIOUS

LEMMA WriteLenType ==
    ASSUME TypeOK, NEW h \in Handles, NEW len \in Nat
    PROVE  WriteLen(h, len) \in Nat
  <1>1. OffsetOf(h) \in Nat /\ SizeMod \in Nat /\ SizeMod > 0 /\ BLOCK_SIZE \in Nat
    BY SizesFit DEF TypeOK, OffsetOf, OpenFile
  <1>2. (BLOCK_SIZE - OffsetOf(h)) % SizeMod \in Nat
    BY <1>1
  <1> QED
    BY <1>2 DEF WriteLen

LEMMA ReadLenType ==
    ASSUME TypeOK, NEW h \in Handles, NEW len \in Nat
    PROVE  ReadLen(h, len) \in 0 .. len
  <1>1. InodeOf(h).i_size - OffsetOf(h) \in Int /\ SizeMod \in Nat /\ SizeMod > 0
    BY SizesFit DEF TypeOK, OffsetOf, InodeOf, OpenFile, Inode
  <1>2. (InodeOf(h).i_size - OffsetOf(h)) % SizeMod \in Nat
    BY <1>1
  <1> QED
    BY <1>2 DEF ReadLen

LEMMA BuffersType ==
    ASSUME NEW data \in Buffers
    PROVE  /\ Len(data) \in Nat
           /\ \A i \in 1 .. Len(data) : data[i] \in Byte
  <1>1. PICK k \in 0 .. MaxRequest : data \in [1 .. k -> Byte]
    BY FSAssumption
  <1>2. k \in Nat /\ data \in Seq(Byte) /\ Len(data) = k
    BY <1>1, FSAssumption
  <1> QED
    BY <1>1, <1>2

(* What tfs_lookup finds is a file that exists.                            *)
LEMMA LookupFinds ==
    ASSUME TypeOK, DirectoryIsExact, NEW n, NEW inum \in Inumbers, tfs_lookup(n, inum)
    PROVE  /\ n \in Name
           /\ Live(inum) /\ inum # ROOT_DIR_INUM
           /\ \E d \in Entries : dir[d].d_inumber = inum /\ dir[d].d_name = n
  <1>1. PICK d \in Entries : First(Matches(n), d) /\ inum = dir[d].d_inumber
    BY DEF tfs_lookup
  <1>2. dir[d].d_inumber # -1 /\ dir[d].d_name = n
    BY <1>1 DEF First, Matches
  <1> QED
    BY <1>1, <1>2 DEF DirectoryIsExact

(* clear_dir_entry compares names only, yet the entry it clears is the one *)
(* tfs_lookup found.                                                       *)
LEMMA ClearsTheEntryFound ==
    ASSUME TypeOK, DirectoryIsExact, ClearedBeforeUsed,
           NEW n, NEW inum \in Inumbers, tfs_lookup(n, inum),
           NEW d \in Entries, First({e \in Entries : dir[e].d_name = n}, d)
    PROVE  dir[d].d_inumber = inum /\ dir[d].d_name = n
  <1>1. PICK e \in Entries : dir[e].d_inumber = inum /\ dir[e].d_name = n
    BY LookupFinds
  <1>2. n \in Name /\ inum # -1
    BY LookupFinds DEF Inumbers
  <1>3. d <= e /\ dir[d].d_name = n
    BY <1>1 DEF First
  <1>4. dir[d].d_inumber # -1
    <2> SUFFICES ASSUME dir[d].d_inumber = -1 PROVE FALSE
      OBVIOUS
    <2>1. d < e
      BY <1>1, <1>2, <1>3 DEF Entries
    <2> QED
      BY <1>1, <1>2, <1>3, <2>1 DEF ClearedBeforeUsed
  <1>5. d = e
    BY <1>1, <1>2, <1>3, <1>4 DEF DirectoryIsExact
  <1> QED
    BY <1>1, <1>5

-----------------------------------------------------------------------------
LEMMA InitIInv == Init => IInv
  <1> SUFFICES ASSUME Init PROVE IInv
    OBVIOUS
  <1> USE FSAssumption DEF Init
  <1>1. TypeOK
    BY SizesFit
    DEF TypeOK, Inumbers, Blocks, Handles, Entries, ROOT_DIR_INUM, EmptyInode, NoOpenFile,
        Inode, OpenFile, DirEntry
  <1>2. DirectoryIsExact
    <2>1. \A d \in Entries : dir[d].d_inumber = -1
      OBVIOUS
    <2>2. \A i \in Inumbers : i # -1 /\ (Live(i) <=> i = ROOT_DIR_INUM)
      BY DEF Live, Inumbers
    <2>3. ROOT_DIR_INUM \in Inumbers
      BY DEF Inumbers, ROOT_DIR_INUM
    <2> QED
      BY <2>1, <2>2, <2>3 DEF DirectoryIsExact
  <1>3. ClearedBeforeUsed
    BY DEF ClearedBeforeUsed
  <1>4. BlocksAreOwned
    BY DEF BlocksAreOwned, Live, HasBlock, Inumbers, Blocks, ROOT_DIR_INUM, EmptyInode
  <1> QED
    BY <1>1, <1>2, <1>3, <1>4 DEF IInv

-----------------------------------------------------------------------------
LEMMA HandleStep ==
    ASSUME TypeOK, NEW inum \in Inumbers, NEW offset \in 0 .. BLOCK_SIZE,
           add_to_open_file_table(inum, offset)
    PROVE  /\ open_file_table' \in [Handles -> OpenFile]
           /\ free_open_file_entries' \in [Handles -> {"FREE", "TAKEN"}]
           /\ ret' \in Int
           /\ buf' \in Seq(Byte \cup {Garbage})
  <1>1. [of_inumber |-> inum, of_offset |-> offset] \in OpenFile
    BY SizesFit DEF OpenFile
  <1>2. \A h \in Handles : h \in Int
    BY DEF Handles
  <1> QED
    <2>1. CASE FreeIn(free_open_file_entries) = {} /\ UNCHANGED opens /\ Returns(-1)
      BY <2>1 DEF TypeOK, Returns, opens
    <2>2. CASE \E h \in Handles :
                 /\ free_open_file_entries' = [free_open_file_entries EXCEPT ![h] = "TAKEN"]
                 /\ open_file_table' =
                      [open_file_table EXCEPT ![h] = [of_inumber |-> inum, of_offset |-> offset]]
                 /\ Returns(h)
      BY <1>1, <1>2, <2>2 DEF TypeOK, Returns
    <2> QED
      BY <2>1, <2>2 DEF add_to_open_file_table

(* An open file's offset moves on inside fs_data.                          *)
LEMMA AdvanceType ==
    ASSUME TypeOK, NEW h \in Handles, NEW k, OffsetOf(h) + k \in 0 .. MemorySize,
           Advance(h, k)
    PROVE  open_file_table' \in [Handles -> OpenFile]
  BY DEF Advance, OffsetOf, TypeOK, OpenFile

LEMMA TypeStep ==
    ASSUME IInv, [Next]_vars
    PROVE  TypeOK'
  <1> USE DEF IInv
  <1>1. ASSUME NEW n, NEW mode, OpenExisting(n, mode) PROVE TypeOK'
    <2>1. PICK inum \in Inumbers :
            /\ IF "TRUNC" \in mode /\ inode_table[inum].i_size > 0
               THEN Truncate(inum)
               ELSE UNCHANGED <<free_blocks, inode_table, status>>
            /\ add_to_open_file_table(inum, IF "APPEND" \in mode THEN inode_table'[inum].i_size ELSE 0)
            /\ UNCHANGED <<freeinode_ts, fs_data, dir>>
      BY <1>1 DEF OpenExisting
    <2>2. /\ inode_table' \in [Inumbers -> Inode]
          /\ free_blocks' \in [Blocks -> {"FREE", "TAKEN"}]
          /\ status' \in {"running", "panic", "undefined"}
      <3>1. CASE UNCHANGED <<free_blocks, inode_table, status>>
        BY <3>1 DEF TypeOK
      <3>2. CASE Truncate(inum)
        <4>1. 0 \in 0 .. BLOCK_SIZE
          BY SizesFit
        <4>2. inode_table' = [inode_table EXCEPT ![inum].i_size = 0]
          BY <3>2 DEF Truncate
        <4>3. inode_table' \in [Inumbers -> Inode]
          BY <4>1, <4>2 DEF TypeOK, Inode
        <4> QED
          BY <3>2, <4>3 DEF TypeOK, Truncate, data_block_free, AlwaysAssert
      <3> QED
        BY <2>1, <3>1, <3>2
    <2>3. (IF "APPEND" \in mode THEN inode_table'[inum].i_size ELSE 0) \in 0 .. BLOCK_SIZE
      BY <2>2, SizesFit DEF Inode
    <2> QED
      BY <2>1, <2>2, <2>3, HandleStep DEF TypeOK
  <1>2. ASSUME NEW n \in Name \cup {LongName}, NEW mode, OpenCreate(n, mode) PROVE TypeOK'
    <2>1. PICK inum \in Inumbers, d \in Entries :
            /\ freeinode_ts' = [freeinode_ts EXCEPT ![inum] = "TAKEN"]
            /\ inode_table' = [inode_table EXCEPT ![inum] = EmptyInode]
            /\ dir' = [dir EXCEPT ![d] = [d_name |-> n, d_inumber |-> inum]]
            /\ add_to_open_file_table(inum, 0)
      BY <1>2 DEF OpenCreate
    <2>2. n \in Name /\ UNCHANGED <<fs_data, free_blocks, status>>
      BY <1>2 DEF OpenCreate, blocks
    <2>3. inode_table' \in [Inumbers -> Inode] /\ dir' \in [Entries -> DirEntry]
      BY <2>1, <2>2, SizesFit DEF TypeOK, EmptyInode, Inode, DirEntry
    <2>4. freeinode_ts' \in [Inumbers -> {"FREE", "TAKEN"}]
      BY <2>1 DEF TypeOK
    <2>5. 0 \in 0 .. BLOCK_SIZE
      BY SizesFit
    <2> QED
      BY <2>1, <2>2, <2>3, <2>4, <2>5, HandleStep DEF TypeOK
  <1>3. ASSUME NEW n, NEW mode, OpenCreateUndone(n, mode) PROVE TypeOK'
    BY <1>3, SizesFit DEF OpenCreateUndone, TypeOK, EmptyInode, Inode, Returns, blocks, opens
  <1>4. ASSUME Fails PROVE TypeOK'
    BY <1>4 DEF Fails, TypeOK, Returns, inodes, blocks, opens
  <1>5. ASSUME NEW h \in Handles, tfs_close(h) PROVE TypeOK'
    <2>1. NoOpenFile \in OpenFile
      BY SizesFit, FSAssumption DEF NoOpenFile, OpenFile, Inumbers
    <2> QED
      BY <1>5, <2>1 DEF tfs_close, TypeOK, Returns, inodes, blocks
  <1>6. ASSUME NEW h \in Handles, NEW data, WriteNothing(h, data) PROVE TypeOK'
    BY <1>6 DEF WriteNothing, TypeOK, Returns, inodes, blocks, opens
  <1>7. ASSUME NEW h \in Handles, NEW data \in Buffers, WriteBytes(h, data) PROVE TypeOK'
    <2> DEFINE k == WriteLen(h, Len(data))
    <2>1. /\ OffsetOf(h) \in Nat /\ open_file_table[h].of_inumber \in Inumbers
          /\ k \in Nat /\ k <= Len(data) /\ OffsetOf(h) + k \in 0 .. BLOCK_SIZE
      <3>1. OffsetOf(h) \in Nat /\ open_file_table[h].of_inumber \in Inumbers
        BY SizesFit DEF TypeOK, OffsetOf, OpenFile
      <3>2. k \in Nat /\ Len(data) \in Nat
        BY BuffersType, WriteLenType
      <3>3. OffsetOf(h) + k <= BLOCK_SIZE
        BY <1>7 DEF WriteBytes
      <3>4. k <= Len(data)
        <4>1. CASE (Len(data) + OffsetOf(h)) % SizeMod > BLOCK_SIZE
          <5>1. k = (BLOCK_SIZE - OffsetOf(h)) % SizeMod
            BY <4>1 DEF WriteLen
          <5>2. OffsetOf(h) <= BLOCK_SIZE
            BY <3>1, <3>2, <3>3, SizesFit
          <5>3. BLOCK_SIZE - OffsetOf(h) \in 0 .. SizeMod - 1
            BY <3>1, <5>2, SizesFit
          <5>4. k = BLOCK_SIZE - OffsetOf(h)
            BY <5>1, <5>3, SizesFit, ModSmall
          <5>5. Len(data) + OffsetOf(h) \in Nat /\ Len(data) + OffsetOf(h) > BLOCK_SIZE
            <6>1. Len(data) + OffsetOf(h) \in Nat /\ SizeMod \in Nat \ {0}
              BY <3>1, <3>2, SizesFit
            <6>2. /\ (Len(data) + OffsetOf(h)) % SizeMod \in Nat
                  /\ (Len(data) + OffsetOf(h)) % SizeMod <= Len(data) + OffsetOf(h)
              BY <6>1, ModAtMost
            <6> QED
              BY <6>1, <6>2, <4>1, SizesFit
          <5> QED
            BY <3>1, <3>2, <5>4, <5>5, SizesFit
        <4>2. CASE ~((Len(data) + OffsetOf(h)) % SizeMod > BLOCK_SIZE)
          BY <3>2, <4>2 DEF WriteLen
        <4> QED
          BY <4>1, <4>2
      <3> QED
        BY <3>1, <3>2, <3>3, <3>4
    <2> HIDE DEF k
    <2>2. PICK b \in Blocks :
            /\ BlockToWrite(h, b)
            /\ fs_data' = Overwritten(PlaceOf(b) + OffsetOf(h), k, data)
            /\ inode_table' = [inode_table EXCEPT ![open_file_table[h].of_inumber] =
                 [i_size |-> SizeAfter(@.i_size, OffsetOf(h) + k), i_data_block |-> b]]
      BY <1>7 DEF WriteBytes, k
    <2>3. inode_table' \in [Inumbers -> Inode]
      BY <2>1, <2>2, SizesFit DEF TypeOK, SizeAfter, Inode
    <2>4. fs_data' \in [Places -> Byte \cup {Garbage}]
      <3>1. PlaceOf(b) + OffsetOf(h) \in Nat
        BY <2>1, PlaceType
      <3> DEFINE q == PlaceOf(b) + OffsetOf(h)
      <3>2. \A p \in Places : p \in q .. q + k - 1 => p - q + 1 \in 1 .. Len(data)
        BY <2>1, <3>1, BuffersType DEF Places
      <3>3. \A p \in Places : p \in q .. q + k - 1 => data[p - q + 1] \in Byte
        BY <3>2, BuffersType
      <3> QED
        BY <2>2, <3>3 DEF Overwritten, TypeOK
    <2>5. free_blocks' \in [Blocks -> {"FREE", "TAKEN"}]
      BY <2>2 DEF BlockToWrite, TypeOK
    <2>6. open_file_table' \in [Handles -> OpenFile]
      <3>1. OffsetOf(h) + k \in 0 .. MemorySize
        BY <2>1, SizesFit
      <3> QED
        BY <1>7, <3>1, AdvanceType DEF WriteBytes, k
    <2> QED
      BY <1>7, <2>1, <2>3, <2>4, <2>5, <2>6 DEF WriteBytes, TypeOK, Returns, k
  <1>8. ASSUME NEW h \in Handles, NEW data, WriteWild(h, data) PROVE TypeOK'
    BY <1>8 DEF WriteWild, TypeOK, inodes, blocks, opens
  <1>9. ASSUME NEW h \in Handles, NEW len, ReadNothing(h, len) PROVE TypeOK'
    BY <1>9 DEF ReadNothing, TypeOK, Returns, inodes, blocks, opens
  <1>10. ASSUME NEW h \in Handles, NEW len \in 0 .. MaxRequest, ReadBytes(h, len) PROVE TypeOK'
    <2> DEFINE k == ReadLen(h, len)
               b == InodeOf(h).i_data_block
    <2>1. k \in Nat /\ OffsetOf(h) \in Nat
      <3>1. len \in Nat
        BY FSAssumption
      <3>2. k \in Nat
        BY <3>1, ReadLenType
      <3>3. OffsetOf(h) \in Nat
        BY SizesFit DEF TypeOK, OffsetOf, OpenFile
      <3> QED
        BY <3>2, <3>3
    <2>2. b \in Blocks /\ InMemory(b, OffsetOf(h), k)
      BY <1>10 DEF ReadBytes
    <2> HIDE DEF k, b
    <2>3. PlaceOf(b) \in Nat
      BY <2>2, PlaceType
    <2>4. OffsetOf(h) + k \in 0 .. MemorySize
      BY <2>1, <2>2, <2>3, SizesFit DEF InMemory
    <2>5. BytesAt(PlaceOf(b) + OffsetOf(h), k) \in Seq(Byte \cup {Garbage})
      <3> DEFINE q == PlaceOf(b) + OffsetOf(h)
      <3>1. \A i \in 1 .. k : q + i - 1 \in Places
        BY <2>1, <2>2, <2>3, SizesFit DEF InMemory, Places
      <3>2. \A i \in 1 .. k : fs_data[q + i - 1] \in Byte \cup {Garbage}
        BY <3>1 DEF TypeOK
      <3> QED
        BY <2>1, <3>2 DEF BytesAt
    <2>6. open_file_table' \in [Handles -> OpenFile]
      BY <1>10, <2>4, AdvanceType DEF ReadBytes, k
    <2>7. ret' = k /\ buf' = BytesAt(PlaceOf(b) + OffsetOf(h), k)
          /\ UNCHANGED <<inodes, blocks, dir, free_open_file_entries, status>>
      BY <1>10 DEF ReadBytes, k, b
    <2> QED
      BY <2>1, <2>5, <2>6, <2>7 DEF TypeOK, inodes, blocks
  <1>11. ASSUME NEW h \in Handles, NEW len, ReadWild(h, len) PROVE TypeOK'
    BY <1>11 DEF ReadWild, TypeOK, inodes, blocks, opens
  <1>12. ASSUME NEW n, UnlinkFile(n) PROVE TypeOK'
    <2>1. inode_table' = inode_table /\ fs_data' = fs_data /\ UNCHANGED opens /\ Returns(0)
      BY <1>12 DEF UnlinkFile
    <2>2. /\ freeinode_ts' \in [Inumbers -> {"FREE", "TAKEN"}]
          /\ free_blocks' \in [Blocks -> {"FREE", "TAKEN"}]
          /\ status' \in {"running", "panic", "undefined"}
      BY <1>12 DEF UnlinkFile, AlwaysAssert, TypeOK
    <2>3. dir' \in [Entries -> DirEntry]
      BY <1>12 DEF UnlinkFile, TypeOK, DirEntry
    <2> QED
      BY <2>1, <2>2, <2>3 DEF TypeOK, Returns, opens
  <1>13. CASE UNCHANGED vars
    BY <1>13 DEF vars, inodes, blocks, opens, TypeOK
  <1> QED
    BY <1>1, <1>2, <1>3, <1>4, <1>5, <1>6, <1>7, <1>8, <1>9, <1>10, <1>11, <1>12, <1>13
    DEF Next, tfs_open, tfs_unlink, tfs_write, tfs_read, BadHandle, OpenFails, UnlinkFails,
        WriteNoSpace

-----------------------------------------------------------------------------
(* Only a successful creation and a deletion change the directory or which *)
(* inodes exist.                                                           *)
LEMMA DirectoryChanges ==
    ASSUME Next
    PROVE  \/ UNCHANGED <<dir, freeinode_ts>>
           \/ \E n \in Name \cup {LongName}, mode \in Modes : OpenCreate(n, mode)
           \/ \E n \in Name \cup {LongName} : UnlinkFile(n)
  BY DEF Next, tfs_open, OpenExisting, OpenCreateUndone, OpenFails, tfs_unlink, UnlinkFails,
         BadHandle, Fails, tfs_close, tfs_write, WriteNothing, WriteNoSpace, WriteBytes,
         WriteWild, tfs_read, ReadNothing, ReadBytes, ReadWild, inodes

LEMMA DirStep ==
    ASSUME IInv, Next
    PROVE  DirectoryIsExact' /\ ClearedBeforeUsed'
  <1> USE DEF IInv
  <1>1. CASE UNCHANGED <<dir, freeinode_ts>>
    BY <1>1 DEF DirectoryIsExact, ClearedBeforeUsed, Live
  <1>2. ASSUME NEW n \in Name \cup {LongName}, NEW mode, OpenCreate(n, mode)
        PROVE  DirectoryIsExact' /\ ClearedBeforeUsed'
    <2>1. PICK inum \in Inumbers, d \in Entries :
            /\ First(FreeIn(freeinode_ts), inum)
            /\ First({e \in Entries : dir[e].d_inumber = -1}, d)
            /\ freeinode_ts' = [freeinode_ts EXCEPT ![inum] = "TAKEN"]
            /\ dir' = [dir EXCEPT ![d] = [d_name |-> n, d_inumber |-> inum]]
      BY <1>2 DEF OpenCreate
    <2>2. n \in Name /\ \A e \in Entries : dir[e].d_inumber # -1 => dir[e].d_name # n
      BY <1>2 DEF OpenCreate, Matches
    <2>3. ~Live(inum) /\ inum # ROOT_DIR_INUM /\ inum # -1
      BY <2>1 DEF First, FreeIn, Live, DirectoryIsExact, Inumbers
    <2>4. \A e \in Entries : dir[e].d_inumber # inum
      BY <2>3 DEF DirectoryIsExact
    <2>5. \A i \in Inumbers : Live(i)' <=> Live(i) \/ i = inum
      BY <2>1 DEF Live, TypeOK
    <2>6. /\ dir'[d].d_name = n /\ dir'[d].d_inumber = inum
          /\ \A e \in Entries : e # d => dir'[e] = dir[e]
          /\ dir[d].d_inumber = -1
          /\ \A e \in Entries : dir[e].d_inumber = -1 => d <= e
      BY <2>1 DEF TypeOK, First
    <2>7. DirectoryIsExact'
      <3>1. Live(ROOT_DIR_INUM)'
        BY <2>5, FSAssumption DEF DirectoryIsExact, Inumbers, ROOT_DIR_INUM
      <3>2. \A e, f \in Entries :
              /\ dir'[e].d_inumber # -1 /\ dir'[f].d_inumber # -1
              /\ dir'[e].d_inumber = dir'[f].d_inumber \/ dir'[e].d_name = dir'[f].d_name
              => e = f
        BY <2>2, <2>4, <2>6 DEF DirectoryIsExact
      <3>3. \A i \in Inumbers \ {ROOT_DIR_INUM} :
              Live(i)' <=> \E e \in Entries : dir'[e].d_inumber = i
        <4>1. \A i \in Inumbers : i # -1
          BY DEF Inumbers
        <4> QED
          BY <2>5, <2>6, <4>1 DEF DirectoryIsExact
      <3>4. \A e \in Entries : dir'[e].d_inumber # ROOT_DIR_INUM
        BY <2>3, <2>6 DEF DirectoryIsExact
      <3>5. \A e \in Entries : dir'[e].d_inumber # -1 => dir'[e].d_name \in Name
        BY <2>2, <2>6 DEF DirectoryIsExact
      <3> QED
        BY <3>1, <3>2, <3>3, <3>4, <3>5 DEF DirectoryIsExact
    <2>8. ClearedBeforeUsed'
      <3> SUFFICES ASSUME NEW e \in Entries, NEW f \in Entries,
                          e < f, dir'[e].d_inumber = -1, dir'[f].d_inumber # -1
                   PROVE  dir'[e].d_name \notin Name
        BY DEF ClearedBeforeUsed
      <3>1. e # d /\ d <= e
        BY <2>3, <2>6
      <3>2. f # d
        BY <3>1 DEF Entries
      <3> QED
        BY <2>6, <3>1, <3>2 DEF ClearedBeforeUsed
    <2> QED
      BY <2>7, <2>8
  <1>3. ASSUME NEW n, UnlinkFile(n)
        PROVE  DirectoryIsExact' /\ ClearedBeforeUsed'
    <2>1. PICK inum \in Inumbers :
            tfs_lookup(n, inum) /\ freeinode_ts' = [freeinode_ts EXCEPT ![inum] = "FREE"]
      BY <1>3 DEF UnlinkFile
    <2>2. PICK d \in Entries :
            /\ First({e \in Entries : dir[e].d_name = n}, d)
            /\ dir' = [dir EXCEPT ![d] = [d_name |-> NoName, d_inumber |-> -1]]
      BY <1>3 DEF UnlinkFile
    <2>3. inum # ROOT_DIR_INUM /\ inum # -1
      BY <2>1, LookupFinds DEF Inumbers
    <2>4. dir[d].d_inumber = inum
      BY <2>1, <2>2, ClearsTheEntryFound
    <2>5. \A i \in Inumbers : Live(i)' <=> Live(i) /\ i # inum
      BY <2>1 DEF Live, TypeOK
    <2>6. /\ dir'[d].d_name = NoName /\ dir'[d].d_inumber = -1
          /\ \A e \in Entries : e # d => dir'[e] = dir[e]
      BY <2>2 DEF TypeOK
    <2>7. \A e \in Entries : e # d => dir[e].d_inumber # inum
      BY <2>3, <2>4 DEF DirectoryIsExact
    <2>8. DirectoryIsExact'
      <3>1. \A i \in Inumbers : i # -1
        BY DEF Inumbers
      <3>2. Live(ROOT_DIR_INUM)'
        BY <2>3, <2>5, FSAssumption DEF DirectoryIsExact, Inumbers, ROOT_DIR_INUM
      <3>3. \A i \in Inumbers \ {ROOT_DIR_INUM} :
              Live(i)' <=> \E e \in Entries : dir'[e].d_inumber = i
        BY <2>4, <2>5, <2>6, <2>7, <3>1 DEF DirectoryIsExact
      <3>4. \A e \in Entries : dir'[e].d_inumber # -1 => e # d
        BY <2>6
      <3> QED
        BY <2>6, <3>2, <3>3, <3>4 DEF DirectoryIsExact, ROOT_DIR_INUM
    <2>9. ClearedBeforeUsed'
      BY <2>6, FSAssumption DEF ClearedBeforeUsed
    <2> QED
      BY <2>8, <2>9
  <1> QED
    BY <1>1, <1>2, <1>3, DirectoryChanges

-----------------------------------------------------------------------------
Owned(i) == Live(i) /\ HasBlock(i)
BlockOf(i) == inode_table[i].i_data_block

(* An inode that gives up its block, if it had one, disturbs no other.     *)
LEMMA ReleaseStep ==
    ASSUME BlocksAreOwned, NEW inum \in Inumbers, ~Owned(inum)',
           \A j \in Inumbers \ {inum} : (Owned(j)' => Owned(j)) /\ inode_table'[j] = inode_table[j],
           \A b \in Blocks : free_blocks[b] = "TAKEN" =>
               free_blocks'[b] = "TAKEN" \/ (Owned(inum) /\ b = BlockOf(inum))
    PROVE  BlocksAreOwned'
  BY DEF BlocksAreOwned, Owned, BlockOf

(* Only these actions change a block's owner or size.                      *)
LEMMA BlockChanges ==
    ASSUME Next
    PROVE  \/ UNCHANGED <<inode_table, free_blocks, freeinode_ts>>
           \/ \E n \in Name \cup {LongName}, mode \in Modes :
                OpenExisting(n, mode) \/ OpenCreate(n, mode) \/ OpenCreateUndone(n, mode)
           \/ \E n \in Name \cup {LongName} : UnlinkFile(n)
           \/ \E h \in Handles, data \in Buffers : WriteBytes(h, data)
  BY DEF Next, tfs_open, OpenFails, tfs_unlink, UnlinkFails, BadHandle, Fails, tfs_close,
         tfs_write, WriteNothing, WriteNoSpace, WriteWild, tfs_read, ReadNothing, ReadBytes,
         ReadWild, inodes, blocks

LEMMA BlockStep ==
    ASSUME IInv, Next
    PROVE  BlocksAreOwned'
  <1> USE DEF IInv
  <1>1. CASE UNCHANGED <<inode_table, free_blocks, freeinode_ts>>
    BY <1>1 DEF BlocksAreOwned, Live, HasBlock
  <1>2. ASSUME NEW n, NEW mode, OpenExisting(n, mode) PROVE BlocksAreOwned'
    <2>1. PICK inum \in Inumbers :
            /\ tfs_lookup(n, inum)
            /\ IF "TRUNC" \in mode /\ inode_table[inum].i_size > 0
               THEN Truncate(inum)
               ELSE UNCHANGED <<free_blocks, inode_table, status>>
            /\ UNCHANGED freeinode_ts
      BY <1>2 DEF OpenExisting
    <2>2. CASE UNCHANGED <<free_blocks, inode_table>>
      BY <2>1, <2>2 DEF BlocksAreOwned, Live, HasBlock
    <2>3. CASE inode_table[inum].i_size > 0 /\ Truncate(inum)
      <3>1. Owned(inum)
        BY <2>1, <2>3, LookupFinds DEF Owned, HasBlock
      <3>2. /\ inode_table' = [inode_table EXCEPT ![inum].i_size = 0]
            /\ free_blocks' = [free_blocks EXCEPT ![BlockOf(inum)] = "FREE"]
        BY <2>3 DEF Truncate, data_block_free, BlockOf
      <3>3. inode_table'[inum].i_size = 0 /\ ~Owned(inum)'
        BY <3>2 DEF TypeOK, Inode, Owned, HasBlock
      <3>4. \A j \in Inumbers \ {inum} :
              (Owned(j)' => Owned(j)) /\ inode_table'[j] = inode_table[j]
        BY <2>1, <3>2 DEF TypeOK, Owned, Live, HasBlock
      <3>5. \A b \in Blocks : free_blocks[b] = "TAKEN" =>
              free_blocks'[b] = "TAKEN" \/ b = BlockOf(inum)
        BY <3>2 DEF TypeOK
      <3> QED
        BY <3>1, <3>3, <3>4, <3>5, ReleaseStep
    <2> QED
      BY <2>1, <2>2, <2>3
  <1>3. ASSUME NEW n, NEW mode, OpenCreate(n, mode) \/ OpenCreateUndone(n, mode)
        PROVE  BlocksAreOwned'
    <2>1. PICK inum \in Inumbers :
            /\ inode_table' = [inode_table EXCEPT ![inum] = EmptyInode]
            /\ \/ freeinode_ts' = [freeinode_ts EXCEPT ![inum] = "TAKEN"]
               \/ UNCHANGED freeinode_ts
            /\ UNCHANGED free_blocks
      BY <1>3 DEF OpenCreate, OpenCreateUndone, blocks
    <2>2. inode_table'[inum].i_size = 0 /\ ~Owned(inum)'
      BY <2>1 DEF TypeOK, EmptyInode, Owned, HasBlock
    <2>3. \A j \in Inumbers \ {inum} :
            (Owned(j)' => Owned(j)) /\ inode_table'[j] = inode_table[j]
      BY <2>1 DEF TypeOK, Owned, Live, HasBlock
    <2> QED
      BY <2>1, <2>2, <2>3, ReleaseStep
  <1>4. ASSUME NEW n, UnlinkFile(n) PROVE BlocksAreOwned'
    <2>1. PICK inum \in Inumbers :
            /\ tfs_lookup(n, inum)
            /\ IF inode_table[inum].i_size > 0
               THEN free_blocks' = [free_blocks EXCEPT ![BlockOf(inum)] = "FREE"]
               ELSE UNCHANGED free_blocks
            /\ freeinode_ts' = [freeinode_ts EXCEPT ![inum] = "FREE"]
            /\ UNCHANGED inode_table
      BY <1>4 DEF UnlinkFile, BlockOf
    <2>2. ~Owned(inum)'
      BY <2>1 DEF TypeOK, Owned, Live
    <2>3. \A j \in Inumbers \ {inum} :
            (Owned(j)' => Owned(j)) /\ inode_table'[j] = inode_table[j]
      BY <2>1 DEF TypeOK, Owned, Live, HasBlock
    <2>4. \A b \in Blocks : free_blocks[b] = "TAKEN" =>
            free_blocks'[b] = "TAKEN" \/ (Owned(inum) /\ b = BlockOf(inum))
      BY <2>1, LookupFinds DEF TypeOK, Owned, HasBlock
    <2> QED
      BY <2>2, <2>3, <2>4, ReleaseStep
  <1>5. ASSUME NEW h \in Handles, NEW data \in Buffers, WriteBytes(h, data)
        PROVE  BlocksAreOwned'
    <2>1. PICK inum \in Inumbers : inum = open_file_table[h].of_inumber
      BY DEF TypeOK, OpenFile
    <2>2. PICK b \in Blocks :
            /\ BlockToWrite(h, b)
            /\ inode_table'[inum].i_data_block = b
            /\ \A j \in Inumbers \ {inum} : inode_table'[j] = inode_table[j]
      BY <1>5, <2>1 DEF WriteBytes, TypeOK
    <2>3. UNCHANGED freeinode_ts
      BY <1>5 DEF WriteBytes
    <2>4. \A j \in Inumbers : Live(j)' <=> Live(j)
      BY <2>3 DEF Live
    <2>5. \A j \in Inumbers \ {inum} : Owned(j)' <=> Owned(j)
      BY <2>2, <2>4 DEF Owned, HasBlock
    <2>6. CASE ~HasBlock(inum)
      <3>1. InodeOf(h).i_size = 0
        BY <2>1, <2>6, SizesFit DEF TypeOK, Inode, InodeOf, HasBlock
      <3>2. free_blocks[b] = "FREE" /\ free_blocks' = [free_blocks EXCEPT ![b] = "TAKEN"]
        BY <2>2, <3>1 DEF BlockToWrite, First, FreeIn
      <3>3. free_blocks'[b] = "TAKEN"
            /\ \A c \in Blocks : free_blocks[c] = "TAKEN" => c # b /\ free_blocks'[c] = "TAKEN"
        BY <3>2 DEF TypeOK
      <3>4. \A j \in Inumbers \ {inum} : Owned(j) =>
              BlockOf(j) \in Blocks /\ free_blocks[BlockOf(j)] = "TAKEN"
        BY DEF BlocksAreOwned, Owned, BlockOf
      <3> QED
        BY <2>2, <2>5, <3>3, <3>4 DEF BlocksAreOwned, Owned, BlockOf
    <2>7. CASE HasBlock(inum)
      <3>1. b = BlockOf(inum) /\ UNCHANGED free_blocks
        BY <2>1, <2>2, <2>7 DEF BlockToWrite, InodeOf, HasBlock, BlockOf
      <3>2. Owned(inum)' => Owned(inum)
        BY <2>1, <2>4, <2>7 DEF Owned
      <3> QED
        BY <2>1, <2>2, <2>5, <3>1, <3>2 DEF BlocksAreOwned, Owned, BlockOf
    <2> QED
      BY <2>6, <2>7
  <1> QED
    BY <1>1, <1>2, <1>3, <1>4, <1>5, BlockChanges

-----------------------------------------------------------------------------
LEMMA Invariance == Spec => []IInv
  <1>1. IInv /\ [Next]_vars => IInv'
    <2> SUFFICES ASSUME IInv, [Next]_vars PROVE IInv'
      OBVIOUS
    <2>1. CASE Next
      BY <2>1, TypeStep, DirStep, BlockStep DEF IInv
    <2>2. CASE UNCHANGED vars
      BY <2>2, TypeStep
      DEF IInv, vars, inodes, blocks, DirectoryIsExact, ClearedBeforeUsed, BlocksAreOwned,
          Live, HasBlock
    <2> QED
      BY <2>1, <2>2
  <1> QED
    BY <1>1, InitIInv, PTL DEF Spec

(* Every table keeps its type, offsets stay inside fs_data.                *)
THEOREM TypeCorrect == Spec => []TypeOK
  BY Invariance, PTL DEF IInv

(* The directory and the inode table agree after any calls, in any order,  *)
(* and whatever the memory of the directory held before the first one.     *)
THEOREM DirectoryCorrect == Spec => []DirectoryIsExact
  BY Invariance, PTL DEF IInv

(* No data block ever has two owners, and none is free while it has one.   *)
THEOREM OwnershipOfBlocks == Spec => []BlocksAreOwned
  BY Invariance, PTL DEF IInv

-----------------------------------------------------------------------------
(* Counting: there is one directory entry and one inode for every file.    *)

UsedEntries == {d \in Entries : dir[d].d_inumber # -1}
FileInodes  == {i \in Inumbers \ {ROOT_DIR_INUM} : Live(i)}
OpenHandles == {h \in Handles : IsOpen(h)}

LEMMA TablesFinite ==
    /\ IsFiniteSet(Entries) /\ Cardinality(Entries) = MAX_DIR_ENTRIES
    /\ IsFiniteSet(Inumbers \ {ROOT_DIR_INUM})
    /\ Cardinality(Inumbers \ {ROOT_DIR_INUM}) = INODE_TABLE_SIZE - 1
    /\ IsFiniteSet(Handles) /\ Cardinality(Handles) = MAX_OPEN_FILES
    /\ MAX_DIR_ENTRIES \in Nat /\ INODE_TABLE_SIZE \in Nat /\ MAX_OPEN_FILES \in Nat
  <1>1. MAX_DIR_ENTRIES \in Nat /\ INODE_TABLE_SIZE \in Nat \ {0} /\ MAX_OPEN_FILES \in Nat
    BY FSAssumption
  <1>2. /\ IsFiniteSet(Entries)
        /\ Cardinality(Entries) =
             IF 0 > MAX_DIR_ENTRIES - 1 THEN 0 ELSE MAX_DIR_ENTRIES - 1 - 0 + 1
    BY <1>1, FS_Interval DEF Entries
  <1>3. /\ IsFiniteSet(Handles)
        /\ Cardinality(Handles) =
             IF 0 > MAX_OPEN_FILES - 1 THEN 0 ELSE MAX_OPEN_FILES - 1 - 0 + 1
    BY <1>1, FS_Interval DEF Handles
  <1>4. Inumbers \ {ROOT_DIR_INUM} = 1 .. INODE_TABLE_SIZE - 1
    BY <1>1 DEF Inumbers, ROOT_DIR_INUM
  <1>5. /\ IsFiniteSet(1 .. INODE_TABLE_SIZE - 1)
        /\ Cardinality(1 .. INODE_TABLE_SIZE - 1) =
             IF 1 > INODE_TABLE_SIZE - 1 THEN 0 ELSE INODE_TABLE_SIZE - 1 - 1 + 1
    BY <1>1, FS_Interval
  <1>6. Cardinality(Entries) = MAX_DIR_ENTRIES /\ Cardinality(Handles) = MAX_OPEN_FILES
    BY <1>1, <1>2, <1>3
  <1>7. Cardinality(1 .. INODE_TABLE_SIZE - 1) = INODE_TABLE_SIZE - 1
    BY <1>1, <1>5
  <1>8. /\ IsFiniteSet(Inumbers \ {ROOT_DIR_INUM})
        /\ Cardinality(Inumbers \ {ROOT_DIR_INUM}) = INODE_TABLE_SIZE - 1
    BY <1>4, <1>5, <1>7
  <1> QED
    BY <1>1, <1>2, <1>3, <1>6, <1>8

(* The entries in use map one to one to the names of the files, and to     *)
(* their inodes.                                                           *)
LEMMA FilesCounted ==
    ASSUME TypeOK, DirectoryIsExact
    PROVE  /\ IsFiniteSet(UsedEntries) /\ IsFiniteSet(FileInodes) /\ IsFiniteSet(listed)
           /\ Cardinality(listed) \in Nat
           /\ Cardinality(listed) = Cardinality(UsedEntries)
           /\ Cardinality(listed) = Cardinality(FileInodes)
  <1>1. IsFiniteSet(UsedEntries)
    BY TablesFinite, FS_Subset DEF UsedEntries
  <1>2. IsFiniteSet(listed) /\ Cardinality(listed) = Cardinality(UsedEntries)
    <2> DEFINE f == [d \in UsedEntries |-> dir[d].d_name]
    <2>1. f \in [UsedEntries -> listed]
      BY DEF DirectoryIsExact, UsedEntries, listed, Matches
    <2>2. \A d, e \in UsedEntries : f[d] = f[e] => d = e
      BY DEF DirectoryIsExact, UsedEntries
    <2>3. \A n \in listed : \E d \in UsedEntries : f[d] = n
      BY DEF UsedEntries, listed, Matches
    <2>4. f \in Bijection(UsedEntries, listed)
      BY <2>1, <2>2, <2>3 DEF Bijection, Injection, Surjection, IsInjective
    <2>5. ExistsBijection(UsedEntries, listed)
      BY <2>4 DEF ExistsBijection
    <2> QED
      BY <1>1, <2>5, FS_Bijection
  <1>3. IsFiniteSet(FileInodes) /\ Cardinality(FileInodes) = Cardinality(UsedEntries)
    <2> DEFINE f == [d \in UsedEntries |-> dir[d].d_inumber]
    <2>1. f \in [UsedEntries -> FileInodes]
      BY DEF TypeOK, DirEntry, DirectoryIsExact, UsedEntries, FileInodes
    <2>2. \A d, e \in UsedEntries : f[d] = f[e] => d = e
      BY DEF DirectoryIsExact, UsedEntries
    <2>3. \A i \in FileInodes : \E d \in UsedEntries : f[d] = i
      <3>1. \A i \in FileInodes : i # -1 /\ \E d \in Entries : dir[d].d_inumber = i
        BY DEF DirectoryIsExact, FileInodes, Inumbers
      <3> QED
        BY <3>1 DEF UsedEntries
    <2>4. f \in Bijection(UsedEntries, FileInodes)
      BY <2>1, <2>2, <2>3 DEF Bijection, Injection, Surjection, IsInjective
    <2>5. ExistsBijection(UsedEntries, FileInodes)
      BY <2>4 DEF ExistsBijection
    <2> QED
      BY <1>1, <2>5, FS_Bijection
  <1> QED
    BY <1>1, <1>2, <1>3, FS_CardinalityType

(* The tables have room for another file exactly when an inode and a       *)
(* directory entry are free.                                               *)
LEMMA RoomIsFree ==
    ASSUME TypeOK, DirectoryIsExact
    PROVE  Cardinality(listed) < MAX_FILES <=>
             FreeIn(freeinode_ts) # {} /\ \E d \in Entries : dir[d].d_inumber = -1
  <1>1. /\ UsedEntries \in SUBSET Entries
        /\ Cardinality(UsedEntries) <= MAX_DIR_ENTRIES
        /\ Cardinality(UsedEntries) = MAX_DIR_ENTRIES => UsedEntries = Entries
    BY TablesFinite, FS_Subset DEF UsedEntries
  <1>2. /\ FileInodes \in SUBSET (Inumbers \ {ROOT_DIR_INUM})
        /\ Cardinality(FileInodes) <= INODE_TABLE_SIZE - 1
        /\ Cardinality(FileInodes) = INODE_TABLE_SIZE - 1 => FileInodes = Inumbers \ {ROOT_DIR_INUM}
    BY TablesFinite, FS_Subset DEF FileInodes
  <1>3. Cardinality(UsedEntries) < MAX_DIR_ENTRIES <=> \E d \in Entries : dir[d].d_inumber = -1
    <2>1. UsedEntries = Entries <=> ~\E d \in Entries : dir[d].d_inumber = -1
      BY DEF UsedEntries
    <2>2. Cardinality(UsedEntries) = MAX_DIR_ENTRIES <=> UsedEntries = Entries
      BY <1>1, TablesFinite
    <2> QED
      BY <1>1, <2>1, <2>2, FilesCounted, TablesFinite
  <1>4. Cardinality(FileInodes) < INODE_TABLE_SIZE - 1 <=> FreeIn(freeinode_ts) # {}
    <2>1. FreeIn(freeinode_ts) = {i \in Inumbers \ {ROOT_DIR_INUM} : ~Live(i)}
      BY DEF TypeOK, FreeIn, Live, DirectoryIsExact
    <2>2. FileInodes = Inumbers \ {ROOT_DIR_INUM} <=> FreeIn(freeinode_ts) = {}
      BY <2>1 DEF FileInodes
    <2>3. Cardinality(FileInodes) = INODE_TABLE_SIZE - 1 <=> FileInodes = Inumbers \ {ROOT_DIR_INUM}
      BY <1>2, TablesFinite
    <2> QED
      BY <1>2, <2>2, <2>3, FilesCounted, TablesFinite
  <1>5. Cardinality(listed) < MAX_FILES <=>
          Cardinality(listed) < INODE_TABLE_SIZE - 1 /\ Cardinality(listed) < MAX_DIR_ENTRIES
    BY FilesCounted, TablesFinite DEF MAX_FILES
  <1> QED
    BY <1>3, <1>4, <1>5, FilesCounted

LEMMA ListedStays ==
    ASSUME UNCHANGED dir
    PROVE  listed' = listed
  BY DEF listed, Matches

LEMMA CreateLists ==
    ASSUME TypeOK, NEW n \in Name \cup {LongName}, NEW mode, OpenCreate(n, mode)
    PROVE  n \in Name /\ listed' = listed \cup {n}
  <1>1. PICK inum \in Inumbers, d \in Entries :
          /\ dir[d].d_inumber = -1
          /\ dir' = [dir EXCEPT ![d] = [d_name |-> n, d_inumber |-> inum]]
    BY DEF OpenCreate, First
  <1>2. n \in Name /\ inum # -1
    BY DEF OpenCreate, Inumbers
  <1>3. /\ dir'[d] = [d_name |-> n, d_inumber |-> inum]
        /\ \A e \in Entries : e # d => dir'[e] = dir[e]
    BY <1>1 DEF TypeOK
  <1>4. \A m \in Name : Matches(m)' # {} <=> Matches(m) # {} \/ m = n
    BY <1>1, <1>2, <1>3 DEF Matches
  <1> QED
    BY <1>2, <1>4 DEF listed

LEMMA UnlinkUnlists ==
    ASSUME IInv, NEW n, UnlinkFile(n)
    PROVE  n \in listed /\ listed' = listed \ {n}
  <1> USE DEF IInv
  <1>1. PICK inum \in Inumbers : tfs_lookup(n, inum)
    BY DEF UnlinkFile
  <1>2. PICK d \in Entries :
          /\ First({e \in Entries : dir[e].d_name = n}, d)
          /\ dir' = [dir EXCEPT ![d] = [d_name |-> NoName, d_inumber |-> -1]]
    BY DEF UnlinkFile
  <1>3. n \in Name /\ inum # -1
    BY <1>1, LookupFinds DEF Inumbers
  <1>4. dir[d].d_inumber = inum /\ dir[d].d_name = n
    BY <1>1, <1>2, ClearsTheEntryFound
  <1>5. /\ dir'[d].d_inumber = -1
        /\ \A e \in Entries : e # d => dir'[e] = dir[e]
    BY <1>2 DEF TypeOK
  <1>6. \A e \in Entries : e # d /\ dir[e].d_inumber # -1 => dir[e].d_name # n
    BY <1>3, <1>4 DEF DirectoryIsExact
  <1>7. n \in listed
    BY <1>3, <1>4 DEF listed, Matches
  <1>8. \A m \in Name : Matches(m)' # {} <=> Matches(m) # {} /\ m # n
    BY <1>3, <1>4, <1>5, <1>6 DEF Matches
  <1> QED
    BY <1>7, <1>8 DEF listed

(* A creation is refused only when the tables are full: no call loses an   *)
(* inode or a directory entry, or tfs_open would refuse earlier.           *)
LEMMA RefusalIsFull ==
    ASSUME IInv, Cardinality(listed) < MAX_FILES,
           NEW n \in Name, NEW mode, "CREAT" \in mode, tfs_open(n, mode)
    PROVE  n \in listed'
  <1> USE DEF IInv
  <1>1. FreeIn(freeinode_ts) # {} /\ \E d \in Entries : dir[d].d_inumber = -1
    BY RoomIsFree
  <1>2. n # LongName
    BY FSAssumption
  <1>3. CASE OpenExisting(n, mode)
    <2>1. dir' = dir /\ \E inum \in Inumbers : tfs_lookup(n, inum)
      BY <1>3 DEF OpenExisting
    <2>2. n \in listed
      BY <2>1 DEF tfs_lookup, First, listed
    <2> QED
      BY <2>1, <2>2, ListedStays
  <1>4. CASE OpenCreate(n, mode)
    BY <1>4, CreateLists
  <1>5. CASE OpenCreateUndone(n, mode)
    BY <1>1, <1>2, <1>5 DEF OpenCreateUndone
  <1>6. CASE OpenFails(n, mode)
    BY <1>1, <1>6 DEF OpenFails
  <1> QED
    BY <1>3, <1>4, <1>5, <1>6 DEF tfs_open

(* tfs_open creates any file it is asked for, as long as there are fewer   *)
(* than there are inodes and directory entries for, whatever was called    *)
(* before.                                                                 *)
THEOREM CreationIsNotRefused == Spec => CreatesWhileRoom
  <1>1. IInv /\ [Next]_vars =>
          [ret' = -1 /\ Cardinality(listed) < MAX_FILES =>
             \A n \in Name \ listed', mode \in Modes :
               "CREAT" \in mode => ~tfs_open(n, mode)]_vars
    BY RefusalIsFull
  <1> QED
    BY <1>1, Invariance, PTL DEF Spec, CreatesWhileRoom

-----------------------------------------------------------------------------
(* The tables implement Catalogue                                          *)

LEMMA OpenHandlesFinite ==
    /\ IsFiniteSet(OpenHandles) /\ Cardinality(OpenHandles) \in Nat
    /\ Cardinality(OpenHandles) <= MAX_OPEN_FILES
    /\ Cardinality(OpenHandles) = MAX_OPEN_FILES => OpenHandles = Handles
  <1>1. OpenHandles \in SUBSET Handles
    BY DEF OpenHandles
  <1> QED
    BY <1>1, TablesFinite, FS_Subset, FS_CardinalityType

(* A handle is taken if one is free.                                       *)
LEMMA HandleTaken ==
    ASSUME TypeOK, NEW inum, NEW offset, add_to_open_file_table(inum, offset)
    PROVE  Cardinality(OpenHandles') =
             IF Cardinality(OpenHandles) < MAX_OPEN_FILES THEN Cardinality(OpenHandles) + 1
                                                          ELSE Cardinality(OpenHandles)
  <1>1. /\ OpenHandles = Handles \ FreeIn(free_open_file_entries)
        /\ FreeIn(free_open_file_entries) \subseteq Handles
    BY DEF TypeOK, OpenHandles, IsOpen, FreeIn
  <1>2. ASSUME NEW h \in Handles, First(FreeIn(free_open_file_entries), h),
               free_open_file_entries' = [free_open_file_entries EXCEPT ![h] = "TAKEN"]
        PROVE  /\ Cardinality(OpenHandles) < MAX_OPEN_FILES
               /\ Cardinality(OpenHandles') = Cardinality(OpenHandles) + 1
    <2>1. h \notin OpenHandles
      BY <1>1, <1>2 DEF First
    <2>2. OpenHandles' = OpenHandles \cup {h}
      BY <1>2 DEF TypeOK, OpenHandles, IsOpen
    <2>3. Cardinality(OpenHandles') = Cardinality(OpenHandles) + 1
      BY <2>1, <2>2, OpenHandlesFinite, FS_AddElement
    <2>4. Cardinality(OpenHandles) # MAX_OPEN_FILES
      BY <2>1, OpenHandlesFinite
    <2> QED
      BY <2>3, <2>4, OpenHandlesFinite, TablesFinite
  <1>3. ASSUME FreeIn(free_open_file_entries) = {}, UNCHANGED opens
        PROVE  /\ ~(Cardinality(OpenHandles) < MAX_OPEN_FILES)
               /\ Cardinality(OpenHandles') = Cardinality(OpenHandles)
    <2>1. OpenHandles = Handles /\ OpenHandles' = OpenHandles
      BY <1>1, <1>3 DEF opens, OpenHandles, IsOpen
    <2> QED
      BY <2>1, TablesFinite
  <1> QED
    BY <1>2, <1>3 DEF add_to_open_file_table

LEMMA HandlesCounted ==
    ASSUME UNCHANGED free_open_file_entries
    PROVE  OpenHandles' = OpenHandles
  BY DEF OpenHandles, IsOpen

(* The abstract module counts as this one does.                           *)
LEMMA SameCardinality ==
    ASSUME NEW S
    PROVE  Catalogued!Cardinality(S) = Cardinality(S)
  BY DEF Cardinality, Catalogued!Cardinality

LEMMA CatalogueOpen ==
    ASSUME TypeOK, NEW n \in Name, NEW inum, NEW offset, add_to_open_file_table(inum, offset),
           n \in listed \/ Cardinality(listed) < MAX_FILES,
           listed' = listed \cup {n}
    PROVE  Catalogued!Next
  <1>1. Catalogued!Open(n)
    BY HandleTaken, SameCardinality DEF Catalogued!Open, OpenHandles
  <1> QED
    BY <1>1 DEF Catalogued!Next

LEMMA CatalogueStep ==
    ASSUME IInv, Next
    PROVE  Catalogued!Next \/ UNCHANGED Catalogued!vars
  <1> USE DEF IInv
  <1>0. UNCHANGED <<dir, free_open_file_entries>> => UNCHANGED Catalogued!vars
    BY ListedStays, HandlesCounted DEF Catalogued!vars, OpenHandles
  <1>1. ASSUME NEW n \in Name \cup {LongName}, NEW mode, OpenExisting(n, mode)
        PROVE  Catalogued!Next
    <2>1. PICK inum \in Inumbers :
            /\ dir' = dir /\ tfs_lookup(n, inum)
            /\ \E offset : add_to_open_file_table(inum, offset)
      BY <1>1 DEF OpenExisting
    <2>2. n \in listed
      BY <2>1, LookupFinds DEF tfs_lookup, First, listed
    <2>3. n \in Name /\ listed' = listed \cup {n}
      BY <2>1, <2>2, ListedStays DEF listed
    <2> QED
      BY <2>1, <2>2, <2>3, CatalogueOpen
  <1>2. ASSUME NEW n \in Name \cup {LongName}, NEW mode, OpenCreate(n, mode)
        PROVE  Catalogued!Next
    <2>1. /\ FreeIn(freeinode_ts) # {}
          /\ \E d \in Entries : dir[d].d_inumber = -1
          /\ \E inum \in Inumbers : add_to_open_file_table(inum, 0)
      BY <1>2 DEF OpenCreate, First
    <2>2. Cardinality(listed) < MAX_FILES
      BY <2>1, RoomIsFree
    <2>3. n \in Name /\ listed' = listed \cup {n}
      BY <1>2, CreateLists
    <2> QED
      BY <2>1, <2>2, <2>3, CatalogueOpen
  <1>3. ASSUME NEW n \in Name \cup {LongName}, UnlinkFile(n)
        PROVE  Catalogued!Next
    <2>1. n \in Name /\ n \in listed /\ listed' = listed \ {n}
      BY <1>3, UnlinkUnlists DEF listed
    <2>2. OpenHandles' = OpenHandles
      BY <1>3, HandlesCounted DEF UnlinkFile, opens
    <2>3. Catalogued!Unlink(n)
      BY <2>1, <2>2 DEF Catalogued!Unlink, OpenHandles
    <2> QED
      BY <2>1, <2>3 DEF Catalogued!Next
  <1>4. ASSUME NEW h \in Handles, tfs_close(h)
        PROVE  Catalogued!Next
    <2>1. h \in OpenHandles /\ OpenHandles' = OpenHandles \ {h}
      BY <1>4 DEF tfs_close, TypeOK, OpenHandles, IsOpen
    <2>2. Cardinality(OpenHandles') = Cardinality(OpenHandles) - 1
      BY <2>1, OpenHandlesFinite, FS_RemoveElement
    <2>3. Cardinality(OpenHandles) # 0
      BY <2>1, OpenHandlesFinite, FS_EmptySet
    <2>4. Cardinality(OpenHandles) > 0
      BY <2>3, OpenHandlesFinite
    <2>5. listed' = listed
      BY <1>4, ListedStays DEF tfs_close
    <2>6. Catalogued!Close
      BY <2>2, <2>4, <2>5 DEF Catalogued!Close, OpenHandles
    <2> QED
      BY <2>6 DEF Catalogued!Next
  <1>5. \/ UNCHANGED <<dir, free_open_file_entries>>
        \/ \E n \in Name \cup {LongName}, mode \in Modes : OpenExisting(n, mode) \/ OpenCreate(n, mode)
        \/ \E n \in Name \cup {LongName} : UnlinkFile(n)
        \/ \E h \in Handles : tfs_close(h)
    BY DEF Next, tfs_open, OpenCreateUndone, OpenFails, tfs_unlink, UnlinkFails, BadHandle,
           Fails, tfs_write, WriteNothing, WriteNoSpace, WriteBytes, WriteWild, tfs_read,
           ReadNothing, ReadBytes, ReadWild, opens
  <1> QED
    BY <1>0, <1>1, <1>2, <1>3, <1>4, <1>5

(* For any sizes of the tables, names and handles are what the calls made  *)
(* them: Catalogue.                                                        *)
THEOREM CatalogueRefinement == Spec => IsCatalogue
  <1>1. Init => Catalogued!Init
    <2> SUFFICES ASSUME Init PROVE Catalogued!Init
      OBVIOUS
    <2>1. listed = {}
      BY DEF Init, listed, Matches
    <2>2. OpenHandles = {}
      BY DEF Init, OpenHandles, IsOpen
    <2> QED
      BY <2>1, <2>2, FS_EmptySet DEF Catalogued!Init, OpenHandles
  <1>2. IInv /\ [Next]_vars => [Catalogued!Next]_(Catalogued!vars)
    <2> SUFFICES ASSUME IInv, [Next]_vars
                 PROVE  Catalogued!Next \/ UNCHANGED Catalogued!vars
      OBVIOUS
    <2>1. CASE UNCHANGED vars
      BY <2>1, ListedStays, HandlesCounted DEF vars, opens, Catalogued!vars, OpenHandles
    <2> QED
      BY <2>1, CatalogueStep
  <1> QED
    BY <1>1, <1>2, Invariance, PTL DEF Spec, IsCatalogue, Catalogued!Spec
=============================================================================
