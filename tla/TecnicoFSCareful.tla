-------------------------- MODULE TecnicoFSCareful --------------------------
(***************************************************************************)
(* Proofs about TecnicoFS: what a call that fails leaves behind, and what  *)
(* callers who never unlink or truncate an open file are promised.         *)
(***************************************************************************)
EXTENDS TecnicoFSProofs

-----------------------------------------------------------------------------
(* A call that fails.                                                      *)

LEMMA NoNegatives ==
    /\ \A h \in Handles : h # -1
    /\ 0 # -1
    /\ \A k \in Int : k > 0 => k # -1
  BY DEF Handles

LEMMA HandleNotFound ==
    ASSUME NEW inum, NEW offset, add_to_open_file_table(inum, offset), ret' = -1
    PROVE  FreeIn(free_open_file_entries) = {} /\ UNCHANGED opens
  <1>1. \A h \in Handles : ~Returns(h)
    BY NoNegatives DEF Returns
  <1> QED
    BY <1>1 DEF add_to_open_file_table

(* tfs_open of a file that exists, and of one that does not.               *)
LEMMA OpenExistingFails ==
    ASSUME TypeOK, NEW n \in Name \cup {LongName}, NEW mode \in Modes, Running,
           OpenExisting(n, mode), ret' = -1
    PROVE  AsBefore \/ LeftEmpty(n)
  <1>1. FreeIn(free_open_file_entries) = {} /\ UNCHANGED opens
    BY HandleNotFound DEF OpenExisting
  <1>2. PICK inum \in Inumbers :
          /\ tfs_lookup(n, inum)
          /\ IF "TRUNC" \in mode /\ inode_table[inum].i_size > 0
             THEN Truncate(inum)
             ELSE UNCHANGED <<free_blocks, inode_table, status>>
    BY DEF OpenExisting
  <1>3. UNCHANGED <<freeinode_ts, fs_data, dir>>
    BY DEF OpenExisting
  <1>4. CASE UNCHANGED <<free_blocks, inode_table, status>>
    BY <1>1, <1>3, <1>4 DEF AsBefore, blocks
  <1>5. CASE Truncate(inum)
    <2>1. inode_table' = [inode_table EXCEPT ![inum].i_size = 0]
      BY <1>5 DEF Truncate
    <2>2. inode_table'[inum].i_size = 0
      BY <2>1 DEF TypeOK, Inode
    <2>3. \A i \in Inumbers \ {inum} : inode_table'[i] = inode_table[i]
      BY <2>1 DEF TypeOK
    <2>4. tfs_lookup(n, inum)' /\ \A i \in Inumbers : Live(i) => Live(i)'
      BY <1>2, <1>3 DEF tfs_lookup, Matches, First, Live
    <2>5. \E md \in Modes : tfs_open(n, md)
      BY DEF tfs_open
    <2> QED
      BY <1>1, <1>3, <2>2, <2>3, <2>4, <2>5 DEF LeftEmpty
  <1> QED
    BY <1>2, <1>4, <1>5

LEMMA OpenCreateFails ==
    ASSUME TypeOK, NEW n \in Name \cup {LongName}, NEW mode \in Modes, Running,
           OpenCreate(n, mode), ret' = -1
    PROVE  LeftEmpty(n)
  <1>1. FreeIn(free_open_file_entries) = {} /\ UNCHANGED opens
    BY HandleNotFound DEF OpenCreate
  <1>2. PICK inum \in Inumbers, d \in Entries :
          /\ dir[d].d_inumber = -1
          /\ freeinode_ts' = [freeinode_ts EXCEPT ![inum] = "TAKEN"]
          /\ inode_table' = [inode_table EXCEPT ![inum] = EmptyInode]
          /\ dir' = [dir EXCEPT ![d] = [d_name |-> n, d_inumber |-> inum]]
    BY DEF OpenCreate, First
  <1>3. Matches(n) = {} /\ UNCHANGED fs_data
    BY DEF OpenCreate, blocks
  <1>4. \A e \in Entries \ {d} : dir'[e] = dir[e]
    BY <1>2 DEF TypeOK
  <1>5. tfs_lookup(n, inum)'
    <2>1. dir'[d].d_name = n /\ dir'[d].d_inumber = inum /\ inum # -1
      BY <1>2 DEF TypeOK, Inumbers
    <2>2. \A e \in Entries : e \in Matches(n)' <=> e = d
      BY <1>3, <1>4, <2>1 DEF Matches
    <2>3. d <= d
      BY DEF Entries
    <2>4. Matches(n)' \subseteq Entries
      BY DEF Matches
    <2> QED
      BY <2>1, <2>2, <2>3, <2>4 DEF tfs_lookup, First
  <1>6. inode_table'[inum].i_size = 0
    BY <1>2 DEF TypeOK, EmptyInode
  <1>7. \A i \in Inumbers \ {inum} : Live(i) => Live(i)' /\ inode_table'[i] = inode_table[i]
    BY <1>2 DEF TypeOK, Live
  <1>8. \E md \in Modes : tfs_open(n, md)
    BY DEF tfs_open
  <1> QED
    BY <1>1, <1>2, <1>3, <1>4, <1>5, <1>6, <1>7, <1>8 DEF LeftEmpty

LEMMA FailureStep ==
    ASSUME TypeOK, [Next]_vars, ret' = -1
    PROVE  AsBefore \/ \E n \in Name \cup {LongName} : LeftEmpty(n)
  <1>1. ASSUME Fails PROVE AsBefore
    BY <1>1 DEF Fails, inodes, AsBefore
  <1>2. ASSUME NEW n \in Name \cup {LongName}, NEW mode \in Modes, tfs_open(n, mode)
        PROVE  AsBefore \/ LeftEmpty(n)
    <2>1. CASE OpenExisting(n, mode) \/ OpenCreate(n, mode)
      BY <1>2, <2>1, OpenExistingFails, OpenCreateFails DEF tfs_open
    <2>2. CASE OpenCreateUndone(n, mode)
      BY <2>2 DEF OpenCreateUndone, AsBefore, TypeOK, Live, First, FreeIn
    <2>3. CASE OpenFails(n, mode)
      BY <1>1, <2>3 DEF OpenFails
    <2> QED
      BY <1>2, <2>1, <2>2, <2>3 DEF tfs_open
  <1>3. ASSUME NEW n, tfs_unlink(n) PROVE AsBefore
    <2>1. ~UnlinkFile(n)
      BY NoNegatives DEF UnlinkFile, Returns
    <2> QED
      BY <1>1, <1>3, <2>1 DEF tfs_unlink, UnlinkFails
  <1>4. ASSUME NEW h \in Handles, BadHandle(h) \/ tfs_close(h) PROVE AsBefore
    <2>1. ~tfs_close(h)
      BY NoNegatives DEF tfs_close, Returns
    <2> QED
      BY <1>1, <1>4, <2>1 DEF BadHandle
  <1>5. ASSUME NEW h \in Handles, NEW data \in Buffers, tfs_write(h, data) PROVE AsBefore
    <2>1. WriteLen(h, Len(data)) \in Int
      BY WriteLenType, BuffersType
    <2>2. ~WriteNothing(h, data) /\ ~WriteBytes(h, data)
      BY <2>1, NoNegatives DEF WriteNothing, WriteBytes, Returns
    <2>3. CASE WriteNoSpace(h, data)
      BY <1>1, <2>3 DEF WriteNoSpace
    <2>4. CASE WriteWild(h, data)
      BY <2>4 DEF WriteWild, inodes, AsBefore
    <2> QED
      BY <1>5, <2>2, <2>3, <2>4 DEF tfs_write
  <1>6. ASSUME NEW h \in Handles, NEW len \in 0 .. MaxRequest, tfs_read(h, len) PROVE AsBefore
    <2>1. ReadLen(h, len) \in Int
      <3>1. len \in Nat
        BY FSAssumption
      <3> QED
        BY <3>1, ReadLenType
    <2>2. ~ReadNothing(h, len) /\ ~ReadBytes(h, len)
      BY <2>1, NoNegatives DEF ReadNothing, ReadBytes, Returns
    <2>3. CASE ReadWild(h, len)
      BY <2>3 DEF ReadWild, inodes, AsBefore
    <2> QED
      BY <1>6, <2>2, <2>3 DEF tfs_read
  <1>7. ASSUME UNCHANGED vars PROVE AsBefore
    BY <1>7 DEF vars, inodes, AsBefore
  <1> QED
    BY <1>2, <1>3, <1>4, <1>5, <1>6, <1>7 DEF Next

(* A call that fails has undone whatever it had allocated: handles,        *)
(* directory, blocks and the inodes of all files are as they were.  The    *)
(* one exception is tfs_open when no handle is free: the file that it has  *)
(* created or truncated is then there, and empty, and no other is changed. *)
THEOREM FailureIsClean == Spec => FailsCleanly
  <1>1. TypeOK /\ [Next]_vars
        => [ret' = -1 => AsBefore \/ \E n \in Name \cup {LongName} : LeftEmpty(n)]_vars
    BY FailureStep
  <1> QED
    BY <1>1, TypeCorrect, PTL DEF Spec, FailsCleanly

-----------------------------------------------------------------------------
(* Careful callers.                                                        *)

(* An open handle leads to a file that exists, at or before its end, and   *)
(* never to the root directory.                                            *)
HandlesAreFresh ==
    \A h \in Handles : IsOpen(h) =>
        /\ Live(open_file_table[h].of_inumber)
        /\ open_file_table[h].of_inumber # ROOT_DIR_INUM
        /\ OffsetOf(h) <= InodeOf(h).i_size

NoneLost ==
    \A b \in Blocks : free_blocks[b] = "TAKEN" =>
        \E i \in Inumbers : Owned(i) /\ BlockOf(i) = b

CInv == status = "running" /\ HandlesAreFresh /\ NoneLost

LEMMA InitCInv == Init => CInv
  <1> SUFFICES ASSUME Init PROVE CInv
    OBVIOUS
  <1>1. HandlesAreFresh
    BY DEF Init, HandlesAreFresh, IsOpen
  <1>2. NoneLost
    <2>1. 0 \in Inumbers /\ BLOCK_SIZE > 0
      BY FSAssumption DEF Inumbers
    <2>2. Owned(0) /\ BlockOf(0) = 0
      BY <2>1 DEF Init, Owned, Live, HasBlock, BlockOf, ROOT_DIR_INUM
    <2>3. \A b \in Blocks : free_blocks[b] = "TAKEN" => b = 0
      BY DEF Init
    <2> QED
      BY <2>1, <2>2, <2>3 DEF NoneLost
  <1> QED
    BY <1>1, <1>2 DEF Init, CInv

(* The file that a careful caller discards is open nowhere.                *)
LEMMA DiscardsNothingOpen ==
    ASSUME Careful, NEW n, NEW inum, MayDiscard(n), tfs_lookup(n, inum)
    PROVE  \A h \in Handles : IsOpen(h) => open_file_table[h].of_inumber # inum
  BY DEF MayDiscard, InUse

(* A new handle on a file that exists, at or before its end; the other     *)
(* handles' files have not shrunk.                                         *)
LEMMA OpenStep ==
    ASSUME TypeOK, HandlesAreFresh, NEW inum \in Inumbers, NEW offset \in Nat,
           add_to_open_file_table(inum, offset),
           Live(inum)', inum # ROOT_DIR_INUM, offset <= inode_table'[inum].i_size,
           \A h \in Handles : IsOpen(h) =>
             /\ freeinode_ts'[open_file_table[h].of_inumber] = "TAKEN"
             /\ inode_table'[open_file_table[h].of_inumber].i_size = InodeOf(h).i_size
    PROVE  HandlesAreFresh'
  <1>1. CASE UNCHANGED opens
    BY <1>1 DEF opens, HandlesAreFresh, IsOpen, OffsetOf, InodeOf, Live
  <1>2. ASSUME NEW h \in Handles,
               free_open_file_entries' = [free_open_file_entries EXCEPT ![h] = "TAKEN"],
               open_file_table' =
                 [open_file_table EXCEPT ![h] = [of_inumber |-> inum, of_offset |-> offset]]
        PROVE  HandlesAreFresh'
    <2>1. /\ open_file_table'[h].of_inumber = inum
          /\ open_file_table'[h].of_offset = offset
          /\ \A g \in Handles : g # h =>
               /\ open_file_table'[g] = open_file_table[g]
               /\ free_open_file_entries'[g] = free_open_file_entries[g]
      BY <1>2 DEF TypeOK
    <2> QED
      BY <2>1 DEF HandlesAreFresh, IsOpen, OffsetOf, InodeOf, Live
  <1> QED
    BY <1>1, <1>2 DEF add_to_open_file_table

(* An open file's handle moves to at or before its end, and its file, like *)
(* the others, does not shrink.                                            *)
LEMMA MoveStep ==
    ASSUME TypeOK, HandlesAreFresh, NEW h \in Handles, IsOpen(h), NEW k \in Nat,
           Advance(h, k), UNCHANGED <<free_open_file_entries, freeinode_ts>>,
           OffsetOf(h) + k <= inode_table'[open_file_table[h].of_inumber].i_size,
           inode_table' \in [Inumbers -> Inode],
           \A i \in Inumbers : inode_table[i].i_size <= inode_table'[i].i_size
    PROVE  HandlesAreFresh'
  <1>1. \A g \in Handles : /\ open_file_table[g].of_inumber \in Inumbers
                           /\ OffsetOf(g) \in Nat
                           /\ OffsetOf(g)' = open_file_table'[g].of_offset
    BY SizesFit DEF TypeOK, OpenFile, OffsetOf
  <1>2. /\ open_file_table'[h].of_inumber = open_file_table[h].of_inumber
        /\ open_file_table'[h].of_offset = OffsetOf(h) + k
        /\ \A g \in Handles : g # h => open_file_table'[g] = open_file_table[g]
    BY DEF Advance, OffsetOf, TypeOK, OpenFile
  <1>3. \A i \in Inumbers : /\ inode_table[i].i_size \in Nat
                            /\ inode_table'[i].i_size \in Nat
    BY SizesFit DEF TypeOK, Inode
  <1> SUFFICES ASSUME NEW g \in Handles, free_open_file_entries[g] = "TAKEN"
               PROVE  /\ freeinode_ts[open_file_table'[g].of_inumber] = "TAKEN"
                      /\ open_file_table'[g].of_inumber # ROOT_DIR_INUM
                      /\ open_file_table'[g].of_offset
                           <= inode_table'[open_file_table'[g].of_inumber].i_size
    BY DEF HandlesAreFresh, IsOpen, OffsetOf, InodeOf, Live
  <1>4. /\ freeinode_ts[open_file_table[g].of_inumber] = "TAKEN"
        /\ open_file_table[g].of_inumber # ROOT_DIR_INUM
        /\ open_file_table[g].of_offset <= inode_table[open_file_table[g].of_inumber].i_size
    BY DEF HandlesAreFresh, IsOpen, OffsetOf, InodeOf, Live
  <1>5. CASE g = h
    BY <1>2, <1>4, <1>5
  <1>6. CASE g # h
    BY <1>1, <1>2, <1>3, <1>4, <1>6 DEF OffsetOf
  <1> QED
    BY <1>5, <1>6

-----------------------------------------------------------------------------
(* Reads and writes through such a handle stay inside the file's block.    *)

LEMMA FreshOffset ==
    ASSUME TypeOK, HandlesAreFresh, NEW h \in Handles, IsOpen(h)
    PROVE  /\ OffsetOf(h) \in 0 .. InodeOf(h).i_size
           /\ InodeOf(h).i_size \in 0 .. BLOCK_SIZE
           /\ open_file_table[h].of_inumber \in Inumbers
           /\ Live(open_file_table[h].of_inumber)
           /\ open_file_table[h].of_inumber # ROOT_DIR_INUM
  BY SizesFit DEF TypeOK, Inode, OpenFile, HandlesAreFresh, OffsetOf, InodeOf

LEMMA BufferFits ==
    ASSUME NEW data \in Buffers
    PROVE  Len(data) \in 0 .. MaxRequest
  <1>1. PICK k \in 0 .. MaxRequest : data \in [1 .. k -> Byte]
    BY FSAssumption
  <1>2. k \in Nat /\ data \in Seq(Byte) /\ Len(data) = k
    BY <1>1, FSAssumption
  <1> QED
    BY <1>1, <1>2

LEMMA WriteFits ==
    ASSUME TypeOK, HandlesAreFresh, NEW h \in Handles, IsOpen(h), NEW data \in Buffers
    PROVE  OffsetOf(h) + WriteLen(h, Len(data)) <= BLOCK_SIZE
  <1> DEFINE off == OffsetOf(h)
             len == Len(data)
  <1>1. off \in 0 .. BLOCK_SIZE /\ len \in 0 .. MaxRequest /\ MaxRequest \in Nat
    BY FreshOffset, BufferFits, SizesFit, FSAssumption
  <1>2. /\ SizeMod \in Nat \ {0} /\ BLOCK_SIZE \in Nat
        /\ len + off \in 0 .. SizeMod - 1 /\ BLOCK_SIZE - off \in 0 .. SizeMod - 1
    BY <1>1, SizesFit, FSAssumption
  <1>3. WriteLen(h, len) = IF len + off > BLOCK_SIZE THEN BLOCK_SIZE - off ELSE len
    BY <1>2, ModSmall DEF WriteLen
  <1> QED
    BY <1>1, <1>2, <1>3

LEMMA ReadFits ==
    ASSUME TypeOK, HandlesAreFresh, NEW h \in Handles, IsOpen(h), NEW len \in Nat
    PROVE  OffsetOf(h) + ReadLen(h, len) <= InodeOf(h).i_size
  <1> DEFINE left == InodeOf(h).i_size - OffsetOf(h)
  <1>1. /\ OffsetOf(h) \in Nat /\ InodeOf(h).i_size \in Nat
        /\ SizeMod \in Nat \ {0} /\ left \in 0 .. SizeMod - 1
    BY FreshOffset, SizesFit
  <1>2. ReadLen(h, len) = IF left > len THEN len ELSE left
    BY <1>1, ModSmall DEF ReadLen
  <1> QED
    BY <1>1, <1>2

LEMMA BlockInMemory ==
    ASSUME NEW b \in Blocks, NEW off \in Nat, NEW k \in Nat, off + k <= BLOCK_SIZE
    PROVE  InMemory(b, off, k)
  <1>1. /\ DATA_BLOCKS \in Nat /\ BLOCK_SIZE \in Nat
        /\ b \in Nat /\ b + 1 <= DATA_BLOCKS
    BY FSAssumption DEF Blocks
  <1>2. (b + 1) * BLOCK_SIZE <= DATA_BLOCKS * BLOCK_SIZE
    BY <1>1
  <1>3. (b + 1) * BLOCK_SIZE = b * BLOCK_SIZE + BLOCK_SIZE
    BY <1>1
  <1>4. b * BLOCK_SIZE \in Nat /\ DATA_BLOCKS * BLOCK_SIZE \in Nat
    BY <1>1
  <1> QED
    BY <1>1, <1>2, <1>3, <1>4 DEF InMemory, PlaceOf, MemorySize

LEMMA NothingWild ==
    ASSUME IInv, HandlesAreFresh, NEW h \in Handles, IsOpen(h)
    PROVE  /\ \A data \in Buffers : ~WriteWild(h, data)
           /\ \A len \in 0 .. MaxRequest : ~ReadWild(h, len)
  <1> USE DEF IInv
  <1>1. ASSUME NEW data \in Buffers PROVE ~WriteWild(h, data)
    <2>1. /\ OffsetOf(h) + WriteLen(h, Len(data)) <= BLOCK_SIZE
          /\ OffsetOf(h) \in Nat /\ WriteLen(h, Len(data)) \in Nat /\ BLOCK_SIZE \in Nat
      BY WriteFits, FreshOffset, BuffersType, WriteLenType, SizesFit
    <2> QED
      BY <2>1 DEF WriteWild
  <1>2. ASSUME NEW len \in 0 .. MaxRequest PROVE ~ReadWild(h, len)
    <2> DEFINE k == ReadLen(h, len)
               b == InodeOf(h).i_data_block
    <2>1. len \in Nat
      BY FSAssumption
    <2>2. /\ k \in Nat /\ OffsetOf(h) \in Nat
          /\ InodeOf(h).i_size \in Nat /\ BLOCK_SIZE \in Nat
          /\ OffsetOf(h) + k <= InodeOf(h).i_size
          /\ InodeOf(h).i_size <= BLOCK_SIZE
      BY <2>1, ReadLenType, FreshOffset, ReadFits, SizesFit
    <2>3. CASE k > 0
      <3>1. HasBlock(open_file_table[h].of_inumber)
        BY <2>2, <2>3 DEF HasBlock, InodeOf
      <3>2. b \in Blocks
        BY <3>1, FreshOffset DEF BlocksAreOwned, InodeOf
      <3>3. InMemory(b, OffsetOf(h), k)
        BY <2>2, <3>2, BlockInMemory
      <3> QED
        BY <3>2, <3>3 DEF ReadWild
    <2> QED
      BY <2>3 DEF ReadWild
  <1> QED
    BY <1>1, <1>2

-----------------------------------------------------------------------------
(* A step that concerns one inode: the other inodes keep their blocks, and *)
(* a block that is taken afterwards belongs to it or was another's.        *)
LEMMA BlocksKept ==
    ASSUME NoneLost, NEW inum \in Inumbers,
           \A j \in Inumbers \ {inum} :
             Owned(j) => Owned(j)' /\ inode_table'[j].i_data_block = BlockOf(j),
           \A b \in Blocks : free_blocks'[b] = "TAKEN" =>
             \/ Owned(inum)' /\ inode_table'[inum].i_data_block = b
             \/ free_blocks[b] = "TAKEN" /\ ~(Owned(inum) /\ BlockOf(inum) = b)
    PROVE  NoneLost'
  BY DEF NoneLost, BlockOf

LEMMA CarefulOpenExisting ==
    ASSUME Careful, IInv, CInv, NEW n, NEW mode, "TRUNC" \in mode => MayDiscard(n),
           OpenExisting(n, mode)
    PROVE  CInv'
  <1> USE DEF IInv, CInv
  <1>1. PICK inum \in Inumbers :
          /\ tfs_lookup(n, inum)
          /\ IF "TRUNC" \in mode /\ inode_table[inum].i_size > 0
             THEN Truncate(inum)
             ELSE UNCHANGED <<free_blocks, inode_table, status>>
          /\ add_to_open_file_table(inum, IF "APPEND" \in mode THEN inode_table'[inum].i_size ELSE 0)
          /\ UNCHANGED freeinode_ts
    BY DEF OpenExisting
  <1>2. Live(inum) /\ inum # ROOT_DIR_INUM /\ inode_table[inum].i_size \in Nat
    BY <1>1, LookupFinds, SizesFit DEF TypeOK, Inode
  <1> DEFINE offset == IF "APPEND" \in mode THEN inode_table'[inum].i_size ELSE 0
  <1>3. CASE UNCHANGED <<free_blocks, inode_table, status>>
    <2>1. offset \in Nat /\ offset <= inode_table'[inum].i_size
      BY <1>2, <1>3
    <2>2. \A h \in Handles : IsOpen(h) =>
            /\ freeinode_ts'[open_file_table[h].of_inumber] = "TAKEN"
            /\ inode_table'[open_file_table[h].of_inumber].i_size = InodeOf(h).i_size
      BY <1>1, <1>3 DEF HandlesAreFresh, InodeOf, Live
    <2>3. Live(inum)'
      BY <1>1, <1>2 DEF Live
    <2>4. HandlesAreFresh'
      BY <1>1, <1>2, <2>1, <2>2, <2>3, OpenStep
    <2>5. NoneLost'
      BY <1>1, <1>3 DEF NoneLost, Owned, BlockOf, Live, HasBlock
    <2> QED
      BY <1>3, <2>4, <2>5
  <1>4. CASE "TRUNC" \in mode /\ inode_table[inum].i_size > 0 /\ Truncate(inum)
    <2>1. /\ inode_table' = [inode_table EXCEPT ![inum].i_size = 0]
          /\ free_blocks' = [free_blocks EXCEPT ![BlockOf(inum)] = "FREE"]
          /\ status' = IF BlockOf(inum) \in Blocks THEN status ELSE "panic"
      BY <1>4 DEF Truncate, data_block_free, BlockOf, AlwaysAssert
    <2>2. Owned(inum) /\ BlockOf(inum) \in Blocks
      BY <1>2, <1>4 DEF BlocksAreOwned, Owned, HasBlock, BlockOf
    <2>3. /\ inode_table'[inum].i_size = 0
          /\ \A j \in Inumbers \ {inum} : inode_table'[j] = inode_table[j]
      BY <2>1 DEF TypeOK, Inode
    <2>4. \A h \in Handles : IsOpen(h) =>
            /\ freeinode_ts'[open_file_table[h].of_inumber] = "TAKEN"
            /\ inode_table'[open_file_table[h].of_inumber].i_size = InodeOf(h).i_size
      <3>1. \A h \in Handles : IsOpen(h) => open_file_table[h].of_inumber # inum
        BY <1>1, <1>4, DiscardsNothingOpen
      <3> QED
        BY <1>1, <2>3, <3>1, FreshOffset DEF InodeOf, Live
    <2>5. Live(inum)'
      BY <1>1, <1>2 DEF Live
    <2>6. offset \in Nat /\ offset <= inode_table'[inum].i_size
      BY <2>3
    <2>7. HandlesAreFresh'
      BY <1>1, <1>2, <2>4, <2>5, <2>6, OpenStep
    <2>8. NoneLost'
      <3>1. \A j \in Inumbers \ {inum} :
              Owned(j) => Owned(j)' /\ inode_table'[j].i_data_block = BlockOf(j)
        BY <1>1, <2>3 DEF Owned, Live, HasBlock, BlockOf
      <3>2. \A b \in Blocks : free_blocks'[b] = "TAKEN" =>
              free_blocks[b] = "TAKEN" /\ BlockOf(inum) # b
        BY <2>1, <2>2 DEF TypeOK
      <3> QED
        BY <3>1, <3>2, BlocksKept
    <2> QED
      BY <2>1, <2>2, <2>7, <2>8
  <1> QED
    BY <1>1, <1>3, <1>4

LEMMA CarefulOpenNew ==
    ASSUME IInv, CInv, NEW n, NEW mode, OpenCreate(n, mode) \/ OpenCreateUndone(n, mode)
    PROVE  CInv'
  <1> USE DEF IInv, CInv
  <1>1. PICK inum \in Inumbers :
          /\ First(FreeIn(freeinode_ts), inum)
          /\ inode_table' = [inode_table EXCEPT ![inum] = EmptyInode]
          /\ \/ /\ freeinode_ts' = [freeinode_ts EXCEPT ![inum] = "TAKEN"]
                /\ add_to_open_file_table(inum, 0)
             \/ UNCHANGED <<freeinode_ts, opens>>
    BY DEF OpenCreate, OpenCreateUndone
  <1>2. UNCHANGED <<free_blocks, status>>
    BY DEF OpenCreate, OpenCreateUndone, blocks
  <1>3. ~Live(inum) /\ inum # ROOT_DIR_INUM
    BY <1>1 DEF First, FreeIn, Live, DirectoryIsExact
  <1>4. /\ inode_table'[inum].i_size = 0
        /\ \A j \in Inumbers \ {inum} : inode_table'[j] = inode_table[j]
        /\ \A j \in Inumbers : Live(j) => Live(j)'
    BY <1>1 DEF TypeOK, EmptyInode, Live
  <1>5. \A h \in Handles : IsOpen(h) =>
          /\ freeinode_ts'[open_file_table[h].of_inumber] = "TAKEN"
          /\ inode_table'[open_file_table[h].of_inumber].i_size = InodeOf(h).i_size
    <2>1. \A h \in Handles : IsOpen(h) =>
            Live(open_file_table[h].of_inumber) /\ open_file_table[h].of_inumber \in Inumbers
      BY FreshOffset
    <2> QED
      BY <1>3, <1>4, <2>1 DEF InodeOf, Live
  <1>6. HandlesAreFresh'
    <2>1. CASE /\ freeinode_ts' = [freeinode_ts EXCEPT ![inum] = "TAKEN"]
               /\ add_to_open_file_table(inum, 0)
      <3>1. Live(inum)'
        BY <2>1 DEF Live, TypeOK
      <3> QED
        BY <1>3, <1>4, <1>5, <2>1, <3>1, OpenStep
    <2>2. CASE UNCHANGED <<freeinode_ts, opens>>
      BY <1>5, <2>2 DEF HandlesAreFresh, IsOpen, OffsetOf, InodeOf, Live, opens
    <2> QED
      BY <1>1, <2>1, <2>2
  <1>7. NoneLost'
    <2>1. \A j \in Inumbers \ {inum} :
            Owned(j) => Owned(j)' /\ inode_table'[j].i_data_block = BlockOf(j)
      BY <1>4 DEF Owned, HasBlock, BlockOf
    <2> QED
      BY <1>2, <1>3, <2>1, BlocksKept DEF Owned
  <1> QED
    BY <1>2, <1>6, <1>7

LEMMA CarefulUnlink ==
    ASSUME Careful, IInv, CInv, NEW n, MayDiscard(n), UnlinkFile(n)
    PROVE  CInv'
  <1> USE DEF IInv, CInv
  <1>1. PICK inum \in Inumbers :
          /\ tfs_lookup(n, inum)
          /\ IF inode_table[inum].i_size > 0
             THEN free_blocks' = [free_blocks EXCEPT ![BlockOf(inum)] = "FREE"]
             ELSE UNCHANGED free_blocks
          /\ AlwaysAssert(/\ freeinode_ts[inum] = "TAKEN"
                          /\ inode_table[inum].i_size > 0 => BlockOf(inum) \in Blocks)
          /\ freeinode_ts' = [freeinode_ts EXCEPT ![inum] = "FREE"]
    BY DEF UnlinkFile, BlockOf
  <1>2. UNCHANGED <<inode_table, open_file_table, free_open_file_entries>>
    BY DEF UnlinkFile, opens
  <1>3. Live(inum)
    BY <1>1, LookupFinds
  <1>4. status' = "running"
    <2>1. inode_table[inum].i_size > 0 => BlockOf(inum) \in Blocks
      BY <1>3 DEF BlocksAreOwned, HasBlock, BlockOf
    <2> QED
      BY <1>1, <1>3, <2>1 DEF AlwaysAssert, Live
  <1>5. \A j \in Inumbers \ {inum} : freeinode_ts'[j] = freeinode_ts[j]
    BY <1>1 DEF TypeOK
  <1>6. HandlesAreFresh'
    <2>1. \A h \in Handles : IsOpen(h) => open_file_table[h].of_inumber \in Inumbers \ {inum}
      BY <1>1, DiscardsNothingOpen DEF TypeOK, OpenFile
    <2> QED
      BY <1>2, <1>5, <2>1 DEF HandlesAreFresh, IsOpen, OffsetOf, InodeOf, Live
  <1>7. NoneLost'
    <2>1. \A j \in Inumbers \ {inum} :
            Owned(j) => Owned(j)' /\ inode_table'[j].i_data_block = BlockOf(j)
      BY <1>2, <1>5 DEF Owned, Live, HasBlock, BlockOf
    <2>2. \A b \in Blocks : free_blocks'[b] = "TAKEN" =>
            free_blocks[b] = "TAKEN" /\ ~(Owned(inum) /\ BlockOf(inum) = b)
      BY <1>1 DEF TypeOK, Owned, HasBlock
    <2> QED
      BY <2>1, <2>2, BlocksKept
  <1> QED
    BY <1>4, <1>6, <1>7

LEMMA CarefulWrite ==
    ASSUME IInv, CInv, NEW h \in Handles, IsOpen(h), NEW data \in Buffers,
           WriteBytes(h, data), TypeOK'
    PROVE  CInv'
  <1> USE DEF IInv, CInv
  <1> DEFINE k    == WriteLen(h, Len(data))
             off  == OffsetOf(h)
  <1>1. PICK inum \in Inumbers : inum = open_file_table[h].of_inumber
    BY DEF TypeOK, OpenFile
  <1>2. PICK b \in Blocks :
          /\ BlockToWrite(h, b)
          /\ inode_table' = [inode_table EXCEPT ![inum] =
               [i_size |-> SizeAfter(@.i_size, off + k), i_data_block |-> b]]
    BY <1>1 DEF WriteBytes
  <1>3. /\ k > 0 /\ Advance(h, k)
        /\ UNCHANGED <<freeinode_ts, free_open_file_entries, status>>
    BY DEF WriteBytes
  <1>4. k \in Nat /\ off \in Nat /\ Live(inum)
    BY <1>1, BuffersType, WriteLenType, FreshOffset
  <1>5. /\ inode_table'[inum].i_data_block = b
        /\ inode_table'[inum].i_size = SizeAfter(inode_table[inum].i_size, off + k)
        /\ \A j \in Inumbers \ {inum} : inode_table'[j] = inode_table[j]
    BY <1>2 DEF TypeOK
  <1> HIDE DEF k, off
  <1>6. \A j \in Inumbers : inode_table[j].i_size \in Nat
    BY SizesFit DEF TypeOK, Inode
  <1>7. /\ off + k <= inode_table'[inum].i_size
        /\ inode_table'[inum].i_size > 0
        /\ \A j \in Inumbers : inode_table[j].i_size <= inode_table'[j].i_size
    BY <1>3, <1>4, <1>5, <1>6 DEF SizeAfter
  <1>8. HandlesAreFresh'
    <2>1. OffsetOf(h) + k <= inode_table'[open_file_table[h].of_inumber].i_size
      BY <1>1, <1>7 DEF off
    <2>2. inode_table' \in [Inumbers -> Inode]
      BY DEF TypeOK
    <2> QED
      BY <1>3, <1>4, <1>7, <2>1, <2>2, MoveStep
  <1>9. NoneLost'
    <2>1. \A j \in Inumbers \ {inum} :
            Owned(j) => Owned(j)' /\ inode_table'[j].i_data_block = BlockOf(j)
      BY <1>3, <1>5 DEF Owned, Live, HasBlock, BlockOf
    <2>2. Owned(inum)'
      BY <1>3, <1>4, <1>7 DEF Owned, Live, HasBlock
    <2>3. \A c \in Blocks : free_blocks'[c] = "TAKEN" => c = b \/ free_blocks[c] = "TAKEN"
      BY <1>2 DEF BlockToWrite, TypeOK
    <2>4. Owned(inum) => BlockOf(inum) = b
      BY <1>1, <1>2 DEF BlockToWrite, InodeOf, BlockOf, Owned, HasBlock
    <2> QED
      BY <1>5, <2>1, <2>2, <2>3, <2>4, BlocksKept
  <1> QED
    BY <1>3, <1>8, <1>9

(* Every other step leaves the inodes and blocks alone, and the handles    *)
(* but for one that is closed or moves on in what it reads.                *)
LEMMA CarefulRest ==
    ASSUME IInv, CInv, UNCHANGED <<inodes, blocks, status>>,
           \/ UNCHANGED opens
           \/ \E h \in Handles : tfs_close(h)
           \/ \E h \in Handles, len \in 0 .. MaxRequest : IsOpen(h) /\ ReadBytes(h, len)
    PROVE  CInv'
  <1> USE DEF IInv, CInv
  <1>1. /\ UNCHANGED <<inode_table, freeinode_ts, free_blocks, status>>
        /\ NoneLost'
    BY DEF inodes, blocks, NoneLost, Owned, BlockOf, Live, HasBlock
  <1>2. CASE UNCHANGED opens
    BY <1>1, <1>2 DEF opens, HandlesAreFresh, IsOpen, OffsetOf, InodeOf, Live
  <1>3. ASSUME NEW h \in Handles, tfs_close(h) PROVE HandlesAreFresh'
    <2>1. /\ free_open_file_entries'[h] = "FREE"
          /\ \A g \in Handles : g # h =>
               /\ open_file_table'[g] = open_file_table[g]
               /\ free_open_file_entries'[g] = free_open_file_entries[g]
      BY <1>3 DEF tfs_close, TypeOK
    <2> QED
      BY <1>1, <2>1 DEF HandlesAreFresh, IsOpen, OffsetOf, InodeOf, Live
  <1>4. ASSUME NEW h \in Handles, NEW len \in 0 .. MaxRequest, IsOpen(h), ReadBytes(h, len)
        PROVE  HandlesAreFresh'
    <2> DEFINE k == ReadLen(h, len)
    <2>1. len \in Nat
      BY FSAssumption
    <2>2. k \in Nat /\ OffsetOf(h) + k <= InodeOf(h).i_size
      BY <1>4, <2>1, ReadLenType, ReadFits
    <2>3. Advance(h, k) /\ UNCHANGED free_open_file_entries
      BY <1>4 DEF ReadBytes
    <2>4. OffsetOf(h) + k <= inode_table'[open_file_table[h].of_inumber].i_size
      BY <1>1, <2>2 DEF InodeOf
    <2>5. /\ inode_table' \in [Inumbers -> Inode]
          /\ \A i \in Inumbers : inode_table[i].i_size <= inode_table'[i].i_size
      BY <1>1, SizesFit DEF TypeOK, Inode
    <2> HIDE DEF k
    <2> QED
      BY <1>1, <1>4, <2>2, <2>3, <2>4, <2>5, MoveStep
  <1> QED
    BY <1>1, <1>2, <1>3, <1>4

LEMMA CarefulStep ==
    ASSUME Careful, IInv, CInv, [Next]_vars
    PROVE  CInv'
  <1> DEFINE Still == UNCHANGED <<inodes, blocks, status>>
  <1>1. ASSUME Fails PROVE CInv'
    BY <1>1, CarefulRest DEF Fails
  <1>2. ASSUME NEW n \in Name \cup {LongName}, NEW mode \in Modes,
               "TRUNC" \in mode => MayDiscard(n), tfs_open(n, mode)
        PROVE  CInv'
    BY <1>1, <1>2, CarefulOpenExisting, CarefulOpenNew DEF tfs_open, OpenFails
  <1>3. ASSUME NEW n \in Name \cup {LongName}, MayDiscard(n), tfs_unlink(n) PROVE CInv'
    BY <1>1, <1>3, CarefulUnlink DEF tfs_unlink, UnlinkFails
  <1>4. ASSUME NEW h \in Handles, BadHandle(h) \/ tfs_close(h) PROVE CInv'
    <2>1. CASE tfs_close(h)
      BY <2>1, CarefulRest DEF tfs_close
    <2> QED
      BY <1>1, <1>4, <2>1 DEF BadHandle
  <1>5. ASSUME NEW h \in Handles, NEW data \in Buffers, tfs_write(h, data) PROVE CInv'
    <2>1. IsOpen(h) /\ ~WriteWild(h, data)
      BY <1>5, NothingWild DEF CInv, tfs_write
    <2>2. CASE WriteNothing(h, data)
      BY <2>2, CarefulRest DEF WriteNothing
    <2>3. CASE WriteNoSpace(h, data)
      BY <1>1, <2>3 DEF WriteNoSpace
    <2>4. CASE WriteBytes(h, data)
      BY <2>1, <2>4, TypeStep, CarefulWrite
    <2> QED
      BY <1>5, <2>1, <2>2, <2>3, <2>4 DEF tfs_write
  <1>6. ASSUME NEW h \in Handles, NEW len \in 0 .. MaxRequest, tfs_read(h, len) PROVE CInv'
    <2>1. IsOpen(h) /\ ~ReadWild(h, len)
      BY <1>6, NothingWild DEF CInv, tfs_read
    <2>2. CASE ReadNothing(h, len)
      BY <2>2, CarefulRest DEF ReadNothing
    <2>3. CASE ReadBytes(h, len)
      <3>1. Still
        BY <2>3 DEF ReadBytes
      <3> QED
        BY <2>1, <2>3, <3>1, CarefulRest
    <2> QED
      BY <1>6, <2>1, <2>2, <2>3 DEF tfs_read
  <1>7. CASE UNCHANGED vars
    BY <1>7, CarefulRest DEF vars
  <1> QED
    BY <1>2, <1>3, <1>4, <1>5, <1>6, <1>7 DEF Next

LEMMA CarefulInvariance == Spec => [](IInv /\ (Careful => CInv))
  <1>1. Init => (Careful => CInv)
    BY InitCInv
  <1>2. IInv /\ (Careful => CInv) /\ [Next]_vars => (Careful => CInv)'
    BY CarefulStep
  <1> QED
    BY <1>1, <1>2, Invariance, PTL DEF Spec

(* If callers are careful, no ALWAYS_ASSERT of the file system fails and   *)
(* no memcpy of tfs_read or tfs_write leaves fs_data.                      *)
THEOREM CarefulNeverPanics == Spec => []KeepsRunning
  <1>1. (Careful => CInv) => KeepsRunning
    BY DEF CInv, KeepsRunning
  <1> QED
    BY <1>1, CarefulInvariance, PTL

(* If callers are careful, every taken block is a file's or the root's.    *)
THEOREM CarefulLosesNoBlock == Spec => []NoBlockLost
  <1>1. (Careful => CInv) => NoBlockLost
    BY DEF CInv, NoneLost, NoBlockLost, Owned, BlockOf
  <1> QED
    BY <1>1, CarefulInvariance, PTL

(* If callers are careful, the two promises that tfs_read and tfs_write    *)
(* break otherwise hold: an open file has its inode, and what is read ends *)
(* where the file ends.                                                    *)
THEOREM CarefulReads == Spec => [](Careful => OpenFileHasInode /\ ReadsWithinFile)
  <1>1. IInv /\ (Careful => CInv) => (Careful => OpenFileHasInode /\ ReadsWithinFile)
    <2> SUFFICES ASSUME IInv, CInv PROVE OpenFileHasInode /\ ReadsWithinFile
      OBVIOUS
    <2>1. OpenFileHasInode
      BY DEF CInv, HandlesAreFresh, OpenFileHasInode
    <2>2. ReadsWithinFile
      <3>1. \A len \in 0 .. MaxRequest : len \in Nat
        BY FSAssumption
      <3> QED
        BY <3>1, ReadFits DEF IInv, CInv, ReadsWithinFile
    <2> QED
      BY <2>1, <2>2
  <1> QED
    BY <1>1, CarefulInvariance, PTL
=============================================================================
