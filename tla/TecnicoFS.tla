------------------------------ MODULE TecnicoFS ------------------------------
(***************************************************************************)
(* The in-memory file system of fs/operations.c and fs/state.c.  Every     *)
(* tfs_ function runs under g_library_mutex, so each is one step.          *)
(*                                                                         *)
(* The root directory's block is never freed, and its contents are dir.    *)
(* An ALWAYS_ASSERT that fails, and a memory access outside fs_data, end   *)
(* the program: nothing is said of what follows.                           *)
(***************************************************************************)
EXTENDS Integers, Sequences, FiniteSets

CONSTANTS INODE_TABLE_SIZE, DATA_BLOCKS, MAX_OPEN_FILES, BLOCK_SIZE, MAX_DIR_ENTRIES,
          Name,        \* the file names of at most MAX_FILE_NAME - 1 characters
          LongName,    \* a longer one
          NoName,      \* the empty name memset leaves in a cleared entry
          OldNames,    \* what malloc may have left in the directory's names
          Byte,        \* what files contain
          Buffers,     \* the sequences of bytes that callers write
          Garbage,     \* what malloc left in fs_data
          Modes,       \* the sets of tfs_open's mode flags that callers use
          SizeMod,     \* size_t arithmetic is modulo SizeMod
          MaxRequest,  \* bound: the largest len of a read or a write
          Careful,     \* TRUE: callers never unlink or truncate an open file
          NoFile, Closed   \* values of FileStore

Inumbers == 0 .. INODE_TABLE_SIZE - 1
Blocks   == 0 .. DATA_BLOCKS - 1
Handles  == 0 .. MAX_OPEN_FILES - 1
Entries  == 0 .. MAX_DIR_ENTRIES - 1
MemorySize == DATA_BLOCKS * BLOCK_SIZE
Places   == 0 .. MemorySize - 1    \* in fs_data, a block after the other
ROOT_DIR_INUM == 0

ASSUME FSAssumption ==
    /\ INODE_TABLE_SIZE \in Nat \ {0}
    /\ DATA_BLOCKS \in Nat \ {0}
    /\ MAX_OPEN_FILES \in Nat
    /\ BLOCK_SIZE \in Nat \ {0}
    /\ MAX_DIR_ENTRIES \in Nat
    /\ Modes \subseteq SUBSET {"CREAT", "TRUNC", "APPEND"}
    /\ MaxRequest \in Nat
    /\ Buffers \subseteq UNION {[1 .. k -> Byte] : k \in 0 .. MaxRequest}
    /\ SizeMod \in Nat
    /\ SizeMod > MemorySize + MaxRequest
    /\ LongName \notin Name
    /\ NoName \notin Name
    /\ OldNames \subseteq Name \cup {NoName}
    /\ Careful \in BOOLEAN

(* No file and no open handle looks like the absence of one.               *)
ASSUME StoreAssumption ==
    /\ NoFile \notin Seq(Byte \cup {Garbage})
    /\ Closed \notin [file : Name, offset : Nat]

VARIABLES inode_table, freeinode_ts, fs_data, free_blocks,
          dir,         \* the entries in the root directory's block
          open_file_table, free_open_file_entries,
          ret,         \* what the last call returned
          buf,         \* what the last call, if tfs_read, put in the buffer
          status       \* "running", "panic" or "undefined"

Inode    == [i_size : 0 .. BLOCK_SIZE, i_data_block : Blocks \cup {-1}]
OpenFile == [of_inumber : Inumbers, of_offset : 0 .. MemorySize]
DirEntry == [d_name : Name \cup {NoName}, d_inumber : Inumbers \cup {-1}]

inodes == <<inode_table, freeinode_ts>>
blocks == <<fs_data, free_blocks>>
opens  == <<open_file_table, free_open_file_entries>>
vars   == <<inodes, blocks, dir, opens, ret, buf, status>>

NoOpenFile == [of_inumber |-> 0, of_offset |-> 0]
EmptyInode == [i_size |-> 0, i_data_block |-> -1]
FreeIn(map) == {i \in DOMAIN map : map[i] = "FREE"}
First(S, i) == i \in S /\ \A j \in S : i <= j

(* tfs_init.  The names of the directory's entries are as malloc left      *)
(* them, and may be those of files.                                        *)
Init ==
    /\ inode_table = [i \in Inumbers |->
                        IF i = ROOT_DIR_INUM THEN [i_size |-> BLOCK_SIZE, i_data_block |-> 0]
                        ELSE EmptyInode]
    /\ freeinode_ts = [i \in Inumbers |-> IF i = ROOT_DIR_INUM THEN "TAKEN" ELSE "FREE"]
    /\ fs_data = [q \in Places |-> Garbage]
    /\ free_blocks = [b \in Blocks |-> IF b = 0 THEN "TAKEN" ELSE "FREE"]
    /\ dir \in [Entries -> [d_name : OldNames, d_inumber : {-1}]]
    /\ open_file_table = [h \in Handles |-> NoOpenFile]
    /\ free_open_file_entries = [h \in Handles |-> "FREE"]
    /\ ret = 0
    /\ buf = <<>>
    /\ status = "running"

-----------------------------------------------------------------------------
Running == status = "running"

Returns(v) == ret' = v /\ buf' = <<>>

Fails == Returns(-1) /\ UNCHANGED <<inodes, blocks, dir, opens, status>>

AlwaysAssert(c) == status' = IF c THEN status ELSE "panic"

(* find_in_dir: the entry that is found is the first of these.             *)
Matches(n) == {d \in Entries : dir[d].d_inumber # -1 /\ dir[d].d_name = n}

tfs_lookup(n, inum) == \E d \in Entries : First(Matches(n), d) /\ inum = dir[d].d_inumber

(* Mutant: the entry is not marked as taken.                               *)
AddUnmarked(inum, offset) ==
    \E h \in Handles :
      /\ First(FreeIn(free_open_file_entries), h)
      /\ open_file_table' =
           [open_file_table EXCEPT ![h] = [of_inumber |-> inum, of_offset |-> offset]]
      /\ Returns(h)
      /\ UNCHANGED free_open_file_entries

add_to_open_file_table(inum, offset) ==
    \/ \E h \in Handles :
         /\ First(FreeIn(free_open_file_entries), h)
         /\ free_open_file_entries' = [free_open_file_entries EXCEPT ![h] = "TAKEN"]
         /\ open_file_table' =
              [open_file_table EXCEPT ![h] = [of_inumber |-> inum, of_offset |-> offset]]
         /\ Returns(h)
    \/ /\ FreeIn(free_open_file_entries) = {}
       /\ UNCHANGED opens
       /\ Returns(-1)

(* data_block_free of a block that is not in the array is an assertion.    *)
data_block_free(b) ==
    /\ free_blocks' = [free_blocks EXCEPT ![b] = "FREE"]
    /\ AlwaysAssert(b \in Blocks)

-----------------------------------------------------------------------------
(* tfs_open                                                                *)

(* Mutants: the size is not reset, the block is not freed.                 *)
TruncateKeepsSize(inum) ==
    data_block_free(inode_table[inum].i_data_block) /\ UNCHANGED inode_table

TruncateKeepsBlock(inum) ==
    /\ inode_table' = [inode_table EXCEPT ![inum].i_size = 0]
    /\ UNCHANGED <<free_blocks, status>>

(* TFS_O_TRUNC on a file with contents.  Its i_data_block stays as it was. *)
Truncate(inum) ==
    /\ data_block_free(inode_table[inum].i_data_block)
    /\ inode_table' = [inode_table EXCEPT ![inum].i_size = 0]

(* The file exists; its contents are dropped first if the mode says so.    *)
OpenExisting(n, mode) ==
    \E inum \in Inumbers :
      /\ tfs_lookup(n, inum)
      /\ IF "TRUNC" \in mode /\ inode_table[inum].i_size > 0
         THEN Truncate(inum)
         ELSE UNCHANGED <<free_blocks, inode_table, status>>
      /\ add_to_open_file_table(inum, IF "APPEND" \in mode THEN inode_table'[inum].i_size ELSE 0)
      /\ UNCHANGED <<freeinode_ts, fs_data, dir>>

(* The file does not exist: inode_create and add_dir_entry.                *)
OpenCreate(n, mode) ==
    /\ Matches(n) = {} /\ "CREAT" \in mode /\ n # LongName
    /\ \E inum \in Inumbers, d \in Entries :
         /\ First(FreeIn(freeinode_ts), inum)
         /\ First({e \in Entries : dir[e].d_inumber = -1}, d)
         /\ freeinode_ts' = [freeinode_ts EXCEPT ![inum] = "TAKEN"]
         /\ inode_table' = [inode_table EXCEPT ![inum] = EmptyInode]
         /\ dir' = [dir EXCEPT ![d] = [d_name |-> n, d_inumber |-> inum]]
         /\ add_to_open_file_table(inum, 0)
    /\ UNCHANGED <<blocks, status>>

(* Mutant: the inode is not deleted when there is no directory entry.      *)
OpenKeepsInode(n, mode) ==
    /\ Matches(n) = {} /\ "CREAT" \in mode
    /\ n = LongName \/ \A d \in Entries : dir[d].d_inumber # -1
    /\ \E inum \in Inumbers :
         /\ First(FreeIn(freeinode_ts), inum)
         /\ inode_table' = [inode_table EXCEPT ![inum] = EmptyInode]
         /\ freeinode_ts' = [freeinode_ts EXCEPT ![inum] = "TAKEN"]
    /\ Returns(-1)
    /\ UNCHANGED <<blocks, dir, opens, status>>

(* add_dir_entry refuses the name or finds the directory full: the new     *)
(* inode is freed again, and only its fields keep a trace.                 *)
OpenCreateUndone(n, mode) ==
    /\ Matches(n) = {} /\ "CREAT" \in mode
    /\ n = LongName \/ \A d \in Entries : dir[d].d_inumber # -1
    /\ \E inum \in Inumbers :
         /\ First(FreeIn(freeinode_ts), inum)
         /\ inode_table' = [inode_table EXCEPT ![inum] = EmptyInode]
    /\ Returns(-1)
    /\ UNCHANGED <<freeinode_ts, blocks, dir, opens, status>>

(* No such file, or no inode for a new one.  valid_pathname refuses a path *)
(* without a name in the same way.                                         *)
OpenFails(n, mode) ==
    /\ Matches(n) = {}
    /\ "CREAT" \in mode => FreeIn(freeinode_ts) = {}
    /\ Fails

tfs_open(n, mode) ==
    /\ Running
    /\ \/ OpenExisting(n, mode) \/ OpenCreate(n, mode)
       \/ OpenCreateUndone(n, mode) \/ OpenFails(n, mode)

-----------------------------------------------------------------------------
(* tfs_close, tfs_write, tfs_read.  A handle that is not open gives -1.    *)

IsOpen(h) == free_open_file_entries[h] = "TAKEN"

BadHandle(h) == Running /\ ~IsOpen(h) /\ Fails

(* The entry's fields, never read again, are given a fixed value.          *)
tfs_close(h) ==
    /\ Running /\ IsOpen(h)
    /\ free_open_file_entries' = [free_open_file_entries EXCEPT ![h] = "FREE"]
    /\ open_file_table' = [open_file_table EXCEPT ![h] = NoOpenFile]
    /\ Returns(0)
    /\ UNCHANGED <<inodes, blocks, dir, status>>

(* inode_get only checks that the inumber is in the table: an inode that   *)
(* tfs_unlink has freed, or that is another file's now, is used all the    *)
(* same.                                                                   *)
InodeOf(h)  == inode_table[open_file_table[h].of_inumber]
OffsetOf(h) == open_file_table[h].of_offset

(* data_block_get, and memcpy from and to fs_data.                         *)
PlaceOf(b) == b * BLOCK_SIZE
BytesAt(q, k) == [i \in 1 .. k |-> fs_data[q + i - 1]]
Overwritten(q, k, data) ==
    [p \in Places |-> IF p \in q .. q + k - 1 THEN data[p - q + 1] ELSE fs_data[p]]

Advance(h, k) == open_file_table' = [open_file_table EXCEPT ![h].of_offset = @ + k]

(* Mutant: a write is not cut at the end of the block.                     *)
WriteLenUncut(h, len) == len

WriteLen(h, len) ==
    IF (len + OffsetOf(h)) % SizeMod > BLOCK_SIZE
    THEN (BLOCK_SIZE - OffsetOf(h)) % SizeMod
    ELSE len

(* The block written to: a new one for an empty file.                      *)
BlockToWrite(h, b) ==
    IF InodeOf(h).i_size = 0
    THEN /\ First(FreeIn(free_blocks), b)
         /\ free_blocks' = [free_blocks EXCEPT ![b] = "TAKEN"]
    ELSE /\ b = InodeOf(h).i_data_block
         /\ UNCHANGED free_blocks

WriteNothing(h, data) ==
    /\ WriteLen(h, Len(data)) = 0
    /\ Returns(0)
    /\ UNCHANGED <<inodes, blocks, dir, opens, status>>

(* Mutant: the size is set although no block is free.                      *)
WriteNoSpaceGrows(h, data) ==
    /\ WriteLen(h, Len(data)) > 0
    /\ InodeOf(h).i_size = 0
    /\ FreeIn(free_blocks) = {}
    /\ inode_table' = [inode_table EXCEPT ![open_file_table[h].of_inumber].i_size =
                                             OffsetOf(h) + WriteLen(h, Len(data))]
    /\ Returns(-1)
    /\ UNCHANGED <<freeinode_ts, blocks, dir, opens, status>>

WriteNoSpace(h, data) ==
    /\ WriteLen(h, Len(data)) > 0
    /\ InodeOf(h).i_size = 0
    /\ FreeIn(free_blocks) = {}
    /\ Fails

(* Mutants: a write in the middle of a file cuts it there; the offset is   *)
(* added to the size.                                                      *)
SizeCut(size, end) == end
SizeSum(size, end) == size + end

SizeAfter(size, end) == IF end > size THEN end ELSE size

WriteBytes(h, data) ==
    LET k   == WriteLen(h, Len(data))
        off == OffsetOf(h)
    IN  /\ k > 0 /\ off + k <= BLOCK_SIZE
        /\ \E b \in Blocks :
             /\ BlockToWrite(h, b)
             /\ fs_data' = Overwritten(PlaceOf(b) + off, k, data)
             /\ inode_table' = [inode_table EXCEPT ![open_file_table[h].of_inumber] =
                  [i_size |-> SizeAfter(@.i_size, off + k), i_data_block |-> b]]
        /\ Advance(h, k)
        /\ Returns(k)
        /\ UNCHANGED <<freeinode_ts, dir, free_open_file_entries, status>>

(* BLOCK_SIZE - of_offset has wrapped: memcpy runs over the whole memory.  *)
WriteWild(h, data) ==
    /\ OffsetOf(h) + WriteLen(h, Len(data)) > BLOCK_SIZE
    /\ InodeOf(h).i_size = 0 => FreeIn(free_blocks) # {}
    /\ status' = "undefined"
    /\ UNCHANGED <<inodes, blocks, dir, opens, ret, buf>>

tfs_write(h, data) ==
    /\ Running /\ IsOpen(h)
    /\ \/ WriteNothing(h, data) \/ WriteNoSpace(h, data)
       \/ WriteBytes(h, data) \/ WriteWild(h, data)

(* Mutant: a read is not cut at the end of the file.                       *)
ReadLenUncut(h, len) == len

(* The subtraction of sizes wraps when the offset is past the file's end.  *)
ReadLen(h, len) ==
    LET left == (InodeOf(h).i_size - OffsetOf(h)) % SizeMod
    IN  IF left > len THEN len ELSE left

ReadNothing(h, len) ==
    /\ ReadLen(h, len) = 0
    /\ Returns(0)
    /\ UNCHANGED <<inodes, blocks, dir, opens, status>>

(* The bytes may go on in the next blocks, up to the end of fs_data.       *)
InMemory(b, off, k) == PlaceOf(b) + off + k <= MemorySize

ReadBytes(h, len) ==
    LET k == ReadLen(h, len)
        b == InodeOf(h).i_data_block
    IN  /\ k > 0 /\ b \in Blocks /\ InMemory(b, OffsetOf(h), k)
        /\ ret' = k
        /\ buf' = BytesAt(PlaceOf(b) + OffsetOf(h), k)
        /\ Advance(h, k)
        /\ UNCHANGED <<inodes, blocks, dir, free_open_file_entries, status>>

(* data_block_get's assertion, or a memcpy from beyond fs_data.            *)
ReadWild(h, len) ==
    LET k == ReadLen(h, len)
        b == InodeOf(h).i_data_block
    IN  /\ k > 0
        /\ b \in Blocks => ~InMemory(b, OffsetOf(h), k)
        /\ status' = IF b \in Blocks THEN "undefined" ELSE "panic"
        /\ UNCHANGED <<inodes, blocks, dir, opens, ret, buf>>

tfs_read(h, len) ==
    /\ Running /\ IsOpen(h)
    /\ ReadNothing(h, len) \/ ReadBytes(h, len) \/ ReadWild(h, len)

-----------------------------------------------------------------------------
(* tfs_unlink: inode_delete, whoever has the file open, then               *)
(* clear_dir_entry, which looks for the name alone, in cleared and never   *)
(* used entries too.                                                       *)

UnlinkFails(n) == Matches(n) = {} /\ Fails

UnlinkFile(n) ==
    /\ \E inum \in Inumbers :
         /\ tfs_lookup(n, inum)
         /\ IF inode_table[inum].i_size > 0
            THEN free_blocks' = [free_blocks EXCEPT ![inode_table[inum].i_data_block] = "FREE"]
            ELSE UNCHANGED free_blocks
         /\ AlwaysAssert(/\ freeinode_ts[inum] = "TAKEN"
                         /\ inode_table[inum].i_size > 0 => inode_table[inum].i_data_block \in Blocks)
         /\ freeinode_ts' = [freeinode_ts EXCEPT ![inum] = "FREE"]
    /\ \E d \in Entries :
         /\ First({e \in Entries : dir[e].d_name = n}, d)
         /\ dir' = [dir EXCEPT ![d] = [d_name |-> NoName, d_inumber |-> -1]]
    /\ Returns(0)
    /\ UNCHANGED <<inode_table, fs_data, opens>>

tfs_unlink(n) == Running /\ (UnlinkFails(n) \/ UnlinkFile(n))

-----------------------------------------------------------------------------
(* Some handle is open on the file that n names.                           *)
InUse(n) == \E h \in Handles : IsOpen(h) /\ tfs_lookup(n, open_file_table[h].of_inumber)
MayDiscard(n) == Careful => ~InUse(n)

Next ==
    \/ \E n \in Name \cup {LongName}, mode \in Modes :
         ("TRUNC" \in mode => MayDiscard(n)) /\ tfs_open(n, mode)
    \/ \E n \in Name \cup {LongName} : MayDiscard(n) /\ tfs_unlink(n)
    \/ \E h \in Handles : BadHandle(h) \/ tfs_close(h)
    \/ \E h \in Handles, data \in Buffers : tfs_write(h, data)
    \/ \E h \in Handles, len \in 0 .. MaxRequest : tfs_read(h, len)

Spec == Init /\ [][Next]_vars

-----------------------------------------------------------------------------
(* Properties                                                              *)

TypeOK ==
    /\ inode_table \in [Inumbers -> Inode]
    /\ freeinode_ts \in [Inumbers -> {"FREE", "TAKEN"}]
    /\ fs_data \in [Places -> Byte \cup {Garbage}]
    /\ free_blocks \in [Blocks -> {"FREE", "TAKEN"}]
    /\ dir \in [Entries -> DirEntry]
    /\ open_file_table \in [Handles -> OpenFile]
    /\ free_open_file_entries \in [Handles -> {"FREE", "TAKEN"}]
    /\ ret \in Int
    /\ buf \in Seq(Byte \cup {Garbage})
    /\ status \in {"running", "panic", "undefined"}

Live(i) == freeinode_ts[i] = "TAKEN"
HasBlock(i) == inode_table[i].i_size > 0

(* The directory and the inode table agree, whatever handles are left on   *)
(* deleted files: every file has one entry and one name, an entry never    *)
(* leads to a freed inode or to the root, and no inode is lost.            *)
DirectoryIsExact ==
    /\ Live(ROOT_DIR_INUM)
    /\ \A d, e \in Entries :
         /\ dir[d].d_inumber # -1 /\ dir[e].d_inumber # -1
         /\ \/ dir[d].d_inumber = dir[e].d_inumber
            \/ dir[d].d_name = dir[e].d_name
         => d = e
    /\ \A i \in Inumbers \ {ROOT_DIR_INUM} :
         Live(i) <=> \E d \in Entries : dir[d].d_inumber = i
    /\ \A d \in Entries : dir[d].d_inumber # ROOT_DIR_INUM
    /\ \A d \in Entries : dir[d].d_inumber # -1 => dir[d].d_name \in Name

(* Two files, or a file and the directory, never share a data block, and   *)
(* the block of a file is never handed out again while the file exists.    *)
BlocksAreOwned ==
    \A i \in Inumbers : Live(i) /\ HasBlock(i) =>
        /\ inode_table[i].i_data_block \in Blocks
        /\ free_blocks[inode_table[i].i_data_block] = "TAKEN"
        /\ \A j \in Inumbers : Live(j) /\ HasBlock(j) /\ j # i =>
             inode_table[i].i_data_block # inode_table[j].i_data_block

(* Handles, directory, blocks and the inodes of files are as they were.    *)
AsBefore ==
    /\ UNCHANGED <<freeinode_ts, blocks, dir, opens>>
    /\ \A i \in Inumbers : Live(i) => inode_table'[i] = inode_table[i]

(* The one thing left otherwise: tfs_open created n, or truncated it, and  *)
(* then found no handle.  The other files are as they were.                *)
LeftEmpty(n) ==
    /\ FreeIn(free_open_file_entries) = {}
    /\ UNCHANGED <<fs_data, opens>>
    /\ \A d \in Entries : dir[d].d_inumber # -1 => dir'[d] = dir[d]
    /\ \E inum \in Inumbers :
         /\ tfs_lookup(n, inum)' /\ inode_table'[inum].i_size = 0
         /\ \A i \in Inumbers \ {inum} :
              Live(i) => Live(i)' /\ inode_table'[i] = inode_table[i]
    /\ \E mode \in Modes : tfs_open(n, mode)

(* A call that fails leaves the file system as it found it, every size and *)
(* offset included, its allocations undone; but for tfs_open without a     *)
(* free handle, which leaves the file empty that it was to open, and only  *)
(* that.                                                                   *)
FailsCleanly ==
    [][ret' = -1 => AsBefore \/ \E n \in Name \cup {LongName} : LeftEmpty(n)]_vars

(* The files that exist, by name, and how many can: each takes an inode    *)
(* and a directory entry, and the root an inode.                           *)
listed    == {n \in Name : Matches(n) # {}}
MAX_FILES == IF INODE_TABLE_SIZE - 1 < MAX_DIR_ENTRIES THEN INODE_TABLE_SIZE - 1
                                                       ELSE MAX_DIR_ENTRIES

(* tfs_open never refuses to create a file while there are fewer than the  *)
(* tables are made for, even if it then has no handle to give: no failure, *)
(* deletion or stale handle uses up an inode or an entry.                  *)
CreatesWhileRoom ==
    [][ret' = -1 /\ Cardinality(listed) < MAX_FILES =>
         \A n \in Name \ listed', mode \in Modes :
           "CREAT" \in mode => ~tfs_open(n, mode)]_vars

Catalogued == INSTANCE Catalogue
                WITH names <- listed, open <- Cardinality({h \in Handles : IsOpen(h)}),
                     MaxFiles <- MAX_FILES, MaxOpen <- MAX_OPEN_FILES

(* With any callers a file exists from its creation to its deletion by     *)
(* name, whatever clear_dir_entry finds in the directory, and tfs_open     *)
(* gives a handle as long as there is one.  Broker takes TecnicoFS to be   *)
(* this.                                                                   *)
IsCatalogue == Catalogued!Spec

(* With careful callers no data block is lost: every block that is taken   *)
(* belongs to a file or to the directory.                                  *)
NoBlockLost ==
    Careful => \A b \in Blocks : free_blocks[b] = "TAKEN" =>
        \E i \in Inumbers : Live(i) /\ HasBlock(i) /\ inode_table[i].i_data_block = b

(* With careful callers no assertion of state.c or operations.c fails and  *)
(* no access leaves fs_data.                                               *)
KeepsRunning == Careful => status = "running"

(* With careful callers tfs_read gives back only bytes that tfs_write has  *)
(* stored: what malloc left in fs_data is never seen.                      *)
ReadsOnlyWritten == Careful => buf \in Seq(Byte)

(* The assertions of tfs_read and tfs_write, "inode of open file deleted"  *)
(* (operations.c:202 and :261), say that an open file has its inode.       *)
OpenFileHasInode ==
    \A h \in Handles : IsOpen(h) => Live(open_file_table[h].of_inumber)

(* operations.h:111-112: tfs_read returns the number of bytes copied from  *)
(* the file, lower than len if the end of the file is reached.             *)
ReadsWithinFile ==
    \A h \in Handles, len \in 0 .. MaxRequest :
        IsOpen(h) /\ ReadLen(h, len) > 0 => OffsetOf(h) + ReadLen(h, len) <= InodeOf(h).i_size

-----------------------------------------------------------------------------
(* With careful callers the tables implement FileStore.                    *)

InumberOf(n) == dir[CHOOSE d \in Matches(n) : TRUE].d_inumber
NameOf(inum) == dir[CHOOSE d \in Entries : dir[d].d_inumber = inum].d_name
Contents(inum) == BytesAt(PlaceOf(inode_table[inum].i_data_block), inode_table[inum].i_size)

files == [n \in Name |-> IF Matches(n) = {} THEN NoFile ELSE Contents(InumberOf(n))]

handles == [h \in Handles |->
              IF IsOpen(h)
              THEN [file |-> NameOf(open_file_table[h].of_inumber), offset |-> OffsetOf(h)]
              ELSE Closed]

Store == INSTANCE FileStore WITH Handle <- Handles, MaxSize <- BLOCK_SIZE

(* What is written to a file is what is read from it, through any handle   *)
(* and at any offset, until the file is truncated or deleted; no other     *)
(* call, failing or not, changes it.                                       *)
IsFileStore == Store!Spec
=============================================================================
