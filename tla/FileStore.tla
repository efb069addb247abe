------------------------------ MODULE FileStore ------------------------------
(***************************************************************************)
(* What fs/operations.h promises to a program that never deletes or        *)
(* truncates a file while it is open: named files that hold bytes, and     *)
(* handles that each stand at an offset of one file.  Inodes, data blocks, *)
(* the directory and their free maps are not visible here.                 *)
(***************************************************************************)
EXTENDS Integers, Sequences

CONSTANTS Name,        \* the names a file can have
          Byte,        \* what files contain
          Buffers,     \* the sequences of bytes that callers write
          Handle,      \* what tfs_open can return
          MaxSize,     \* the size no file exceeds
          MaxRequest,  \* bound: the largest len of a read
          NoFile,      \* the contents of a name that does not exist
          Closed       \* the position of a handle that is not open

VARIABLES files,       \* files[n]: the bytes of file n, or NoFile
          handles,     \* handles[h]: file and offset, or Closed
          ret,         \* what the last call returned
          buf          \* what the last call, if tfs_read, put in the buffer

vars == <<files, handles, ret, buf>>

Init == /\ files = [n \in Name |-> NoFile]
        /\ handles = [h \in Handle |-> Closed]
        /\ ret = 0
        /\ buf = <<>>

Returns(v) == ret' = v /\ buf' = <<>>

(* A call that fails changes nothing.                                      *)
Fail == Returns(-1) /\ UNCHANGED <<files, handles>>

NotOpen(n) == \A h \in Handle : handles[h] # Closed => handles[h].file # n

(* The file is there, or is created, or loses its contents.                *)
Created(n) == \/ files[n] # NoFile /\ UNCHANGED files
              \/ NotOpen(n) /\ files' = [files EXCEPT ![n] = <<>>]

(* The one exception: tfs_open creates or truncates the file first, and    *)
(* then may find no handle to give.                                        *)
Open(n) ==
    \/ \E h \in Handle, off \in 0 .. MaxSize :
         /\ Returns(h)
         /\ handles[h] = Closed
         /\ handles' = [handles EXCEPT ![h] = [file |-> n, offset |-> off]]
         /\ Created(n)
         /\ off \in {0, Len(files'[n])}
    \/ /\ Returns(-1)
       /\ \A h \in Handle : handles[h] # Closed
       /\ UNCHANGED handles
       /\ Created(n)

Close(h) ==
    /\ Returns(0)
    /\ handles[h] # Closed
    /\ handles' = [handles EXCEPT ![h] = Closed]
    /\ UNCHANGED files

(* The first k bytes of data stored in f after its first off bytes.        *)
Written(f, off, data, k) ==
    SubSeq(f, 1, off) \o SubSeq(data, 1, k) \o SubSeq(f, off + k + 1, Len(f))

(* Bytes that would go past MaxSize are not written.                       *)
Write(h, data) ==
    /\ handles[h] # Closed
    /\ LET n   == handles[h].file
           off == handles[h].offset
           k   == IF off + Len(data) > MaxSize THEN MaxSize - off ELSE Len(data)
       IN  /\ Returns(k)
           /\ handles' = [handles EXCEPT ![h].offset = off + k]
           /\ files' = [files EXCEPT ![n] = Written(@, off, data, k)]

Read(h, len) ==
    /\ handles[h] # Closed
    /\ LET f   == files[handles[h].file]
           off == handles[h].offset
           k   == IF off + len > Len(f) THEN Len(f) - off ELSE len
       IN  /\ ret' = k
           /\ buf' = SubSeq(f, off + 1, off + k)
           /\ handles' = [handles EXCEPT ![h].offset = off + k]
           /\ UNCHANGED files

Unlink(n) ==
    /\ Returns(0)
    /\ files[n] # NoFile /\ NotOpen(n)
    /\ files' = [files EXCEPT ![n] = NoFile]
    /\ UNCHANGED handles

Next ==
    \/ Fail
    \/ \E h \in Handle : Close(h) \/ \E len \in 0 .. MaxRequest : Read(h, len)
    \/ \E n \in Name : Unlink(n) \/ Open(n)
    \/ \E h \in Handle, data \in Buffers : Write(h, data)

Spec == Init /\ [][Next]_vars

-----------------------------------------------------------------------------
TypeOK ==
    /\ files \in [Name -> Seq(Byte) \cup {NoFile}]
    /\ handles \in [Handle -> [file : Name, offset : Nat] \cup {Closed}]
    /\ buf \in Seq(Byte)

(* An open handle stands at or before the end of a file that exists, and   *)
(* no file exceeds the size of a block.                                    *)
HandlesFit ==
    \A h \in Handle : handles[h] # Closed =>
        /\ files[handles[h].file] # NoFile
        /\ handles[h].offset <= Len(files[handles[h].file])

FilesFit == \A n \in Name : files[n] # NoFile => Len(files[n]) <= MaxSize
=============================================================================
