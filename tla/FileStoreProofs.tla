--------------------------- MODULE FileStoreProofs ---------------------------
(***************************************************************************)
(* FileStore keeps its promises by itself: what a handle stands on is      *)
(* there, no file outgrows a block, and nothing is read but what callers   *)
(* wrote.                                                                  *)
(***************************************************************************)
EXTENDS FileStore, SequenceTheorems, TLAPS

Assumptions ==
    /\ Buffers \subseteq Seq(Byte)
    /\ MaxSize \in Nat
    /\ MaxRequest \in Nat
    /\ NoFile \notin Seq(Byte)
    /\ Closed \notin [file : Name, offset : Nat]

Consistent == TypeOK /\ HandlesFit /\ FilesFit

-----------------------------------------------------------------------------
(* Sequences.                                                              *)

(* The elements of a sequence from m to n, where it has them.              *)
LEMMA Part ==
    ASSUME NEW S, NEW f \in Seq(S), NEW m \in Nat \ {0}, NEW n \in Nat, n <= Len(f)
    PROVE  /\ SubSeq(f, m, n) \in Seq(S)
           /\ m <= n + 1 => Len(SubSeq(f, m, n)) = n + 1 - m
           /\ m > n => Len(SubSeq(f, m, n)) = 0
  <1>1. Len(f) \in Nat /\ \A i \in 1 .. Len(f) : f[i] \in S
    BY LenProperties, ElementOfSeq
  <1>2. m \in Int /\ n \in Int /\ \A i \in m .. n : f[i] \in S
    BY <1>1
  <1>3. PICK s : s = SubSeq(f, m, n)
    OBVIOUS
  <1>4. s \in Seq(S) /\ Len(s) = IF m <= n THEN n - m + 1 ELSE 0
    BY <1>2, <1>3, SubSeqProperties
  <1>5. /\ m <= n + 1 => Len(s) = n + 1 - m
        /\ m > n => Len(s) = 0
    BY <1>4
  <1> QED
    BY <1>3, <1>4, <1>5

LEMMA Prefix ==
    ASSUME NEW S, NEW f \in Seq(S), NEW n \in Nat, n <= Len(f), NEW a, a = SubSeq(f, 1, n)
    PROVE  a \in Seq(S) /\ Len(a) = n
  <1>1. PICK m : m = 1
    OBVIOUS
  <1>2. /\ a \in Seq(S)
        /\ m <= n + 1 => Len(a) = n + 1 - m
    BY <1>1, Part
  <1> QED
    BY <1>1, <1>2

LEMMA WrittenFits ==
    ASSUME NEW S, NEW f \in Seq(S), NEW data \in Seq(S),
           NEW off \in Nat, off <= Len(f), NEW k \in Nat, k <= Len(data),
           NEW g, g = Written(f, off, data, k)
    PROVE  /\ g \in Seq(S)
           /\ Len(g) \in {off + k, Len(f)} /\ off + k <= Len(g) /\ Len(f) <= Len(g)
  <1>1. Len(f) \in Nat /\ Len(data) \in Nat
    BY LenProperties
  <1>2. PICK a : a = SubSeq(f, 1, off)
    OBVIOUS
  <1>3. PICK b : b = SubSeq(data, 1, k)
    OBVIOUS
  <1>4. PICK c : c = SubSeq(f, off + k + 1, Len(f))
    OBVIOUS
  <1>5. a \in Seq(S) /\ Len(a) = off
    BY <1>2, Prefix
  <1>6. b \in Seq(S) /\ Len(b) = k
    BY <1>3, Prefix
  <1>7. /\ c \in Seq(S)
        /\ off + k <= Len(f) => Len(c) = Len(f) - (off + k)
        /\ off + k > Len(f) => Len(c) = 0
    <2>1. PICK m : m = off + k + 1
      OBVIOUS
    <2>2. PICK n : n = Len(f)
      OBVIOUS
    <2>3. m \in Nat \ {0} /\ n \in Nat /\ n <= Len(f) /\ c = SubSeq(f, m, n)
      BY <1>1, <1>4, <2>1, <2>2
    <2>4. /\ c \in Seq(S)
          /\ m <= n + 1 => Len(c) = n + 1 - m
          /\ m > n => Len(c) = 0
      BY <2>3, Part
    <2> QED
      BY <1>1, <2>1, <2>2, <2>4
  <1>8. g = a \o b \o c
    BY <1>2, <1>3, <1>4, Zenon DEF Written
  <1>9. g \in Seq(S) /\ Len(g) = Len(a) + Len(b) + Len(c)
    <2>1. PICK ab : ab = a \o b
      OBVIOUS
    <2>2. ab \in Seq(S) /\ Len(ab) = Len(a) + Len(b)
      BY <1>5, <1>6, <2>1, ConcatProperties, Zenon
    <2>3. g = ab \o c
      BY <1>8, <2>1, Zenon
    <2>4. g \in Seq(S) /\ Len(g) = Len(ab) + Len(c)
      <3>1. c \in Seq(S)
        BY <1>7
      <3>2. ab \in Seq(S)
        BY <2>2
      <3> QED
        BY <2>3, <3>1, <3>2, ConcatProperties, Zenon
    <2> QED
      BY <2>2, <2>4, Zenon
  <1>10. Len(g) = off + k + Len(c)
    BY <1>5, <1>6, <1>9, Zenon
  <1>11. PICK lc : lc = Len(c)
    OBVIOUS
  <1>12. PICK lf : lf = Len(f)
    OBVIOUS
  <1>13. PICK lg : lg = Len(g)
    OBVIOUS
  <1>14. /\ lf \in Nat /\ lg = off + k + lc /\ off <= lf
         /\ off + k <= lf => lc = lf - (off + k)
         /\ off + k > lf => lc = 0
    BY <1>1, <1>7, <1>10, <1>11, <1>12, <1>13
  <1>15. lg \in {off + k, lf} /\ off + k <= lg /\ lf <= lg
    BY <1>14
  <1> QED
    BY <1>9, <1>12, <1>13, <1>15, Zenon

-----------------------------------------------------------------------------
(* Each step.                                                              *)

LEMMA EmptyFits ==
    Assumptions => <<>> \in Seq(Byte) /\ Len(<<>>) = 0 /\ <<>> # NoFile
  BY EmptySeq DEF Assumptions

(* A file that an open handle stands on.                                   *)
LEMMA HandleFile ==
    ASSUME Assumptions, Consistent, NEW h \in Handle, handles[h] # Closed
    PROVE  \E n \in Name, off \in Nat :
             /\ handles[h] = [file |-> n, offset |-> off]
             /\ files[n] \in Seq(Byte) /\ files[n] # NoFile
             /\ off <= Len(files[n]) /\ Len(files[n]) <= MaxSize
             /\ Len(files[n]) \in Nat
  <1>1. PICK n \in Name, off \in Nat : handles[h] = [file |-> n, offset |-> off]
    BY DEF Consistent, TypeOK
  <1>2. files[n] # NoFile /\ off <= Len(files[n]) /\ Len(files[n]) <= MaxSize
    BY <1>1 DEF Consistent, HandlesFit, FilesFit
  <1>3. files[n] \in Seq(Byte)
    BY <1>2 DEF Consistent, TypeOK
  <1>4. Len(files[n]) \in Nat
    BY <1>3, LenProperties
  <1> QED
    BY <1>1, <1>2, <1>3, <1>4

(* A handle that moves to an offset its file has.                          *)
LEMMA MovedFits ==
    ASSUME Assumptions, Consistent, NEW h \in Handle, NEW n \in Name, NEW off,
           handles[h] = [file |-> n, offset |-> off], handles[h] # Closed,
           NEW end \in Nat, handles' = [handles EXCEPT ![h].offset = end],
           files' \in [Name -> Seq(Byte) \cup {NoFile}], buf' \in Seq(Byte), FilesFit',
           \A m \in Name : files[m] # NoFile =>
             files'[m] # NoFile /\ Len(files[m]) <= Len(files'[m]),
           end <= Len(files'[n])
    PROVE  Consistent'
  <1>1. /\ handles'[h] = [file |-> n, offset |-> end]
        /\ \A g \in Handle : g # h => handles'[g] = handles[g]
        /\ handles' \in [Handle -> [file : Name, offset : Nat] \cup {Closed}]
    BY DEF Consistent, TypeOK
  <1>2. TypeOK'
    BY <1>1 DEF TypeOK
  <1>3. ASSUME NEW g \in Handle, handles'[g] # Closed
        PROVE  /\ files'[handles'[g].file] # NoFile
               /\ handles'[g].offset <= Len(files'[handles'[g].file])
    <2>1. CASE g = h
      <3>1. files[n] # NoFile
        BY DEF Consistent, HandlesFit
      <3> QED
        BY <1>1, <2>1, <3>1
    <2>2. CASE g # h
      <3>1. PICK m \in Name, o \in Nat :
              /\ handles[g] = [file |-> m, offset |-> o]
              /\ files[m] # NoFile /\ o <= Len(files[m]) /\ Len(files[m]) \in Nat
        BY <1>1, <1>3, <2>2, HandleFile
      <3>2. files'[m] # NoFile /\ Len(files[m]) <= Len(files'[m])
        BY <3>1
      <3>3. Len(files'[m]) \in Nat
        <4>1. files'[m] \in Seq(Byte)
          BY <3>2
        <4> QED
          BY <4>1, LenProperties
      <3>4. o <= Len(files'[m])
        BY <3>1, <3>2, <3>3
      <3> QED
        BY <1>1, <2>2, <3>1, <3>2, <3>4
    <2> QED
      BY <2>1, <2>2
  <1> QED
    BY <1>2, <1>3 DEF Consistent, HandlesFit

LEMMA WriteStep ==
    ASSUME Assumptions, Consistent, NEW h \in Handle, NEW data \in Buffers, Write(h, data)
    PROVE  Consistent'
  <1>1. PICK n \in Name, off \in Nat :
          /\ handles[h] = [file |-> n, offset |-> off]
          /\ files[n] \in Seq(Byte) /\ files[n] # NoFile
          /\ off <= Len(files[n]) /\ Len(files[n]) <= MaxSize
          /\ Len(files[n]) \in Nat
    BY HandleFile DEF Write
  <1>2. PICK f : f = files[n]
    OBVIOUS
  <1>3. PICK len : len = Len(data)
    OBVIOUS
  <1>4. PICK k : k = IF off + len > MaxSize THEN MaxSize - off ELSE len
    OBVIOUS
  <1>5. PICK g : g = Written(f, off, data, k)
    OBVIOUS
  <1>6. PICK end : end = off + k
    OBVIOUS
  <1>7. /\ handles' = [handles EXCEPT ![h].offset = end]
        /\ files' = [files EXCEPT ![n] = g]
        /\ buf' = <<>> /\ handles[h] # Closed
    <2>1. handles[h].file = n /\ handles[h].offset = off
      BY <1>1
    <2>2. PICK m : m = handles[h].file
      OBVIOUS
    <2>3. PICK o : o = handles[h].offset
      OBVIOUS
    <2>4. PICK l : l = IF o + Len(data) > MaxSize THEN MaxSize - o ELSE Len(data)
      OBVIOUS
    <2>5. /\ handles' = [handles EXCEPT ![h].offset = o + l]
          /\ files' = [files EXCEPT ![m] = Written(files[m], o, data, l)]
          /\ buf' = <<>> /\ handles[h] # Closed
      BY <2>2, <2>3, <2>4, Zenon DEF Write, Returns
    <2>6. m = n /\ o = off /\ l = k
      BY <1>3, <1>4, <2>1, <2>2, <2>3, <2>4, Zenon
    <2> QED
      BY <1>2, <1>5, <1>6, <2>5, <2>6, Zenon
  <1>8. MaxSize \in Nat /\ data \in Seq(Byte) /\ len \in Nat
    BY <1>3, LenProperties DEF Assumptions
  <1>9. k \in Nat /\ k <= len /\ end \in Nat /\ end <= MaxSize
    BY <1>1, <1>4, <1>6, <1>8
  <1>10. /\ g \in Seq(Byte) /\ g # NoFile
         /\ Len(g) \in {end, Len(f)} /\ end <= Len(g) /\ Len(f) <= Len(g)
    <2>1. f \in Seq(Byte) /\ off <= Len(f) /\ k <= Len(data)
      BY <1>1, <1>2, <1>3, <1>9
    <2>2. /\ g \in Seq(Byte)
          /\ Len(g) \in {off + k, Len(f)} /\ off + k <= Len(g) /\ Len(f) <= Len(g)
      <3>1. data \in Seq(Byte) /\ off \in Nat /\ k \in Nat
        BY <1>8, <1>9
      <3> QED
        BY <1>5, <2>1, <3>1, WrittenFits
    <2>3. /\ Len(g) \in {end, Len(f)} /\ end <= Len(g) /\ Len(f) <= Len(g)
      BY <1>6, <2>2, Zenon
    <2> QED
      BY <2>2, <2>3 DEF Assumptions
  <1>11. /\ files'[n] = g /\ \A m \in Name : m # n => files'[m] = files[m]
         /\ files' \in [Name -> Seq(Byte) \cup {NoFile}]
    BY <1>7, <1>10 DEF Consistent, TypeOK
  <1>12. Len(g) <= MaxSize
    BY <1>1, <1>2, <1>9, <1>10
  <1>13. FilesFit'
    BY <1>11, <1>12 DEF FilesFit, Consistent
  <1>14. ASSUME NEW m \in Name, files[m] # NoFile
         PROVE  files'[m] # NoFile /\ Len(files[m]) <= Len(files'[m])
    <2>1. CASE m = n
      BY <1>2, <1>10, <1>11, <2>1
    <2>2. CASE m # n
      <3>1. files[m] \in Seq(Byte)
        BY <1>14 DEF Consistent, TypeOK
      <3>2. Len(files[m]) \in Nat
        BY <3>1, LenProperties
      <3> QED
        BY <1>11, <1>14, <2>2, <3>2
    <2> QED
      BY <2>1, <2>2
  <1>15. buf' \in Seq(Byte) /\ end <= Len(files'[n])
    BY <1>7, <1>10, <1>11, EmptyFits
  <1>16. handles[h] # Closed /\ handles' = [handles EXCEPT ![h].offset = end]
    BY <1>7
  <1> QED
    BY <1>1, <1>9, <1>11, <1>13, <1>14, <1>15, <1>16, MovedFits

LEMMA ReadStep ==
    ASSUME Assumptions, Consistent, NEW h \in Handle, NEW len \in 0 .. MaxRequest, Read(h, len)
    PROVE  Consistent'
  <1>1. PICK n \in Name, off \in Nat :
          /\ handles[h] = [file |-> n, offset |-> off]
          /\ files[n] \in Seq(Byte) /\ files[n] # NoFile
          /\ off <= Len(files[n]) /\ Len(files[n]) <= MaxSize
          /\ Len(files[n]) \in Nat
    BY HandleFile DEF Read
  <1>2. PICK f : f = files[n]
    OBVIOUS
  <1>3. PICK k : k = IF off + len > Len(f) THEN Len(f) - off ELSE len
    OBVIOUS
  <1>4. PICK end : end = off + k
    OBVIOUS
  <1>5. PICK start : start = off + 1
    OBVIOUS
  <1>6. /\ handles' = [handles EXCEPT ![h].offset = end]
        /\ buf' = SubSeq(f, start, end)
        /\ files' = files /\ handles[h] # Closed
    <2>1. handles[h].file = n /\ handles[h].offset = off
      BY <1>1
    <2>2. PICK g : g = files[handles[h].file]
      OBVIOUS
    <2>3. PICK o : o = handles[h].offset
      OBVIOUS
    <2>4. PICK l : l = IF o + len > Len(g) THEN Len(g) - o ELSE len
      OBVIOUS
    <2>5. /\ handles' = [handles EXCEPT ![h].offset = o + l]
          /\ buf' = SubSeq(g, o + 1, o + l)
          /\ files' = files /\ handles[h] # Closed
      BY <2>2, <2>3, <2>4, Zenon DEF Read
    <2>6. g = f /\ o = off /\ l = k
      BY <1>2, <1>3, <2>1, <2>2, <2>3, <2>4, Zenon
    <2> QED
      BY <1>4, <1>5, <2>5, <2>6, Zenon
  <1>7. len \in Nat
    BY DEF Assumptions
  <1>8. end \in Nat /\ end <= Len(f) /\ start \in Nat \ {0}
    BY <1>1, <1>2, <1>3, <1>4, <1>5, <1>7
  <1>9. buf' \in Seq(Byte)
    <2>1. f \in Seq(Byte)
      BY <1>1, <1>2
    <2> QED
      BY <1>6, <1>8, <2>1, Part
  <1>10. /\ files' \in [Name -> Seq(Byte) \cup {NoFile}]
         /\ FilesFit' /\ end <= Len(files'[n])
    BY <1>2, <1>6, <1>8 DEF Consistent, TypeOK, FilesFit
  <1>11. ASSUME NEW m \in Name, files[m] # NoFile
         PROVE  files'[m] # NoFile /\ Len(files[m]) <= Len(files'[m])
    <2>1. files[m] \in Seq(Byte)
      BY <1>11 DEF Consistent, TypeOK
    <2>2. Len(files[m]) \in Nat
      BY <2>1, LenProperties
    <2> QED
      BY <1>6, <1>11, <2>2
  <1>12. handles[h] # Closed /\ handles' = [handles EXCEPT ![h].offset = end]
    BY <1>6
  <1> QED
    BY <1>1, <1>8, <1>9, <1>10, <1>11, <1>12, MovedFits

LEMMA CreatedFits ==
    ASSUME Assumptions, Consistent, NEW n \in Name, Created(n)
    PROVE  /\ files' \in [Name -> Seq(Byte) \cup {NoFile}] /\ FilesFit'
           /\ files'[n] \in Seq(Byte) /\ files'[n] # NoFile
           /\ \A g \in Handle : handles[g] # Closed =>
                files'[handles[g].file] = files[handles[g].file]
  <1>1. CASE files[n] # NoFile /\ UNCHANGED files
    BY <1>1 DEF Consistent, TypeOK, FilesFit
  <1>2. CASE NotOpen(n) /\ files' = [files EXCEPT ![n] = <<>>]
    <2>1. <<>> \in Seq(Byte) /\ Len(<<>>) <= MaxSize /\ <<>> # NoFile
      BY EmptyFits DEF Assumptions
    <2>2. files'[n] = <<>> /\ \A m \in Name : m # n => files'[m] = files[m]
      BY <1>2 DEF Consistent, TypeOK
    <2>3. files' \in [Name -> Seq(Byte) \cup {NoFile}]
      BY <1>2, <2>1 DEF Consistent, TypeOK
    <2>4. FilesFit'
      BY <2>1, <2>2 DEF Consistent, FilesFit
    <2>5. \A g \in Handle : handles[g] # Closed =>
            handles[g].file \in Name /\ handles[g].file # n
      BY <1>2 DEF NotOpen, Consistent, TypeOK
    <2> QED
      BY <2>1, <2>2, <2>3, <2>4, <2>5
  <1> QED
    BY <1>1, <1>2 DEF Created

LEMMA OpenStep ==
    ASSUME Assumptions, Consistent, NEW n \in Name, Open(n)
    PROVE  Consistent'
  <1>1. Created(n) /\ buf' = <<>>
    BY DEF Open, Returns
  <1>2. /\ files' \in [Name -> Seq(Byte) \cup {NoFile}] /\ FilesFit'
        /\ files'[n] \in Seq(Byte) /\ files'[n] # NoFile
        /\ \A g \in Handle : handles[g] # Closed =>
             files'[handles[g].file] = files[handles[g].file]
    BY <1>1, CreatedFits
  <1>3. buf' \in Seq(Byte) /\ Len(files'[n]) \in Nat
    BY <1>1, <1>2, EmptyFits, LenProperties
  <1>4. CASE UNCHANGED handles
    <2>1. HandlesFit'
      BY <1>2, <1>4 DEF Consistent, HandlesFit
    <2> QED
      BY <1>2, <1>3, <1>4, <2>1 DEF Consistent, TypeOK
  <1>5. ASSUME NEW h \in Handle, NEW off \in {0, Len(files'[n])},
               handles' = [handles EXCEPT ![h] = [file |-> n, offset |-> off]]
        PROVE  Consistent'
    <2>1. off \in Nat /\ off <= Len(files'[n])
      BY <1>3, <1>5
    <2>2. /\ handles'[h] = [file |-> n, offset |-> off]
          /\ \A g \in Handle : g # h => handles'[g] = handles[g]
          /\ handles' \in [Handle -> [file : Name, offset : Nat] \cup {Closed}]
      BY <1>5, <2>1 DEF Consistent, TypeOK
    <2>3. ASSUME NEW g \in Handle, handles'[g] # Closed
          PROVE  /\ files'[handles'[g].file] # NoFile
                 /\ handles'[g].offset <= Len(files'[handles'[g].file])
      <3>1. CASE g = h
        BY <1>2, <2>1, <2>2, <3>1
      <3>2. CASE g # h
        BY <1>2, <2>2, <2>3, <3>2 DEF Consistent, HandlesFit
      <3> QED
        BY <3>1, <3>2
    <2> QED
      BY <1>2, <1>3, <2>2, <2>3 DEF Consistent, TypeOK, HandlesFit
  <1> QED
    BY <1>4, <1>5 DEF Open

LEMMA UnlinkStep ==
    ASSUME Assumptions, Consistent, NEW n \in Name, Unlink(n)
    PROVE  Consistent'
  <1>1. /\ files' = [files EXCEPT ![n] = NoFile]
        /\ NotOpen(n) /\ UNCHANGED handles /\ buf' = <<>>
    BY DEF Unlink, Returns
  <1>2. /\ files'[n] = NoFile /\ \A m \in Name : m # n => files'[m] = files[m]
        /\ files' \in [Name -> Seq(Byte) \cup {NoFile}]
    BY <1>1 DEF Consistent, TypeOK
  <1>3. TypeOK'
    BY <1>1, <1>2, EmptyFits DEF Consistent, TypeOK
  <1>4. FilesFit'
    BY <1>2 DEF Consistent, FilesFit
  <1>5. HandlesFit'
    <2>1. \A g \in Handle : handles[g] # Closed =>
            handles[g].file \in Name /\ handles[g].file # n
      BY <1>1 DEF NotOpen, Consistent, TypeOK
    <2> QED
      BY <1>1, <1>2, <2>1 DEF Consistent, HandlesFit
  <1> QED
    BY <1>3, <1>4, <1>5 DEF Consistent

LEMMA InitConsistent == Assumptions /\ Init => Consistent
  BY EmptyFits DEF Init, Consistent, TypeOK, HandlesFit, FilesFit

LEMMA StoreStep ==
    ASSUME Assumptions, Consistent, [Next]_vars
    PROVE  Consistent'
  <1>1. CASE Fail
    BY <1>1, EmptyFits DEF Fail, Returns, Consistent, TypeOK, HandlesFit, FilesFit
  <1>2. ASSUME NEW h \in Handle, Close(h) PROVE Consistent'
    <2>1. /\ handles'[h] = Closed
          /\ \A g \in Handle : g # h => handles'[g] = handles[g]
          /\ handles' \in [Handle -> [file : Name, offset : Nat] \cup {Closed}]
      BY <1>2 DEF Close, Consistent, TypeOK
    <2> QED
      BY <1>2, <2>1, EmptyFits DEF Close, Returns, Consistent, TypeOK, HandlesFit, FilesFit
  <1>3. CASE UNCHANGED vars
    BY <1>3 DEF vars, Consistent, TypeOK, HandlesFit, FilesFit
  <1> QED
    BY <1>1, <1>2, <1>3, WriteStep, ReadStep, OpenStep, UnlinkStep DEF Next

(* What a careful program may rely on: a handle stands within a file that  *)
(* exists, and files and reads contain nothing but what was written.       *)
THEOREM StoreIsConsistent == ASSUME Assumptions PROVE Spec => []Consistent
  <1>1. Init => Consistent
    BY InitConsistent
  <1>2. Consistent /\ [Next]_vars => Consistent'
    BY StoreStep
  <1> QED
    BY <1>1, <1>2, PTL DEF Spec

=============================================================================
