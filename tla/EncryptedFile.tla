------------------------------ MODULE EncryptedFile ------------------------------
(***************************************************************************)
(* Streams over a file of enciphered blocks (encryption/aes_fstream.cpp,   *)
(* behind encryption/encrypted_fstream.cpp).  A writer collects a block    *)
(* and enciphers it when more is to come, or when it is closed; the last   *)
(* block is filled up with the number of bytes that are missing, which     *)
(* may be a whole block.  A reader must look one block ahead to know which *)
(* is the last one, and keeps what a read did not want for the next.       *)
(*                                                                         *)
(* One action is one turn of the loop in write or read.                    *)
(***************************************************************************)
EXTENDS Integers, Sequences, SequencesExt

CONSTANTS
    BlockLen,       \* AES_BLOCKLEN
    Base,           \* values of a byte
    Cipher(_),      \* AES_ECB_encrypt with the key of the file
    InvCipher(_)    \* AES_ECB_decrypt with the same key

Bytes == 0 .. Base - 1
Blocks == [1 .. BlockLen -> Bytes]

\* A block is not empty, a byte says how much of it may be missing, and who has the
\* key reads what was enciphered.
ASSUME CipherAssumption ==
    /\ BlockLen \in Nat \ {0}
    /\ Base \in Nat /\ BlockLen < Base
    /\ \A block \in Blocks : InvCipher(Cipher(block)) = block

VARIABLES
    mode,       \* "writing", "closed", "reading": which of the streams is open
    sent,       \* what write was called with so far
    pending,    \* what the write that runs has not looked at
    file,       \* the blocks in the file
    master,     \* m_master: what is collected, or what is left to hand out
    second,     \* m_second: <<>> or the block after master
    at,         \* the blocks that were read from the file
    eof,        \* m_stream.eof()
    want,       \* the size the read that runs was called with, or -1
    buffer,     \* what it has got
    got,        \* what the reads before gave
    answer      \* the last read: <<>> if it threw, or <<size, returned>>

fileVars == <<mode, sent, pending, file, master, second, at, eof, want, buffer, got, answer>>
readerVars == <<second, at, eof, want, buffer, got, answer>>

OpenToWrite ==
    /\ mode = "writing" /\ sent = <<>> /\ pending = <<>> /\ file = <<>>
    /\ master = <<>> /\ second = <<>> /\ at = 0 /\ eof = FALSE
    /\ want = -1 /\ buffer = <<>> /\ got = <<>> /\ answer = <<>>

Writing == mode = "writing" /\ pending # <<>>
CanWrite == mode = "writing" /\ pending = <<>>

-----------------------------------------------------------------------------
\* write(data): its loop begins.
Write(data) ==
    /\ CanWrite
    /\ sent' = sent \o data
    /\ pending' = data
    /\ UNCHANGED <<mode, file, master>> /\ UNCHANGED readerVars

\* What is left fits into the block: it may be full now, and stays.
Collect ==
    /\ Writing
    /\ BlockLen - Len(master) >= Len(pending)
    /\ master' = master \o pending
    /\ pending' = <<>>
    /\ UNCHANGED <<mode, sent, file>> /\ UNCHANGED readerVars

\* It does not: the block is filled and written.
WriteBlock ==
    /\ Writing
    /\ BlockLen - Len(master) < Len(pending)
    /\ LET room == BlockLen - Len(master)
       IN  /\ file' = Append(file, Cipher(master \o SubSeq(pending, 1, room)))
           /\ pending' = SubSeq(pending, room + 1, Len(pending))
    /\ master' = <<>>
    /\ UNCHANGED <<mode, sent>> /\ UNCHANGED readerVars

\* memset(buf, npadding), then what is collected over it
Padded(s) == s \o [i \in 1 .. BlockLen - Len(s) |-> BlockLen - Len(s)]

\* Mistake: a full block is written with nothing behind it.
LastBlocksShort == << Cipher(Padded(master)) >>

\* close: a full block is not the last one.
LastBlocks == IF Len(master) = BlockLen THEN << Cipher(master), Cipher(Padded(<<>>)) >>
                                        ELSE << Cipher(Padded(master)) >>

Close ==
    /\ CanWrite
    /\ file' = file \o LastBlocks
    /\ master' = <<>>
    /\ mode' = "closed"
    /\ UNCHANGED <<sent, pending>> /\ UNCHANGED readerVars

\* A reader is made.
Open ==
    /\ mode = "closed"
    /\ mode' = "reading"
    /\ UNCHANGED <<sent, pending, file, master>> /\ UNCHANGED readerVars

-----------------------------------------------------------------------------
CanRead == mode = "reading" /\ want = -1
Reading == mode = "reading" /\ want # -1

\* read returns buf, and goes on with rest in m_master.
Return(buf, rest) ==
    /\ got' = got \o buf
    /\ answer' = <<want, Len(buf)>>
    /\ want' = -1
    /\ buffer' = <<>>
    /\ master' = rest

\* read(n) finds enough in m_master.
ReadMaster(n) ==
    /\ CanRead
    /\ Len(master) >= n
    /\ got' = got \o SubSeq(master, 1, n)
    /\ master' = SubSeq(master, n + 1, Len(master))
    /\ answer' = <<n, n>>
    /\ UNCHANGED <<mode, sent, pending, file, second, at, eof, want, buffer>>

\* read(n) takes what there is; behind the end of the file that is all.
ReadLast(n) ==
    /\ CanRead
    /\ Len(master) < n
    /\ eof
    /\ got' = got \o master
    /\ answer' = IF master = <<>> THEN <<>> ELSE <<n, Len(master)>>
    /\ master' = <<>>
    /\ UNCHANGED <<mode, sent, pending, file, second, at, eof, want, buffer>>

StartRead(n) ==
    /\ CanRead
    /\ Len(master) < n
    /\ ~eof
    /\ want' = n
    /\ buffer' = master
    /\ master' = <<>>
    /\ UNCHANGED <<mode, sent, pending, file, second, at, eof, got, answer>>

Read(n) == ReadMaster(n) \/ ReadLast(n) \/ StartRead(n)

\* m_stream.read of one block: the file holds whole blocks.
HasMore(k) == k < Len(file)

\* Mistake: the padding is taken off every block.
UnpaddedAlways(block, isLast) == SubSeq(block, 1, BlockLen - block[BlockLen])

\* m_master_datalen, less the padding if it is the last block
Unpadded(block, isLast) == IF isLast THEN SubSeq(block, 1, BlockLen - block[BlockLen]) ELSE block

\* One turn: the block that was read ahead, or the first one, moves to m_master
\* and the next one is read.
ReadBlock ==
    /\ Reading
    /\ second # <<>> \/ HasMore(at)
    /\ LET first  == IF second # <<>> THEN second ELSE InvCipher(file[at + 1])
           next   == IF second # <<>> THEN at ELSE at + 1
           isLast == ~HasMore(next)
           block  == Unpadded(first, isLast)
           needed == want - Len(buffer)
       IN  /\ second' = IF isLast THEN <<>> ELSE InvCipher(file[next + 1])
           /\ at' = IF isLast THEN next ELSE next + 1
           /\ eof' = isLast
           /\ \/ /\ Len(block) >= needed
                 /\ Return(buffer \o SubSeq(block, 1, needed), SubSeq(block, needed + 1, Len(block)))
              \/ /\ Len(block) < needed
                 /\ isLast
                 /\ Return(buffer \o block, <<>>)
              \/ /\ Len(block) < needed
                 /\ ~isLast
                 /\ buffer' = buffer \o block
                 /\ master' = <<>>
                 /\ UNCHANGED <<want, got, answer>>
    /\ UNCHANGED <<mode, sent, pending, file>>

Turn == Collect \/ WriteBlock \/ ReadBlock

-----------------------------------------------------------------------------
\* Whoever writes and reads the file, in pieces of whatever sizes
FileNext ==
    \/ \E data \in Seq(Bytes) : Write(data)
    \/ Close
    \/ Open
    \/ \E n \in Nat : Read(n)
    \/ Turn

FileSpec == OpenToWrite /\ [][FileNext]_fileVars

Stream == INSTANCE Pipe

\* An enciphered file is a pipe: a read gives what it gives when it returns.
IsPipe == Stream!Spec
=============================================================================
