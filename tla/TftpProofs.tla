----------------------------- MODULE TftpProofs -----------------------------
(***************************************************************************)
(* Proofs about TftpClient, for files and blocks of every size, any number *)
(* of block numbers, buffers, sessions of the host and retries, and any    *)
(* number of datagrams lost or duplicated.                                 *)
(***************************************************************************)
EXTENDS TftpClient, TLAPS, SequenceTheorems

\* The bytes of the first k blocks; those of them that a file of n bytes has;
\* and the first n bytes, and block b, of such a file (byte i is written i).
Off(k)      == k * BlockSize
Upto(k, n)  == IF Off(k) < n THEN Off(k) ELSE n
Initial(n)  == [i \in 1 .. n |-> i]
Piece(b, n) == [j \in 1 .. Upto(b, n) - Off(b - 1) |-> Off(b - 1) + j]

Ops      == {"RRQ", "WRQ", "ACK", "DATA", "ERROR"}
Datagram == [to : {"host", "board"}, tid : Tids \cup {0}, op : Ops, block : 0 .. MaxBlock,
             data : Seq(Nat)]
Session  == [st : {"none", "sending", "receiving", "done", "gone"}, blk : 0 .. MaxBlock + 1,
             left : Nat, got : Seq(Nat)]
Causes   == {"OK", "READ_TIMEOUT", "WRITE_TIMEOUT", "DATA_TIMEOUT", "READ_ERROR",
             "WRITE_ERROR", "DATA_ERROR", "FILE_TOO_BIG", "FLASH_ERROR"}
Indices  == 0 .. BufferCount - 1
Sap      == [state : SapStates, dst_port : Tids \cup {0}, block_number : 0 .. MaxBlock,
             retry_left : 0 .. OpenRetry + MaxRetry, error_cause : Causes, bytes_left : Nat,
             read_idx : Indices, write_idx : Indices]
Buffer   == [ctrl : {"EMPTY", "READING", "FULL"}, data : Seq(Nat)]

\* What a datagram under way says of the transfer.
MsgOK(m) ==
    /\ m.op = "RRQ" => mode # "write"
    /\ m.op = "WRQ" => mode = "write"
    /\ m.op = "DATA" =>
        /\ (m.to = "host") <=> (mode = "write")
        /\ m.to = "host" => m.block # 0
        /\ m.block # 0 => Off(m.block - 1) <= size /\ m.data = Piece(m.block, size)
    /\ m.op = "ACK" /\ m.to = "host" => m.block # 0
    /\ m.op = "ACK" /\ m.to = "board" =>
        mode = "write" /\ m.tid \in Tids /\ host[m.tid].blk >= m.block

\* A session of the host sends from the start of the file, or has received that
\* much of it, and is done when it has all of it.
HostOK(h) ==
    /\ h \in Session
    /\ h.st = "none" => h.blk = 0
    /\ h.st = "sending" => mode # "write" /\ h.blk # 0 /\ Off(h.blk - 1) <= size
    /\ h.st = "receiving" => mode = "write"
    /\ mode = "write" =>
        /\ h.blk <= MaxBlock /\ h.got = Initial(Upto(h.blk, size))
        /\ Off(h.blk) > size => h.st = "done"

WireInv ==
    /\ net \subseteq Datagram
    /\ \A m \in net : MsgOK(m)
    /\ DOMAIN host = Tids
    /\ \A t \in Tids : HostOK(host[t])

\* The session's state belongs to the kind of transfer and to its progress.
SapInv ==
    /\ sap \in Sap /\ size \in Nat /\ mode \in {"byte", "block", "write"}
    /\ phase \in {"idle", "opening", "fresh", "polling", "file"}
    /\ phase = "idle" <=> sap.state = "BOUND_TO_UDP"
    /\ phase \in {"opening", "fresh", "polling"} => mode = "byte"
    /\ phase = "file" => mode # "byte"
    /\ sap.state = "ERROR" => sap.error_cause # "OK"
    /\ sap.state \in {"WAIT_FIRST_ACK", "WAIT_NEXT_ACK", "LAST_BLOCK_WRITE"} => mode = "write"
    /\ sap.state \in {"WAIT_FIRST_BLOCK", "WAIT_NEXT_BLOCK", "CONGESTION", "LAST_BLOCK_READ"}
         => mode # "write"
    /\ sap.state = "CONGESTION" => mode = "byte"
    /\ sap.state \in {"WAIT_FIRST_BLOCK", "WAIT_FIRST_ACK"} => sap.block_number = 0
    /\ sap.state \in {"WAIT_NEXT_BLOCK", "CONGESTION"} => sap.block_number # 0
    /\ sap.state = "LAST_BLOCK_READ" => Off(sap.block_number) > size

\* What has been read is a beginning of the file.
StoredInv ==
    mode # "write" => /\ stored \in Seq(Nat) /\ Len(stored) <= size
                      /\ stored = Initial(Len(stored))

\* file_read has stored the blocks up to the one received last.
BlockInv ==
    mode = "block" /\ phase # "idle" =>
        /\ Room = sap.bytes_left + Len(stored)
        /\ sap.state # "ERROR" => Len(stored) = Upto(sap.block_number, size)
        /\ sap.state = "LAST_BLOCK_READ" => acked = sap.block_number

\* A session of the host has what file_write takes for sent.
WriteInv ==
    mode = "write" /\ phase # "idle" =>
        /\ size < Off(MaxBlock) /\ sap.bytes_left <= size
        /\ sap.bytes_left < size =>
             \E t \in Tids : Len(host[t].got) >= size - sap.bytes_left
        /\ sap.state = "WAIT_FIRST_ACK" => sap.bytes_left = size
        /\ sap.state = "WAIT_NEXT_ACK" =>
             /\ sap.block_number # 0 /\ Off(sap.block_number - 1) <= size
             /\ sap.bytes_left = size - Off(sap.block_number - 1)
        /\ sap.state = "LAST_BLOCK_WRITE" =>
             /\ sap.bytes_left = 0
             /\ \E t \in Tids : host[t].st = "done" /\ host[t].got = Initial(size)

\* How many buffers ago buffer i was filled, if it is not empty, w being the
\* one to be filled next.
Back(i, w) == IF i < w THEN w - i ELSE w - i + BufferCount

\* The buffers from the one being read to the one filled last hold the blocks
\* up to number n, and what has been stored ends where the reader is.
Ring(b, r, w, n) ==
    /\ b \in [Indices -> Buffer]
    /\ n # 0 => Off(n - 1) <= size
    /\ \A i \in Indices : b[i].ctrl = "READING" => i = r
    /\ b[r].ctrl = "EMPTY" => r = w /\ \A i \in Indices : b[i].ctrl = "EMPTY"
    /\ b[r].ctrl # "EMPTY" =>
        /\ Back(r, w) <= n
        /\ \A i \in Indices : b[i].ctrl # "EMPTY" <=> Back(i, w) <= Back(r, w)
    /\ \A i \in Indices : b[i].ctrl # "EMPTY" => b[i].data = Piece(n + 1 - Back(i, w), size)

Reader(b, r, w, n, left, len) ==
    /\ left \in Nat /\ len \in Nat
    /\ b[r].ctrl = "EMPTY"   => left = 0 /\ len = Upto(n, size)
    /\ b[r].ctrl = "FULL"    => left = 0 /\ len = Off(n - Back(r, w))
    /\ b[r].ctrl = "READING" => left <= Len(b[r].data)
                                /\ len + left = Upto(n + 1 - Back(r, w), size)

RingInv ==
    mode = "byte" /\ phase # "idle" =>
        /\ Ring(buf, sap.read_idx, sap.write_idx, sap.block_number)
        /\ Reader(buf, sap.read_idx, sap.write_idx, sap.block_number, sap.bytes_left,
                  Len(stored))

IInv == /\ SapInv /\ buf \in [Indices -> Buffer] /\ WireInv /\ StoredInv /\ BlockInv
        /\ WriteInv /\ RingInv /\ CompleteMeansAll /\ ReportedIsTransferred

-----------------------------------------------------------------------------
(* Blocks of a file. *)

LEMMA Sizes ==
  ASSUME TransferAssumption
  PROVE  /\ BlockSize \in Nat /\ BlockSize > 0 /\ MaxBlock \in Nat /\ MaxBlock > 0
         /\ BufferCount \in Nat /\ BufferCount > 0 /\ Room \in Nat
         /\ OpenRetry \in Nat /\ MaxRetry \in Nat /\ HostRetry \in Nat
         /\ Tids \subseteq Nat /\ 0 \notin Tids
BY DEF TransferAssumption

LEMMA Offsets ==
  ASSUME TransferAssumption
  PROVE  /\ Off(0) = 0
         /\ \A k \in Nat : Off(k) \in Nat /\ Off(k + 1) = Off(k) + BlockSize
         /\ \A j, k \in Nat : j <= k => Off(j) <= Off(k)
<1> USE Sizes DEF Off
<1>1. \A k \in Nat : Off(k) \in Nat /\ Off(k + 1) = Off(k) + BlockSize
  OBVIOUS
<1>2. ASSUME NEW j \in Nat, NEW k \in Nat, j <= k PROVE Off(j) <= Off(k)
  <2>1. (k - j) \in Nat /\ k = j + (k - j)
    BY <1>2
  <2>2. (k - j) * BlockSize >= 0
    BY <2>1
  <2>3. k * BlockSize = j * BlockSize + (k - j) * BlockSize
    BY <2>1
  <2> QED BY <2>2, <2>3
<1> QED BY <1>1, <1>2

\* A file is what its first bytes are, up to the last.
LEMMA Initials ==
  ASSUME NEW n \in Nat
  PROVE  /\ Initial(n) \in Seq(Nat) /\ Len(Initial(n)) = n
         /\ \A i \in 1 .. n : Initial(n)[i] = i
         /\ Append(Initial(n), n + 1) = Initial(n + 1)
         /\ Initial(0) = <<>>
<1>1. \A k \in Nat : /\ Initial(k) \in Seq(Nat) /\ Len(Initial(k)) = k
                     /\ \A i \in 1 .. k : Initial(k)[i] = i
  BY DEF Initial
<1>2. Append(Initial(n), n + 1) = Initial(n + 1)
  <2> DEFINE a == Append(Initial(n), n + 1)
  <2>1. /\ a \in Seq(Nat) /\ Len(a) = n + 1
        /\ \A i \in 1 .. n : a[i] = Initial(n)[i]
        /\ a[n + 1] = n + 1
    BY <1>1, AppendProperties
  <2>2. \A i \in 1 .. n + 1 : a[i] = Initial(n + 1)[i]
    BY <1>1, <2>1
  <2> HIDE DEF a
  <2>3. a = Initial(n + 1)
    BY <1>1, <2>1, <2>2, SeqEqual
  <2> QED BY <2>3 DEF a
<1>3. Initial(0) = <<>>
  BY <1>1, EmptySeq
<1> QED BY <1>1, <1>2, <1>3

LEMMA Pieces ==
  ASSUME TransferAssumption, NEW n \in Nat, NEW b \in Nat, b # 0, Off(b - 1) <= n
  PROVE  /\ Piece(b, n) \in Seq(Nat)
         /\ Off(b - 1) \in Nat /\ Upto(b, n) \in Nat
         /\ Off(b - 1) <= Upto(b, n) /\ Upto(b, n) <= n
         /\ Len(Piece(b, n)) = Upto(b, n) - Off(b - 1)
         /\ \A j \in 1 .. Len(Piece(b, n)) : Piece(b, n)[j] = Off(b - 1) + j
         /\ Len(Piece(b, n)) < BlockSize <=> Off(b) > n
         /\ Len(Piece(b, n)) <= BlockSize
         /\ Off(b) <= n => Upto(b, n) = Off(b)
         /\ Upto(b - 1, n) = Off(b - 1)
<1>1. /\ b - 1 \in Nat /\ Off(b - 1) \in Nat /\ Off(b) \in Nat
      /\ Off(b) = Off(b - 1) + BlockSize
  <2>1. b - 1 \in Nat /\ b = (b - 1) + 1
    OBVIOUS
  <2> QED BY <2>1, Offsets
<1>2. /\ Upto(b, n) \in Nat /\ Off(b - 1) <= Upto(b, n) /\ Upto(b, n) <= n
      /\ Off(b) <= n => Upto(b, n) = Off(b)
      /\ Off(b) > n => Upto(b, n) = n
      /\ Upto(b - 1, n) = Off(b - 1)
  BY <1>1, Sizes DEF Upto
<1> DEFINE l == Upto(b, n) - Off(b - 1)
           o == Off(b - 1)
<1>3. l \in Nat /\ o \in Nat
  BY <1>1, <1>2
<1> HIDE DEF l, o
<1>4. /\ [j \in 1 .. l |-> o + j] \in Seq(Nat) /\ Len([j \in 1 .. l |-> o + j]) = l
      /\ \A j \in 1 .. l : [i \in 1 .. l |-> o + i][j] = o + j
  BY <1>3
<1>5. Piece(b, n) = [j \in 1 .. l |-> o + j]
  BY DEF Piece, l, o
<1>6. /\ Piece(b, n) \in Seq(Nat) /\ Len(Piece(b, n)) = l
      /\ \A j \in 1 .. l : Piece(b, n)[j] = o + j
  BY <1>4, <1>5
<1>7. Len(Piece(b, n)) = Upto(b, n) - Off(b - 1)
  BY <1>6 DEF l
<1>8. \A j \in 1 .. Len(Piece(b, n)) : Piece(b, n)[j] = Off(b - 1) + j
  BY <1>6 DEF o
<1>9. Len(Piece(b, n)) < BlockSize <=> Off(b) > n
  <2>1. CASE Off(b) <= n
    BY <2>1, <1>1, <1>2, <1>7, Sizes
  <2>2. CASE Off(b) > n
    BY <2>2, <1>1, <1>2, <1>7, Sizes
  <2> QED BY <2>1, <2>2, <1>1
<1>10. Len(Piece(b, n)) <= BlockSize
  <2>1. Upto(b, n) <= Off(b)
    BY <1>1, <1>2 DEF Upto
  <2> QED BY <2>1, <1>1, <1>2, <1>7, Sizes
<1> QED BY <1>1, <1>2, <1>6, <1>7, <1>8, <1>9, <1>10

\* With the next block a beginning of the file is a longer one.
LEMMA NextPiece ==
  ASSUME TransferAssumption, NEW n \in Nat, NEW b \in Nat, b # 0, Off(b - 1) <= n
  PROVE  Initial(Off(b - 1)) \o Piece(b, n) = Initial(Upto(b, n))
<1> DEFINE s == Initial(Off(b - 1))
           t == Piece(b, n)
           u == Initial(Upto(b, n))
<1>1. /\ s \in Seq(Nat) /\ Len(s) = Off(b - 1) /\ \A i \in 1 .. Len(s) : s[i] = i
      /\ u \in Seq(Nat) /\ Len(u) = Upto(b, n) /\ \A i \in 1 .. Len(u) : u[i] = i
      /\ t \in Seq(Nat) /\ Len(t) = Upto(b, n) - Off(b - 1)
      /\ \A j \in 1 .. Len(t) : t[j] = Off(b - 1) + j
      /\ Off(b - 1) \in Nat /\ Upto(b, n) \in Nat
  BY Initials, Pieces
<1> HIDE DEF s, t, u
<1>2. /\ s \o t \in Seq(Nat) /\ Len(s \o t) = Len(s) + Len(t)
      /\ \A i \in 1 .. Len(s) + Len(t) :
            (s \o t)[i] = IF i <= Len(s) THEN s[i] ELSE t[i - Len(s)]
  BY <1>1, ConcatProperties
<1>3. ASSUME NEW i \in 1 .. Len(s \o t) PROVE (s \o t)[i] = u[i]
  <2>1. i \in 1 .. Len(u) /\ i \in Nat
    BY <1>1, <1>2
  <2>2. i > Len(s) => i - Len(s) \in 1 .. Len(t)
    BY <1>1, <1>2
  <2>3. CASE i <= Len(s)
    BY <1>1, <1>2, <2>1, <2>3
  <2>4. CASE i > Len(s)
    <3>1. (s \o t)[i] = t[i - Len(s)]
      BY <1>1, <1>2, <2>1, <2>4
    <3>2. t[i - Len(s)] = Off(b - 1) + (i - Len(s))
      BY <1>1, <2>2, <2>4
    <3>3. Off(b - 1) + (i - Len(s)) = i
      BY <1>1, <2>1
    <3> QED BY <3>1, <3>2, <3>3, <2>1, <1>1
  <2> QED BY <1>1, <2>1, <2>3, <2>4
<1>4. Len(s \o t) = Len(u)
  BY <1>1, <1>2
<1>5. s \o t = u
  BY <1>1, <1>2, <1>3, <1>4, SeqEqual
<1> QED BY <1>5 DEF s, t, u

\* Any part of a file, and its first bytes.
LEMMA Parts ==
  ASSUME NEW n \in Nat, NEW m \in 0 .. n, NEW k \in m .. n
  PROVE  SubSeq(Initial(n), m + 1, k) = [j \in 1 .. k - m |-> m + j]
<1> DEFINE s == Initial(n)
           l == k - m
           t == [j \in 1 .. l |-> m + j]
           p == SubSeq(s, m + 1, k)
<1>1. s \in Seq(Nat) /\ Len(s) = n /\ \A i \in 1 .. n : s[i] = i
  BY Initials
<1>2. m \in Nat /\ k \in Nat /\ l \in Nat /\ m <= k /\ k <= n
  OBVIOUS
<1> HIDE DEF s
<1>3. m + 1 \in Int /\ k \in Int /\ \A i \in m + 1 .. k : s[i] \in Nat
  BY <1>1, <1>2
<1>4. /\ p \in Seq(Nat) /\ Len(p) = k - (m + 1) + 1
      /\ \A i \in 1 .. k - (m + 1) + 1 : p[i] = s[(m + 1) + i - 1]
  <2>1. /\ p \in Seq(Nat)
        /\ Len(p) = IF m + 1 <= k THEN k - (m + 1) + 1 ELSE 0
        /\ \A i \in 1 .. k - (m + 1) + 1 : p[i] = s[(m + 1) + i - 1]
    BY <1>3, SubSeqProperties
  <2> QED BY <2>1, <1>2
<1>5. k - (m + 1) + 1 = l
  BY <1>2
<1>6. t \in Seq(Nat) /\ Len(t) = l /\ \A i \in 1 .. l : t[i] = m + i
  <2> HIDE DEF l
  <2> QED BY <1>2
<1>7. ASSUME NEW i \in 1 .. l PROVE p[i] = t[i]
  <2>1. p[i] = s[(m + 1) + i - 1]
    BY <1>4, <1>5
  <2>2. (m + 1) + i - 1 = m + i /\ m + i \in 1 .. n
    BY <1>2 DEF l
  <2> QED BY <2>1, <2>2, <1>1, <1>6
<1> HIDE DEF p, t
<1>8. p = t
  BY <1>4, <1>5, <1>6, <1>7, SeqEqual
<1> QED BY <1>8 DEF p, t, s, l

LEMMA FirstBytes ==
  ASSUME NEW n \in Nat, NEW k \in 0 .. n
  PROVE  SubSeq(Initial(n), 1, k) = Initial(k)
<1>1. k \in Nat /\ 0 \in 0 .. n /\ k \in 0 .. n /\ k - 0 = k
  OBVIOUS
<1>2. SubSeq(Initial(n), 0 + 1, k) = [j \in 1 .. k - 0 |-> 0 + j]
  BY <1>1, Parts
<1>3. [j \in 1 .. k |-> 0 + j] = [j \in 1 .. k |-> j]
  OBVIOUS
<1> QED BY <1>1, <1>2, <1>3 DEF Initial

\* The model's blocks, and what file_write has left to send, are these pieces.
LEMMA Blocks ==
  ASSUME TransferAssumption, size \in Nat, NEW b \in Nat, b # 0, Off(b - 1) <= size
  PROVE  /\ Block(b) = Piece(b, size)
         /\ \A s : s.bytes_left = size - Off(b - 1) => Unsent(s) = Piece(b, size)
<1>1. /\ Off(b - 1) \in 0 .. size /\ Upto(b, size) \in Off(b - 1) .. size
      /\ Off(b - 1) \in Nat
  BY Pieces
<1>2. SubSeq(Initial(size), Off(b - 1) + 1, Upto(b, size)) = Piece(b, size)
  BY <1>1, Parts DEF Piece
<1>3. File = Initial(size)
  BY DEF File, Initial
<1>4. Block(b) = Piece(b, size)
  BY <1>2, <1>3 DEF Block, Upto, Off
<1>5. ASSUME NEW s, s.bytes_left = size - Off(b - 1) PROVE Unsent(s) = Piece(b, size)
  <2>1. b - 1 \in Nat /\ b = (b - 1) + 1
    OBVIOUS
  <2>2. Off(b) = Off(b - 1) + BlockSize
    BY <2>1, Offsets
  <2>3. size - s.bytes_left = Off(b - 1)
    BY <1>1, <1>5
  <2>4. s.bytes_left > BlockSize <=> Off(b) < size
    BY <1>1, <1>5, <2>2, Sizes
  <2> QED BY <1>2, <1>3, <2>2, <2>3, <2>4 DEF Unsent, Upto
<1> QED BY <1>4, <1>5

LEMMA Wires ==
  ASSUME TransferAssumption
  PROVE  /\ \A k \in 0 .. MaxBlock : Wire(k) = k
         /\ Wire(MaxBlock + 1) = 0
BY Sizes DEF Wire

-----------------------------------------------------------------------------
(* The ring of buffers *)

LEMMA Backs ==
  ASSUME TransferAssumption, NEW i \in Indices, NEW w \in Indices
  PROVE  /\ Back(i, w) \in Nat /\ Back(i, w) >= 1
         /\ NextBuffer(i) \in Indices
         /\ \A j \in Indices : Back(j, w) = Back(i, w) => j = i
         /\ Back(i, w) = 1 => NextBuffer(i) = w
         /\ Back(i, w) # 1 => NextBuffer(i) # i /\ Back(NextBuffer(i), w) = Back(i, w) - 1
         /\ Back(w, NextBuffer(w)) = 1
         /\ i # w => Back(i, NextBuffer(w)) = Back(i, w) + 1
<1>1. i \in Nat /\ w \in Nat /\ i < BufferCount /\ w < BufferCount
  BY Sizes DEF Indices
<1> QED BY <1>1, Sizes DEF Indices, Back, NextBuffer

\* The buffer being read is released, its bytes all stored.
LEMMA RingReleases ==
  ASSUME TransferAssumption, size \in Nat,
         NEW b, NEW r \in Indices, NEW w \in Indices, NEW n \in Nat, NEW len,
         Ring(b, r, w, n), Reader(b, r, w, n, 0, len), b[r].ctrl = "READING",
         NEW c, c = [b EXCEPT ![r] = [ctrl |-> "EMPTY", data |-> <<>>]]
  PROVE  /\ Ring(c, NextBuffer(r), w, n) /\ Reader(c, NextBuffer(r), w, n, 0, len)
         /\ \A i \in Indices : c[i].ctrl # "READING"
<1> DEFINE q == NextBuffer(r)
<1>1. /\ b \in [Indices -> Buffer]
      /\ n # 0 => Off(n - 1) <= size
      /\ \A i \in Indices : b[i].ctrl = "READING" => i = r
      /\ Back(r, w) <= n
      /\ \A i \in Indices : b[i].ctrl # "EMPTY" <=> Back(i, w) <= Back(r, w)
      /\ \A i \in Indices : b[i].ctrl # "EMPTY" => b[i].data = Piece(n + 1 - Back(i, w), size)
  BY DEF Ring
<1>0. \A i \in Indices : Back(i, w) \in Nat /\ Back(i, w) >= 1
  BY Backs
<1>2. len \in Nat /\ len = Upto(n + 1 - Back(r, w), size)
  <2>1. n + 1 - Back(r, w) \in Nat /\ n + 1 - Back(r, w) # 0
    <3>1. Back(r, w) \in Nat /\ Back(r, w) <= n
      BY <1>0, <1>1
    <3> QED BY <3>1
  <2>2. len \in Nat /\ len + 0 = Upto(n + 1 - Back(r, w), size)
    BY DEF Reader
  <2> QED BY <2>2
<1>3. /\ c[r].ctrl = "EMPTY" /\ \A i \in Indices : i # r => c[i] = b[i]
      /\ c \in [Indices -> Buffer]
  <2>1. [ctrl |-> "EMPTY", data |-> <<>>] \in Buffer
    <3>1. <<>> \in Seq(Nat)
      BY EmptySeq
    <3> QED BY <3>1 DEF Buffer
  <2>2. c \in [Indices -> Buffer]
    BY <1>1, <2>1
  <2>3. c[r].ctrl = "EMPTY" /\ \A i \in Indices : i # r => c[i] = b[i]
    BY <1>1
  <2> QED BY <2>2, <2>3
<1>4. \A i \in Indices : c[i].ctrl # "EMPTY" => b[i].ctrl # "EMPTY" /\ c[i] = b[i]
  BY <1>3
<1>5. \A i \in Indices : c[i].ctrl # "READING"
  BY <1>1, <1>3, <1>4
<1>6. q \in Indices
  BY Backs
<1>7. CASE Back(r, w) = 1
  <2>1. q = w
    BY <1>7, Backs
  <2>2. \A i \in Indices : c[i].ctrl = "EMPTY"
    <3>1. \A i \in Indices : i # r => Back(i, w) > 1
      <4> TAKE i \in Indices
      <4>1. Back(i, w) = Back(r, w) => i = r
        BY Backs
      <4> QED BY <4>1, <1>0, <1>7
    <3>2. \A i \in Indices : i # r => b[i].ctrl = "EMPTY"
      <4> TAKE i \in Indices
      <4>1. b[i].ctrl # "EMPTY" <=> Back(i, w) <= 1
        BY <1>1, <1>7
      <4> QED BY <4>1, <3>1, <1>0
    <3> QED BY <3>2, <1>1, <1>3, <1>7
  <2>3. Ring(c, q, w, n)
    BY <1>1, <1>3, <1>6, <2>1, <2>2 DEF Ring
  <2>4. len = Upto(n, size)
    BY <1>2, <1>7
  <2>5. Reader(c, q, w, n, 0, len)
    BY <1>2, <1>6, <2>2, <2>4 DEF Reader
  <2> QED BY <1>5, <2>3, <2>5
<1>8. CASE Back(r, w) # 1
  <2>1. q # r /\ Back(q, w) = Back(r, w) - 1
    BY <1>8, Backs
  <2>2. Back(r, w) \in Nat /\ Back(q, w) \in Nat /\ Back(r, w) >= 2
    BY <1>8, <1>6, <1>0
  <2>3. \A i \in Indices : c[i].ctrl # "EMPTY" <=> Back(i, w) <= Back(q, w)
    <3> TAKE i \in Indices
    <3>1. CASE i = r
      BY <3>1, <1>3, <2>1, <2>2
    <3>2. CASE i # r
      <4>1. Back(i, w) \in Nat /\ Back(i, w) # Back(r, w)
        BY <3>2, <1>0, Backs
      <4>2. c[i] = b[i]
        BY <3>2, <1>3
      <4>3. b[i].ctrl # "EMPTY" <=> Back(i, w) <= Back(r, w)
        BY <1>1
      <4> QED BY <4>1, <4>2, <4>3, <2>1, <2>2
    <3> QED BY <3>1, <3>2
  <2>4. c[q].ctrl # "EMPTY" /\ c[q].ctrl = "FULL"
    <3>1. c[q].ctrl # "EMPTY"
      BY <2>3, <2>2, <1>6
    <3>2. c[q] \in Buffer
      BY <1>3, <1>6
    <3> QED BY <3>1, <3>2, <1>5, <1>6 DEF Buffer
  <2>5. /\ \A i \in Indices : c[i].ctrl # "EMPTY"
                 => c[i].data = Piece(n + 1 - Back(i, w), size)
        /\ Back(q, w) <= n
    BY <1>1, <1>4, <2>1, <2>2
  <2>6. Ring(c, q, w, n)
    BY <1>1, <1>3, <1>5, <1>6, <2>3, <2>4, <2>5 DEF Ring
  <2>7. len = Off(n - Back(q, w))
    <3>1. n + 1 - Back(r, w) = n - Back(q, w) /\ n - Back(q, w) \in Nat
      BY <2>1, <2>2, <2>5
    <3>2. n # 0 /\ n - 1 \in Nat /\ n - Back(q, w) <= n - 1
      BY <1>1, <2>2, <2>1
    <3>3. Off(n - Back(q, w)) <= size /\ Off(n - Back(q, w)) \in Nat
      <4>1. Off(n - Back(q, w)) <= Off(n - 1) /\ Off(n - 1) <= size
        <5>1. n - Back(q, w) \in Nat /\ n - 1 \in Nat /\ n - Back(q, w) <= n - 1
          BY <3>1, <3>2
        <5>2. Off(n - Back(q, w)) <= Off(n - 1)
          BY <5>1, Offsets
        <5> QED BY <5>2, <1>1, <3>2
      <4>2. Off(n - Back(q, w)) \in Nat /\ Off(n - 1) \in Nat
        BY <3>1, <3>2, Offsets
      <4> QED BY <4>1, <4>2
    <3>4. Upto(n - Back(q, w), size) = Off(n - Back(q, w))
      BY <3>3 DEF Upto
    <3> QED BY <3>1, <3>4, <1>2
  <2>8. Reader(c, q, w, n, 0, len)
    BY <1>2, <2>4, <2>7 DEF Reader
  <2> QED BY <1>5, <2>6, <2>8
<1> QED BY <1>5, <1>7, <1>8

\* The reader goes on to the next full buffer: its first byte, if it has one,
\* is the one that follows what is stored, and without one the file is at its end.
LEMMA RingReads ==
  ASSUME TransferAssumption, size \in Nat,
         NEW b, NEW r \in Indices, NEW w \in Indices, NEW n \in Nat, NEW len,
         Ring(b, r, w, n), Reader(b, r, w, n, 0, len), b[r].ctrl = "FULL",
         NEW c \in [Indices -> Buffer], c[r].ctrl = "READING", c[r].data = b[r].data,
         \A i \in Indices : i # r => c[i] = b[i]
  PROVE  /\ Ring(c, r, w, n) /\ b[r].data \in Seq(Nat)
         /\ b[r].data # <<>> => /\ Len(b[r].data) - 1 \in Nat
                                /\ Reader(c, r, w, n, Len(b[r].data) - 1, len + 1)
                                /\ b[r].data[1] = len + 1
                                /\ len + 1 <= size
         /\ b[r].data = <<>> => Reader(c, r, w, n, 0, len) /\ len = size
<1> DEFINE k == n + 1 - Back(r, w)
           d == b[r].data
<1>1. /\ b \in [Indices -> Buffer]
      /\ n # 0 => Off(n - 1) <= size
      /\ \A i \in Indices : b[i].ctrl = "READING" => i = r
      /\ Back(r, w) <= n
      /\ \A i \in Indices : b[i].ctrl # "EMPTY" <=> Back(i, w) <= Back(r, w)
      /\ \A i \in Indices : b[i].ctrl # "EMPTY" => b[i].data = Piece(n + 1 - Back(i, w), size)
  BY DEF Ring
<1>2. Back(r, w) \in Nat /\ Back(r, w) >= 1
  BY Backs
<1>3. /\ k \in Nat /\ k # 0 /\ n # 0 /\ k - 1 = n - Back(r, w)
      /\ n - 1 \in Nat /\ k - 1 \in Nat /\ k - 1 <= n - 1
  BY <1>1, <1>2
<1>4. Off(k - 1) <= size /\ Off(k - 1) \in Nat
  <2>1. Off(k - 1) <= Off(n - 1) /\ Off(k - 1) \in Nat /\ Off(n - 1) \in Nat
    BY <1>3, Offsets
  <2> QED BY <2>1, <1>1, <1>3
<1>5. d = Piece(k, size)
  BY <1>1
<1>6. len \in Nat /\ len = Off(k - 1)
  BY <1>3 DEF Reader
<1>7. /\ d \in Seq(Nat) /\ Len(d) \in Nat
      /\ Upto(k, size) \in Nat /\ Upto(k, size) <= size
      /\ Len(d) = Upto(k, size) - Off(k - 1)
      /\ \A j \in 1 .. Len(d) : d[j] = Off(k - 1) + j
      /\ Len(d) < BlockSize <=> Off(k) > size
  <2> HIDE DEF k
  <2>1. /\ Piece(k, size) \in Seq(Nat)
        /\ Upto(k, size) \in Nat /\ Upto(k, size) <= size
        /\ Len(Piece(k, size)) = Upto(k, size) - Off(k - 1)
        /\ \A j \in 1 .. Len(Piece(k, size)) : Piece(k, size)[j] = Off(k - 1) + j
        /\ Len(Piece(k, size)) < BlockSize <=> Off(k) > size
    BY <1>3, <1>4, Pieces
  <2> HIDE DEF d
  <2>2. Len(d) \in Nat
    BY <1>5, <2>1
  <2> QED BY <2>1, <2>2, <1>5
<1>8. c \in [Indices -> Buffer] /\ c[r].ctrl = "READING" /\ c[r].data = d
  OBVIOUS
<1>9. \A i \in Indices : /\ c[i].ctrl # "EMPTY" <=> b[i].ctrl # "EMPTY"
                         /\ c[i].data = b[i].data
                         /\ c[i].ctrl = "READING" => i = r
  BY <1>1
<1>10. Ring(c, r, w, n)
  BY <1>1, <1>9 DEF Ring
<1> HIDE DEF d
<1>11. ASSUME d # <<>>
       PROVE  /\ Len(d) - 1 \in Nat /\ Reader(c, r, w, n, Len(d) - 1, len + 1)
              /\ d[1] = len + 1 /\ len + 1 <= size
  <2>1. Len(d) # 0
    BY <1>7, <1>11, EmptySeq
  <2>2. Len(d) - 1 \in Nat /\ 1 \in 1 .. Len(d) /\ Len(d) - 1 <= Len(c[r].data)
    BY <1>7, <1>8, <2>1
  <2>3. d[1] = len + 1
    BY <1>6, <1>7, <2>2
  <2>4. len + 1 + (Len(d) - 1) = Upto(k, size) /\ len + 1 <= size /\ len + 1 \in Nat
    <3>1. /\ Len(d) \in Nat /\ Len(d) >= 1 /\ len \in Nat /\ Upto(k, size) \in Nat
          /\ Len(d) = Upto(k, size) - len /\ Upto(k, size) <= size
      BY <1>6, <1>7, <2>2
    <3> HIDE DEF k
    <3> QED BY <3>1
  <2>5. Reader(c, r, w, n, Len(d) - 1, len + 1)
    BY <1>8, <2>2, <2>4 DEF Reader
  <2> QED BY <2>2, <2>3, <2>4, <2>5
<1>12. ASSUME d = <<>> PROVE Reader(c, r, w, n, 0, len) /\ len = size
  <2>1. Len(d) = 0
    BY <1>12, EmptySeq
  <2>2. Upto(k, size) = len
    BY <1>4, <1>6, <1>7, <2>1
  <2>3. Off(k) > size
    BY <1>7, <2>1, Sizes
  <2>4. Upto(k, size) = size
    BY <1>3, <2>3, Offsets DEF Upto
  <2>5. Reader(c, r, w, n, 0, len)
    <3>1. c[r].ctrl = "READING" /\ 0 <= Len(c[r].data) /\ 0 \in Nat
      BY <1>7, <1>8
    <3>2. len + 0 = Upto(n + 1 - Back(r, w), size)
      BY <2>2, <1>6
    <3> QED BY <3>1, <3>2, <1>6 DEF Reader
  <2> QED BY <2>2, <2>4, <2>5
<1> QED BY <1>7, <1>10, <1>11, <1>12 DEF d

\* A block is put in the empty buffer that is to be filled next.
LEMMA RingFills ==
  ASSUME TransferAssumption, size \in Nat,
         NEW b, NEW r \in Indices, NEW w \in Indices, NEW n \in Nat, NEW left, NEW len,
         Ring(b, r, w, n), Reader(b, r, w, n, left, len), b[w].ctrl = "EMPTY",
         Off(n) <= size,
         NEW c, c = [b EXCEPT ![w] = [ctrl |-> "FULL", data |-> Piece(n + 1, size)]]
  PROVE  Ring(c, r, NextBuffer(w), n + 1) /\ Reader(c, r, NextBuffer(w), n + 1, left, len)
<1> DEFINE x == NextBuffer(w)
           e == [ctrl |-> "FULL", data |-> Piece(n + 1, size)]
<1>1. /\ b \in [Indices -> Buffer]
      /\ n # 0 => Off(n - 1) <= size
      /\ \A i \in Indices : b[i].ctrl = "READING" => i = r
      /\ b[r].ctrl = "EMPTY" => r = w /\ \A i \in Indices : b[i].ctrl = "EMPTY"
      /\ b[r].ctrl # "EMPTY" =>
          /\ Back(r, w) <= n
          /\ \A i \in Indices : b[i].ctrl # "EMPTY" <=> Back(i, w) <= Back(r, w)
      /\ \A i \in Indices : b[i].ctrl # "EMPTY" => b[i].data = Piece(n + 1 - Back(i, w), size)
  BY DEF Ring
<1>2. \A i \in Indices : Back(i, w) \in Nat /\ Back(i, w) >= 1
  BY Backs
<1>3. x \in Indices /\ Back(w, x) = 1 /\ \A i \in Indices : i # w => Back(i, x) = Back(i, w) + 1
  BY Backs
<1>4. n + 1 \in Nat /\ n + 1 # 0 /\ (n + 1) - 1 = n /\ Off((n + 1) - 1) <= size
  OBVIOUS
<1>5. Piece(n + 1, size) \in Seq(Nat) /\ Upto(n, size) = Off(n) /\ Off(n) \in Nat
  <2>1. Piece(n + 1, size) \in Seq(Nat)
    BY <1>4, Pieces
  <2>2. Off(n) \in Nat
    BY Offsets
  <2> QED BY <2>1, <2>2 DEF Upto
<1>6. /\ c \in [Indices -> Buffer] /\ c[w] = e
      /\ \A i \in Indices : i # w => c[i] = b[i]
  <2>1. e \in Buffer
    BY <1>5 DEF Buffer
  <2> QED BY <1>1, <2>1
<1>7. c[w].ctrl = "FULL" /\ c[w].data = Piece(n + 1, size)
  BY <1>6
<1>8. \A i \in Indices : c[i].ctrl = "READING" => i = r
  BY <1>1, <1>6, <1>7
<1> HIDE DEF x
<1>9. \A i \in Indices : c[i].ctrl # "EMPTY" => c[i].data = Piece((n + 1) + 1 - Back(i, x), size)
  <2> SUFFICES ASSUME NEW i \in Indices, c[i].ctrl # "EMPTY"
               PROVE  c[i].data = Piece((n + 1) + 1 - Back(i, x), size)
    OBVIOUS
  <2>1. CASE i = w
    <3>1. (n + 1) + 1 - Back(i, x) = n + 1
      BY <2>1, <1>3
    <3> QED BY <3>1, <2>1, <1>7
  <2>2. CASE i # w
    <3>1. (n + 1) + 1 - Back(i, x) = n + 1 - Back(i, w)
      BY <2>2, <1>2, <1>3
    <3>2. c[i] = b[i]
      BY <2>2, <1>6
    <3> QED BY <3>1, <3>2, <1>1
  <2> QED BY <2>1, <2>2
<1>10. CASE b[r].ctrl = "EMPTY"
  <2>1. r = w /\ \A i \in Indices : i # r => c[i].ctrl = "EMPTY"
    BY <1>1, <1>6, <1>10
  <2>2. \A i \in Indices : c[i].ctrl # "EMPTY" <=> Back(i, x) <= Back(r, x)
    <3> TAKE i \in Indices
    <3>1. CASE i = w
      BY <3>1, <2>1, <1>3, <1>7
    <3>2. CASE i # w
      BY <3>2, <2>1, <1>2, <1>3
    <3> QED BY <3>1, <3>2
  <2>3. Back(r, x) <= n + 1
    BY <2>1, <1>3
  <2>4. Ring(c, r, x, n + 1)
    BY <1>4, <1>6, <1>7, <1>8, <1>9, <2>1, <2>2, <2>3 DEF Ring
  <2>5. left = 0 /\ len = Off(n) /\ left \in Nat /\ len \in Nat
    BY <1>10, <1>5 DEF Reader
  <2>6. (n + 1) - Back(r, x) = n
    BY <2>1, <1>3
  <2>7. Reader(c, r, x, n + 1, left, len)
    BY <1>7, <2>1, <2>5, <2>6 DEF Reader
  <2> QED BY <2>4, <2>7 DEF x
<1>11. CASE b[r].ctrl # "EMPTY"
  <2>1. r # w /\ c[r] = b[r] /\ Back(r, x) = Back(r, w) + 1
    BY <1>11, <1>3, <1>6
  <2>2. \A i \in Indices : c[i].ctrl # "EMPTY" <=> Back(i, x) <= Back(r, x)
    <3> TAKE i \in Indices
    <3>1. CASE i = w
      BY <3>1, <2>1, <1>2, <1>3, <1>7
    <3>2. CASE i # w
      <4>1. c[i] = b[i] /\ Back(i, x) = Back(i, w) + 1
        BY <3>2, <1>3, <1>6
      <4>2. b[i].ctrl # "EMPTY" <=> Back(i, w) <= Back(r, w)
        BY <1>1, <1>11
      <4> QED BY <4>1, <4>2, <2>1, <1>2
    <3> QED BY <3>1, <3>2
  <2>3. Back(r, x) <= n + 1
    BY <2>1, <1>1, <1>2, <1>11
  <2>4. Ring(c, r, x, n + 1)
    BY <1>4, <1>6, <1>8, <1>9, <1>11, <2>1, <2>2, <2>3 DEF Ring
  <2>5. /\ (n + 1) - Back(r, x) = n - Back(r, w)
        /\ (n + 1) + 1 - Back(r, x) = n + 1 - Back(r, w)
    BY <2>1, <1>2
  <2>6. Reader(c, r, x, n + 1, left, len)
    BY <1>11, <2>1, <2>5 DEF Reader
  <2> QED BY <2>4, <2>6 DEF x
<1> QED BY <1>10, <1>11

-----------------------------------------------------------------------------
(* Starting, and the steps that change little *)

LEMMA NoTransfer ==
  ASSUME TransferAssumption
  PROVE  /\ FreeSap \in Sap /\ EmptyBufs \in [Indices -> Buffer]
         /\ NoSession \in Session
         /\ \A i \in Indices : EmptyBufs[i].ctrl = "EMPTY"
         /\ 0 \in Indices /\ Off(0) = 0
         /\ \A n \in Nat : Upto(0, n) = 0 /\ ~ (Off(0) > n)
         /\ <<>> \in Seq(Nat) /\ Len(<<>>) = 0 /\ <<>> = Initial(0)
<1>1. <<>> \in Seq(Nat) /\ Len(<<>>) = 0 /\ <<>> = Initial(0)
  BY Initials, EmptySeq
<1>2. 0 \in Indices
  BY Sizes DEF Indices
<1>3. FreeSap \in Sap
  BY Sizes, <1>2 DEF FreeSap, Sap, SapStates, Causes
<1>4. /\ EmptyBufs \in [Indices -> Buffer]
      /\ \A i \in Indices : EmptyBufs[i].ctrl = "EMPTY"
  <2>1. [ctrl |-> "EMPTY", data |-> <<>>] \in Buffer
    BY <1>1 DEF Buffer
  <2> QED BY <2>1 DEF EmptyBufs, Indices
<1>5. \A n \in Nat : Upto(0, n) = 0 /\ ~ (Off(0) > n)
  BY Offsets DEF Upto
<1>6. NoSession \in Session
  BY <1>1, Sizes DEF NoSession, Session
<1> QED BY <1>1, <1>2, <1>3, <1>4, <1>5, <1>6, Offsets

LEMMA InitIInv == TransferAssumption /\ TransferInit => IInv
<1> SUFFICES ASSUME TransferAssumption, TransferInit PROVE IInv
  OBVIOUS
<1>1. size \in Nat
  BY DEF TransferInit
<1>2. SapInv
  BY <1>1, NoTransfer DEF TransferInit, SapInv, FreeSap
<1>3. WireInv
  <2>1. HostOK(NoSession)
    BY <1>1, NoTransfer, Sizes DEF HostOK, NoSession
  <2> QED BY <2>1 DEF TransferInit, WireInv
<1>4. StoredInv
  BY <1>1, NoTransfer DEF TransferInit, StoredInv
<1>5. buf \in [Indices -> Buffer]
  BY <1>1, NoTransfer DEF TransferInit
<1>6. BlockInv /\ WriteInv /\ RingInv /\ CompleteMeansAll /\ ReportedIsTransferred
  BY DEF TransferInit, BlockInv, WriteInv, RingInv, CompleteMeansAll, ReportedIsTransferred, Ended
<1> QED BY <1>2, <1>3, <1>4, <1>5, <1>6 DEF IInv

\* What the results say is settled when a transfer ends.
LEMMA Running ==
  ASSUME phase' # "idle"
  PROVE  CompleteMeansAll' /\ ReportedIsTransferred'
BY DEF CompleteMeansAll, ReportedIsTransferred, Ended

LEMMA StartStep ==
  ASSUME TransferAssumption, IInv, Start
  PROVE  IInv'
<1> DEFINE Left(m, n) == CASE m = "byte"  -> 0
                           [] m = "block" -> Room
                           [] m = "write" -> n
<1>1. PICK x \in Transfers :
        /\ mode' = x.mode /\ size' = x.size /\ patient' = x.patient /\ losses' = x.losses
        /\ stored' = <<>> /\ acked' = 0
        /\ buf' = EmptyBufs
        /\ host' = [t \in Tids |-> NoSession]
        /\ IF x.mode = "write" /\ x.size > FileMaxSize
           THEN /\ phase' = "idle"
                /\ sap' = FreeSap
                /\ result' = [rc |-> "FILE_TOO_BIG", size |-> 0, none |-> FALSE]
                /\ net' = {}
           ELSE /\ phase' = IF x.mode = "byte" THEN "opening" ELSE "file"
                /\ sap' = [FreeSap EXCEPT
                    !.state = IF x.mode = "write" THEN "WAIT_FIRST_ACK"
                              ELSE "WAIT_FIRST_BLOCK",
                    !.retry_left = OpenRetry,
                    !.bytes_left = Left(x.mode, x.size)]
                /\ net' = {Request'}
                /\ result' = [rc |-> "OK", size |-> 0, none |-> TRUE]
  BY DEF Start
<1>0. \A n : /\ Left("byte", n) = 0
              /\ Left("block", n) = Room
              /\ Left("write", n) = n
  OBVIOUS
<1> HIDE DEF Left
<1>2. mode' \in {"byte", "block", "write"} /\ size' \in Nat
  BY <1>1 DEF TransferAssumption, Transfer
<1>3. buf' \in [Indices -> Buffer] /\ StoredInv'
  BY <1>1, <1>2, NoTransfer DEF StoredInv
<1>4. \A t \in Tids : HostOK(host[t])'
  BY <1>1, <1>2, NoTransfer, Sizes DEF HostOK, NoSession
<1>5. \/ sap' = FreeSap /\ phase' = "idle"
      \/ sap' = [FreeSap EXCEPT
                   !.state = IF x.mode = "write" THEN "WAIT_FIRST_ACK"
                             ELSE "WAIT_FIRST_BLOCK",
                   !.retry_left = OpenRetry, !.bytes_left = Left(x.mode, x.size)]
  BY <1>1
<1>6. /\ sap'.read_idx = 0 /\ sap'.write_idx = 0 /\ sap'.block_number = 0
      /\ mode' = "byte" /\ phase' # "idle" => sap'.bytes_left = 0
  <2>1. CASE sap' = FreeSap /\ phase' = "idle"
    BY <2>1 DEF FreeSap
  <2>2. CASE sap' = [FreeSap EXCEPT
                       !.state = IF x.mode = "write" THEN "WAIT_FIRST_ACK"
                                 ELSE "WAIT_FIRST_BLOCK",
                       !.retry_left = OpenRetry, !.bytes_left = Left(x.mode, x.size)]
    <3>1. mode' = x.mode
      BY <1>1
    <3>2. sap'.bytes_left = Left(x.mode, x.size)
      BY <2>2 DEF FreeSap
    <3>3. sap'.read_idx = 0 /\ sap'.write_idx = 0 /\ sap'.block_number = 0
      BY <2>2 DEF FreeSap
    <3> QED BY <1>0, <3>1, <3>2, <3>3
  <2> QED BY <1>5, <2>1, <2>2
<1>7. RingInv'
  <2> SUFFICES ASSUME mode' = "byte", phase' # "idle"
               PROVE  /\ Ring(buf, sap.read_idx, sap.write_idx, sap.block_number)'
                      /\ Reader(buf, sap.read_idx, sap.write_idx, sap.block_number,
                                sap.bytes_left, Len(stored))'
    BY DEF RingInv
  <2>1. Ring(buf, sap.read_idx, sap.write_idx, sap.block_number)'
    BY <1>1, <1>3, <1>6, NoTransfer DEF Ring
  <2>2. Reader(buf, sap.read_idx, sap.write_idx, sap.block_number, sap.bytes_left,
               Len(stored))'
    BY <1>1, <1>2, <1>6, <1>6, NoTransfer DEF Reader
  <2> QED BY <2>1, <2>2
<1>8. CASE x.mode = "write" /\ x.size > FileMaxSize
  <2>1. /\ phase' = "idle" /\ sap' = FreeSap /\ net' = {}
        /\ result' = [rc |-> "FILE_TOO_BIG", size |-> 0, none |-> FALSE]
    BY <1>1, <1>8
  <2>2. SapInv'
    BY <1>1, <1>2, <2>1, NoTransfer DEF SapInv, FreeSap
  <2>3. WireInv'
    BY <1>1, <1>4, <2>1 DEF WireInv
  <2>4. BlockInv' /\ WriteInv'
    BY <2>1 DEF BlockInv, WriteInv
  <2>5. CompleteMeansAll' /\ ReportedIsTransferred'
    BY <1>1, <1>8, <2>1 DEF CompleteMeansAll, ReportedIsTransferred, Ended
  <2> QED BY <1>3, <1>7, <2>2, <2>3, <2>4, <2>5 DEF IInv
<1>9. CASE ~ (x.mode = "write" /\ x.size > FileMaxSize)
  <2>1. /\ phase' = IF mode' = "byte" THEN "opening" ELSE "file"
        /\ sap' = [FreeSap EXCEPT
                     !.state = IF mode' = "write" THEN "WAIT_FIRST_ACK"
                               ELSE "WAIT_FIRST_BLOCK",
                     !.retry_left = OpenRetry,
                     !.bytes_left = Left(mode', size')]
        /\ net' = {Request'}
    BY <1>1, <1>9
  <2>2. /\ mode' = "byte"  => sap'.bytes_left = 0
        /\ mode' = "block" => sap'.bytes_left = Room
        /\ mode' = "write" => sap'.bytes_left = size'
    BY <1>0, <2>1 DEF FreeSap
  <2>3. /\ sap'.state = IF mode' = "write" THEN "WAIT_FIRST_ACK" ELSE "WAIT_FIRST_BLOCK"
        /\ sap'.retry_left = OpenRetry /\ sap'.error_cause = "OK"
    BY <2>1 DEF FreeSap
  <2>4. sap' \in Sap
    <3>2. sap'.bytes_left \in Nat
      BY <1>2, <2>2, Sizes
    <3>3. OpenRetry \in 0 .. OpenRetry + MaxRetry
      BY Sizes
    <3> DEFINE u == [FreeSap EXCEPT
                       !.state = IF mode' = "write" THEN "WAIT_FIRST_ACK"
                                 ELSE "WAIT_FIRST_BLOCK",
                       !.retry_left = OpenRetry, !.bytes_left = sap'.bytes_left]
    <3>4. sap' = u
      BY <2>1, <2>2 DEF FreeSap
    <3>5. u \in Sap
      BY <3>2, <3>3, NoTransfer DEF Sap, SapStates
    <3> QED BY <3>4, <3>5
  <2>5. SapInv'
    <3>1. /\ sap'.state \in {"WAIT_FIRST_ACK", "WAIT_FIRST_BLOCK"}
          /\ sap'.state = "WAIT_FIRST_ACK" <=> mode' = "write"
          /\ phase' \in {"opening", "file"} /\ (phase' = "opening" <=> mode' = "byte")
      BY <2>1, <2>3
    <3> QED BY <1>2, <1>6, <2>4, <3>1 DEF SapInv
  <2>6. WireInv'
    <3>1. Request' \in Datagram /\ MsgOK(Request)'
      BY Sizes, NoTransfer DEF Request, ToHost, Datagram, Ops, MsgOK
    <3> QED BY <1>1, <1>4, <2>1, <3>1 DEF WireInv
  <2>7. BlockInv'
    BY <1>1, <1>2, <1>6, <2>2, <2>3, NoTransfer, Sizes DEF BlockInv
  <2>8. WriteInv'
    <3> SUFFICES ASSUME mode' = "write" PROVE WriteInv'
      BY DEF WriteInv
    <3>1. sap'.bytes_left = size' /\ sap'.state = "WAIT_FIRST_ACK"
      BY <2>2, <2>3
    <3>2. size' < Off(MaxBlock)
      BY <1>1, <1>2, <1>9, Offsets, Sizes DEF FileMaxSize, Off
    <3> QED BY <1>2, <3>1, <3>2 DEF WriteInv
  <2>9. phase' # "idle"
    BY <2>1
  <2> QED BY <1>3, <1>7, <2>5, <2>6, <2>7, <2>8, <2>9, Running DEF IInv
<1> QED BY <1>8, <1>9

\* The board's datagrams do not disturb the others.
LEMMA BoardSends ==
  ASSUME WireInv, UNCHANGED <<mode, size, host>>,
         NEW out, net' \subseteq net \cup out,
         \A x \in out : x \in Datagram /\ MsgOK(x)
  PROVE  WireInv'
<1>1. net' \subseteq Datagram
  BY DEF WireInv
<1>2. \A m \in net' : MsgOK(m)'
  <2> TAKE m \in net'
  <2>1. MsgOK(m)
    BY DEF WireInv
  <2> QED BY <2>1 DEF MsgOK
<1>3. DOMAIN host' = Tids /\ \A t \in Tids : HostOK(host[t])'
  BY DEF WireInv, HostOK
<1> QED BY <1>1, <1>2, <1>3 DEF WireInv

LEMMA NothingSent ==
  ASSUME WireInv, UNCHANGED <<mode, size, host>>, net' \subseteq net
  PROVE  WireInv'
<1> DEFINE out == {}
<1>1. net' \subseteq net \cup out /\ \A x \in out : x \in Datagram /\ MsgOK(x)
  OBVIOUS
<1> HIDE DEF out
<1> QED BY <1>1, BoardSends

LEMMA Delivered ==
  ASSUME NEW m \in net, NEW s, NEW out, Becomes(m, s, out)
  PROVE  /\ sap' = s /\ net' \subseteq net \cup out
         /\ (\A a \in out : a.op # "ACK") => acked' = acked
         /\ \A n : (\A a \in out : a.block = n) => acked' \in {acked, n}
BY DEF Becomes, Deliver

\* A step of the session that only retries, fails or learns the host's port.
LEMMA QuietStep ==
  ASSUME TransferAssumption, IInv, phase # "idle",
         UNCHANGED <<caller, stored, buf, host>>, WireInv',
         NEW s \in Sap, sap' = s,
         s.block_number = sap.block_number, s.bytes_left = sap.bytes_left,
         s.read_idx = sap.read_idx, s.write_idx = sap.write_idx,
         \/ s.state = sap.state /\ s.error_cause = sap.error_cause
         \/ s.state = "ERROR" /\ s.error_cause # "OK",
         acked' = acked \/ s.state # "LAST_BLOCK_READ"
  PROVE  IInv'
<1>1. UNCHANGED <<phase, mode, size, result, stored, buf, host>>
  BY DEF caller
<1>2. phase' # "idle"
  BY <1>1
<1>3. SapInv'
  BY <1>1 DEF IInv, SapInv
<1>4. StoredInv' /\ buf' \in [Indices -> Buffer]
  BY <1>1 DEF IInv, StoredInv
<1>5. BlockInv'
  BY <1>1 DEF IInv, BlockInv
<1>6. WriteInv'
  BY <1>1 DEF IInv, WriteInv
<1>7. RingInv'
  <2> SUFFICES ASSUME mode = "byte"
               PROVE  /\ Ring(buf, sap.read_idx, sap.write_idx, sap.block_number)'
                      /\ Reader(buf, sap.read_idx, sap.write_idx, sap.block_number,
                                sap.bytes_left, Len(stored))'
    BY <1>1 DEF RingInv
  <2>1. /\ Ring(buf, sap.read_idx, sap.write_idx, sap.block_number)
        /\ Reader(buf, sap.read_idx, sap.write_idx, sap.block_number, sap.bytes_left,
                  Len(stored))
    BY DEF IInv, RingInv
  <2>2. Ring(buf, sap.read_idx, sap.write_idx, sap.block_number)'
    BY <1>1, <2>1 DEF Ring
  <2>3. Reader(buf, sap.read_idx, sap.write_idx, sap.block_number, sap.bytes_left,
               Len(stored))'
    BY <1>1, <2>1 DEF Reader
  <2> QED BY <2>2, <2>3
<1> QED BY <1>2, <1>3, <1>4, <1>5, <1>6, <1>7, Running DEF IInv

\* The caller returns: what it says of the transfer is so.
LEMMA EndStep ==
  ASSUME TransferAssumption, IInv,
         phase' = "idle", sap' = FreeSap, buf' = EmptyBufs,
         UNCHANGED <<mode, size, stored, host>>, WireInv',
         result'.rc = "OK" =>
            IF mode = "write" THEN \E t \in Tids : host[t].st = "done" /\ host[t].got = File
            ELSE stored = File,
         mode = "block" => result'.size = Len(stored),
         mode = "write" => /\ result'.size \in 0 .. size
                           /\ result'.size > 0 =>
                                \E t \in Tids : Len(host[t].got) >= result'.size
  PROVE  IInv'
<1>1. SapInv'
  BY NoTransfer DEF IInv, SapInv, FreeSap
<1>2. buf' \in [Indices -> Buffer] /\ StoredInv'
  BY NoTransfer DEF IInv, StoredInv
<1>3. BlockInv' /\ WriteInv' /\ RingInv'
  BY DEF BlockInv, WriteInv, RingInv
<1>4. CompleteMeansAll'
  <2>1. File' = File
    BY DEF File
  <2> QED BY <2>1 DEF CompleteMeansAll
<1>5. ReportedIsTransferred'
  <2>1. mode' \in {"byte", "block", "write"}
    BY <1>1 DEF SapInv
  <2>2. ASSUME mode = "write", result'.size > 0
        PROVE  \E t \in Tids :
                 /\ Len(host[t].got) >= result'.size
                 /\ SubSeq(host[t].got, 1, result'.size) = SubSeq(File, 1, result'.size)
    <3>1. PICK t \in Tids : Len(host[t].got) >= result'.size
      BY <2>2
    <3> DEFINE k == Upto(host[t].blk, size)
               n == result'.size
    <3>2. host[t].got = Initial(k) /\ host[t].blk \in Nat /\ size \in Nat
      BY <2>2, <3>1, Sizes DEF IInv, SapInv, WireInv, HostOK, Session
    <3>3. k \in Nat /\ n \in Nat /\ n <= size
      <4>1. Off(host[t].blk) \in Nat
        BY <3>2, Offsets
      <4>2. k \in Nat
        BY <3>2, <4>1 DEF Upto
      <4>3. n \in 0 .. size
        BY <2>2
      <4> QED BY <3>2, <4>2, <4>3
    <3> HIDE DEF k, n
    <3>4. n <= k
      BY <3>1, <3>2, <3>3, Initials DEF n
    <3>5. SubSeq(Initial(k), 1, n) = Initial(n) /\ SubSeq(Initial(size), 1, n) = Initial(n)
      <4>1. n \in 0 .. k /\ n \in 0 .. size
        BY <3>3, <3>4
      <4> QED BY <4>1, <3>2, <3>3, FirstBytes
    <3>6. File = Initial(size)
      BY DEF File, Initial
    <3> QED BY <3>1, <3>2, <3>5, <3>6 DEF n
  <2>3. File' = File
    BY DEF File
  <2>4. CASE mode = "byte"
    BY <2>4 DEF ReportedIsTransferred
  <2>5. CASE mode = "block"
    BY <2>5 DEF ReportedIsTransferred
  <2>6. CASE mode = "write"
    BY <2>2, <2>3, <2>6 DEF ReportedIsTransferred
  <2> QED BY <2>1, <2>4, <2>5, <2>6
<1> QED BY <1>1, <1>2, <1>3, <1>4, <1>5 DEF IInv

-----------------------------------------------------------------------------
(* The callers' loops *)

LEMMA FileLoopStep ==
  ASSUME TransferAssumption, IInv, FileLoop
  PROVE  IInv'
<1> DEFINE n == IF mode = "write" THEN size - sap.bytes_left ELSE Room - sap.bytes_left
<1>1. /\ phase = "file" /\ phase' = "idle" /\ sap' = FreeSap /\ buf' = EmptyBufs
      /\ UNCHANGED <<mode, size, stored, net, host>>
      /\ result'.size = n
      /\ \/ sap.state \in {"LAST_BLOCK_READ", "LAST_BLOCK_WRITE"}
         \/ sap.state = "ERROR" /\ result'.rc = sap.error_cause
  BY DEF FileLoop, End
<1>2. /\ mode \in {"block", "write"} /\ size \in Nat /\ sap \in Sap
      /\ sap.bytes_left \in Nat /\ sap.block_number \in Nat
  BY <1>1, Sizes DEF IInv, SapInv, Sap
<1>3. WireInv'
  BY <1>1, NothingSent DEF IInv
<1>4. ASSUME mode = "block" PROVE n = Len(stored)
  <2>1. Room = sap.bytes_left + Len(stored) /\ stored \in Seq(Nat)
    BY <1>1, <1>4 DEF IInv, BlockInv, StoredInv
  <2>2. Len(stored) \in Nat
    BY <2>1
  <2> QED BY <1>2, <1>4, <2>1, <2>2, Sizes
<1>5. ASSUME mode = "write"
      PROVE  /\ n \in 0 .. size
             /\ n > 0 => \E t \in Tids : Len(host[t].got) >= n
  <2>1. /\ sap.bytes_left <= size
        /\ sap.bytes_left < size =>
              \E t \in Tids : Len(host[t].got) >= size - sap.bytes_left
    BY <1>1, <1>5 DEF IInv, WriteInv
  <2> QED BY <1>2, <1>5, <2>1
<1>6. ASSUME result'.rc = "OK"
      PROVE  IF mode = "write" THEN \E t \in Tids : host[t].st = "done" /\ host[t].got = File
             ELSE stored = File
  <2>1. sap.state # "ERROR"
    BY <1>1, <1>6 DEF IInv, SapInv
  <2>2. File = Initial(size)
    BY DEF File, Initial
  <2>3. CASE sap.state = "LAST_BLOCK_WRITE"
    BY <1>1, <2>2, <2>3 DEF IInv, SapInv, WriteInv
  <2>4. CASE sap.state = "LAST_BLOCK_READ"
    <3>1. mode = "block" /\ Off(sap.block_number) > size
      BY <1>2, <2>4 DEF IInv, SapInv
    <3>2. Len(stored) = Upto(sap.block_number, size) /\ stored = Initial(Len(stored))
      BY <1>1, <2>1, <3>1 DEF IInv, BlockInv, StoredInv
    <3>3. Off(sap.block_number) \in Nat
      BY <1>2, Offsets
    <3>4. Upto(sap.block_number, size) = size
      BY <1>2, <3>1, <3>3 DEF Upto
    <3> QED BY <2>2, <3>1, <3>2, <3>4
  <2> QED BY <1>1, <2>1, <2>3, <2>4
<1> HIDE DEF n
<1> QED BY <1>1, <1>3, <1>4, <1>5, <1>6, EndStep

LEMMA OpenedStep ==
  ASSUME TransferAssumption, IInv, Opened
  PROVE  IInv'
<1>1. phase = "opening" /\ sap.state # "WAIT_FIRST_BLOCK" /\ mode = "byte"
  BY DEF Opened, IInv, SapInv
<1>2. CASE sap.state = "ERROR"
  <2>1. /\ phase' = "idle" /\ sap' = FreeSap /\ buf' = EmptyBufs
        /\ UNCHANGED <<mode, size, stored, net, host>>
        /\ result'.rc = sap.error_cause
    BY <1>2 DEF Opened, End
  <2>2. result'.rc # "OK"
    BY <1>2, <2>1 DEF IInv, SapInv
  <2>3. WireInv'
    BY <2>1, NothingSent DEF IInv
  <2> QED BY <1>1, <2>1, <2>2, <2>3, EndStep
<1>3. CASE sap.state # "ERROR"
  <2>1. phase' = "fresh" /\ UNCHANGED <<mode, size, sap, buf, stored, acked, net, host>>
    BY <1>3 DEF Opened
  <2>2. SapInv'
    BY <1>1, <2>1 DEF IInv, SapInv
  <2>3. WireInv'
    BY <2>1, NothingSent DEF IInv
  <2>4. StoredInv' /\ buf' \in [Indices -> Buffer]
    BY <2>1 DEF IInv, StoredInv
  <2>5. BlockInv' /\ WriteInv'
    BY <1>1, <2>1 DEF BlockInv, WriteInv
  <2>6. RingInv'
    BY <1>1, <2>1 DEF IInv, RingInv, Ring, Reader
  <2>7. phase' # "idle"
    BY <2>1
  <2> QED BY <2>2, <2>3, <2>4, <2>5, <2>6, <2>7, Running DEF IInv
<1> QED BY <1>2, <1>3

LEMMA UserBreakStep ==
  ASSUME TransferAssumption, IInv, UserBreak
  PROVE  IInv'
<1>1. /\ phase' = "idle" /\ sap' = FreeSap /\ buf' = EmptyBufs
      /\ UNCHANGED <<mode, size, stored, net, host>>
      /\ result'.rc = "USER_BREAK" /\ mode = "byte"
  BY DEF UserBreak, End, IInv, SapInv
<1>2. WireInv'
  BY <1>1, NothingSent DEF IInv
<1> QED BY <1>1, <1>2, EndStep

\* readbyte hands on the byte that follows what is stored.
LEMMA ReadNextStep ==
  ASSUME TransferAssumption, IInv, ReadNext
  PROVE  IInv'
<1> DEFINE r == sap.read_idx
           w == sap.write_idx
           n == sap.block_number
           left == sap.bytes_left
           d == buf[r].data
           k == n + 1 - Back(r, w)
           len == Len(stored)
           v == d[Len(d) - left + 1]
<1>1. /\ phase \in {"fresh", "polling"} /\ left > 0 /\ stored' = Append(stored, v)
      /\ sap' = [sap EXCEPT !.bytes_left = @ - 1] /\ phase' = "fresh"
      /\ UNCHANGED <<mode, size, result, buf, net, host>>
  BY DEF ReadNext
<1>2. /\ mode = "byte" /\ sap \in Sap /\ size \in Nat
      /\ r \in Indices /\ w \in Indices /\ n \in Nat /\ left \in Nat
  BY <1>1, Sizes DEF IInv, SapInv, Sap
<1>3. Ring(buf, r, w, n) /\ Reader(buf, r, w, n, left, len)
  BY <1>1, <1>2 DEF IInv, RingInv
<1>4. buf[r].ctrl = "READING"
  <2>1. buf[r].ctrl \in {"EMPTY", "READING", "FULL"}
    BY <1>2, <1>3 DEF Ring, Buffer
  <2>2. left # 0
    BY <1>1, <1>2
  <2> QED BY <2>1, <2>2, <1>3 DEF Reader
<1>5. left <= Len(d) /\ len + left = Upto(k, size) /\ len \in Nat
  BY <1>3, <1>4 DEF Reader
<1>6. d = Piece(k, size) /\ Back(r, w) <= n /\ (n # 0 => Off(n - 1) <= size)
  BY <1>2, <1>3, <1>4 DEF Ring
<1>7. /\ k \in Nat /\ k # 0 /\ k - 1 \in Nat /\ n - 1 \in Nat /\ n # 0
      /\ k - 1 <= n - 1
  <2>1. Back(r, w) \in Nat /\ Back(r, w) >= 1
    BY <1>2, Backs
  <2> QED BY <1>2, <1>6, <2>1
<1> HIDE DEF k
<1>8. Off(k - 1) <= size /\ Off(k - 1) \in Nat
  <2>1. Off(k - 1) \in Nat /\ Off(n - 1) \in Nat /\ Off(k - 1) <= Off(n - 1)
    BY <1>7, Offsets
  <2> QED BY <2>1, <1>2, <1>6, <1>7
<1>9. /\ Piece(k, size) \in Seq(Nat)
      /\ Upto(k, size) \in Nat /\ Upto(k, size) <= size
      /\ Len(Piece(k, size)) = Upto(k, size) - Off(k - 1)
      /\ \A j \in 1 .. Len(Piece(k, size)) : Piece(k, size)[j] = Off(k - 1) + j
  BY <1>2, <1>7, <1>8, Pieces
<1> HIDE DEF d
<1>10. Len(d) \in Nat /\ Len(d) = Upto(k, size) - Off(k - 1)
       /\ \A j \in 1 .. Len(d) : d[j] = Off(k - 1) + j
  BY <1>6, <1>9
<1> HIDE DEF left, len
<1>11. v = len + 1
  <2>1. Len(d) - left + 1 \in 1 .. Len(d)
    BY <1>1, <1>2, <1>5, <1>10
  <2>2. v = Off(k - 1) + (Len(d) - left + 1)
    BY <1>10, <2>1
  <2> QED BY <1>2, <1>5, <1>8, <1>9, <1>10, <2>2
<1>12. stored \in Seq(Nat) /\ stored = Initial(len) /\ len <= size
  BY <1>2 DEF IInv, StoredInv, len
<1>13. stored' = Initial(len + 1)
  BY <1>1, <1>5, <1>11, <1>12, Initials
<1>14. len + 1 <= size /\ len + 1 \in Nat /\ (len + 1) + (left - 1) = Upto(k, size)
       /\ left - 1 \in Nat /\ left - 1 <= Len(d)
  <2>1. left \in Nat /\ left > 0 /\ len \in Nat /\ left <= Len(d) /\ Len(d) \in Nat
    BY <1>1, <1>2, <1>5, <1>10
  <2>2. len + left = Upto(k, size) /\ Upto(k, size) <= size /\ size \in Nat
    BY <1>2, <1>5, <1>9
  <2> QED BY <2>1, <2>2
<1>15. stored' \in Seq(Nat) /\ Len(stored') = len + 1
  BY <1>13, <1>14, Initials
<1>16. sap' \in Sap /\ sap'.bytes_left = left - 1
  <2>1. sap'.bytes_left = left - 1
    BY <1>1, <1>2 DEF Sap, left
  <2>2. sap' = [sap EXCEPT !.bytes_left = left - 1]
    BY <1>1 DEF left
  <2> QED BY <1>2, <1>14, <2>1, <2>2 DEF Sap
<1>17. /\ sap'.state = sap.state /\ sap'.error_cause = sap.error_cause
       /\ sap'.block_number = n /\ sap'.read_idx = r /\ sap'.write_idx = w
  BY <1>1, <1>2 DEF Sap
<1>18. SapInv'
  BY <1>1, <1>2, <1>16, <1>17 DEF IInv, SapInv
<1>19. StoredInv' /\ buf' \in [Indices -> Buffer]
  BY <1>1, <1>2, <1>13, <1>14, <1>15 DEF IInv, StoredInv
<1>20. BlockInv' /\ WriteInv'
  BY <1>1, <1>2 DEF BlockInv, WriteInv
<1>21. RingInv'
  <2>1. Ring(buf, sap.read_idx, sap.write_idx, sap.block_number)'
    BY <1>1, <1>3, <1>17 DEF Ring
  <2>2. Reader(buf, sap.read_idx, sap.write_idx, sap.block_number, sap.bytes_left,
               Len(stored))'
    <3>1. left - 1 <= Len(buf'[r].data)
      BY <1>1, <1>14 DEF d
    <3>2. (len + 1) + (left - 1) = Upto(n + 1 - Back(r, w), size')
      BY <1>1, <1>14 DEF k
    <3> QED BY <1>1, <1>4, <1>14, <1>15, <1>16, <1>17, <3>1, <3>2 DEF Reader
  <2> QED BY <2>1, <2>2 DEF RingInv
<1>22. WireInv'
  BY <1>1, NothingSent DEF IInv
<1>23. phase' # "idle"
  BY <1>1
<1> QED BY <1>18, <1>19, <1>20, <1>21, <1>22, <1>23, Running DEF IInv

\* readbyte finds no byte left of the buffer it reads.
LEMMA ReadRefillStep ==
  ASSUME TransferAssumption, IInv, ReadRefill
  PROVE  IInv'
<1> DEFINE r == ReadIndex
           c == Released
           w == sap.write_idx
           n == sap.block_number
           len == Len(stored)
           full == c[r].ctrl = "FULL"
           d == c[r].data
           b == IF full THEN [c EXCEPT ![r].ctrl = "READING"] ELSE c
           late == sap.state = "CONGESTION"
           s0 == [sap EXCEPT !.read_idx = r,
                             !.bytes_left = IF full /\ d # <<>> THEN Len(d) - 1 ELSE 0]
           s == IF late THEN Rearmed(s0, "WAIT_NEXT_BLOCK") ELSE s0
<1>1. /\ phase \in {"fresh", "polling"} /\ sap.bytes_left = 0
      /\ net' = IF late THEN net \cup {AckMsg(s)} ELSE net
      /\ IF full /\ d # <<>>
         THEN /\ stored' = Append(stored, d[1])
              /\ phase' = "fresh" /\ sap' = s /\ buf' = b
              /\ UNCHANGED <<mode, size, patient, result>>
         ELSE /\ CallerAfter(NoByte, s, b)
              /\ UNCHANGED stored
      /\ UNCHANGED <<losses, host>>
  BY DEF ReadRefill
<1>2. /\ mode = "byte" /\ sap \in Sap /\ size \in Nat /\ size' = size /\ mode' = mode
      /\ sap.read_idx \in Indices /\ w \in Indices /\ n \in Nat /\ len \in Nat
      /\ stored \in Seq(Nat) /\ stored = Initial(len) /\ len <= size
  <2>1. mode = "byte" /\ sap \in Sap /\ size \in Nat /\ stored \in Seq(Nat)
    BY <1>1 DEF IInv, SapInv, StoredInv
  <2>2. size' = size /\ mode' = mode
    BY <1>1 DEF CallerAfter
  <2>3. stored = Initial(len) /\ len <= size
    BY <2>1 DEF IInv, StoredInv
  <2> QED BY <2>1, <2>2, <2>3, Sizes DEF Sap
<1>3. Ring(buf, sap.read_idx, w, n) /\ Reader(buf, sap.read_idx, w, n, 0, len)
  BY <1>1, <1>2 DEF IInv, RingInv
<1>4. /\ r \in Indices /\ Ring(c, r, w, n) /\ Reader(c, r, w, n, 0, len)
      /\ c[r].ctrl # "READING"
  <2>1. CASE Finished
    <3>1. r = NextBuffer(sap.read_idx)
      BY <2>1 DEF ReadIndex
    <3>2. c = [buf EXCEPT ![sap.read_idx] = [ctrl |-> "EMPTY", data |-> <<>>]]
      BY <2>1 DEF Released
    <3>3. buf[sap.read_idx].ctrl = "READING"
      BY <2>1 DEF Finished
    <3>4. r \in Indices
      BY <1>2, <3>1, Backs
    <3> HIDE DEF c, r, w, n, len
    <3>5. /\ Ring(c, r, w, n) /\ Reader(c, r, w, n, 0, len)
          /\ \A i \in Indices : c[i].ctrl # "READING"
      BY <1>2, <1>3, <3>1, <3>2, <3>3, RingReleases
    <3> QED BY <3>4, <3>5
  <2>2. CASE ~Finished
    BY <1>2, <1>3, <2>2 DEF Finished, ReadIndex, Released
  <2> QED BY <2>1, <2>2
<1> HIDE DEF r, c
<1>5. c \in [Indices -> Buffer] /\ c[r].ctrl \in {"EMPTY", "FULL"}
  BY <1>4 DEF Ring, Buffer
<1>6. ASSUME full
      PROVE  /\ b = [c EXCEPT ![r].ctrl = "READING"]
             /\ Ring(b, r, w, n) /\ d \in Seq(Nat)
             /\ d # <<>> => /\ Len(d) - 1 \in Nat
                            /\ Reader(b, r, w, n, Len(d) - 1, len + 1)
                            /\ d[1] = len + 1 /\ len + 1 <= size
             /\ d = <<>> => Reader(b, r, w, n, 0, len) /\ len = size
  <2>1. b = [c EXCEPT ![r].ctrl = "READING"] /\ c[r].ctrl = "FULL"
    BY <1>6
  <2>3. /\ b \in [Indices -> Buffer] /\ b[r].ctrl = "READING" /\ b[r].data = c[r].data
        /\ \A i \in Indices : i # r => b[i] = c[i]
    <3>1. [c[r] EXCEPT !.ctrl = "READING"] \in Buffer
      BY <1>4, <1>5 DEF Buffer
    <3> QED BY <1>4, <1>5, <2>1, <3>1 DEF Buffer
  <2> HIDE DEF b, w, n, len
  <2>2. /\ Ring(b, r, w, n) /\ c[r].data \in Seq(Nat)
        /\ c[r].data # <<>> => /\ Len(c[r].data) - 1 \in Nat
                               /\ Reader(b, r, w, n, Len(c[r].data) - 1, len + 1)
                               /\ c[r].data[1] = len + 1
                               /\ len + 1 <= size
        /\ c[r].data = <<>> => Reader(b, r, w, n, 0, len) /\ len = size
    <3>1. /\ size \in Nat /\ r \in Indices /\ w \in Indices /\ n \in Nat
          /\ Ring(c, r, w, n) /\ Reader(c, r, w, n, 0, len) /\ c[r].ctrl = "FULL"
          /\ b \in [Indices -> Buffer] /\ b[r].ctrl = "READING" /\ b[r].data = c[r].data
          /\ \A i \in Indices : i # r => b[i] = c[i]
      BY <1>2, <1>4, <2>1, <2>3
    <3> HIDE DEF full, d, late, s0, s
    <3>2. Ring(b, r, w, n)
      BY <3>1, RingReads
    <3>3. c[r].data \in Seq(Nat)
      BY <3>1, RingReads
    <3> QED BY <3>1, RingReads
  <2> QED BY <2>1, <2>2
<1>7. ASSUME ~full
      PROVE  /\ b = c /\ Ring(b, r, w, n) /\ Reader(b, r, w, n, 0, len)
             /\ c[r].ctrl = "EMPTY"
  BY <1>4, <1>5, <1>7
<1> DEFINE left == IF full /\ d # <<>> THEN Len(d) - 1 ELSE 0
           newlen == IF full /\ d # <<>> THEN len + 1 ELSE len
<1>8. /\ Ring(b, r, w, n) /\ Reader(b, r, w, n, left, newlen) /\ left \in Nat
      /\ newlen \in Nat /\ newlen <= size
      /\ full /\ d # <<>> => d[1] = len + 1
  BY <1>2, <1>6, <1>7
<1> HIDE DEF full, d, b, left
<1>9. /\ s \in Sap
      /\ s.state = IF late THEN "WAIT_NEXT_BLOCK" ELSE sap.state
      /\ s.error_cause = sap.error_cause
      /\ s.read_idx = r /\ s.write_idx = w /\ s.block_number = n
      /\ s.bytes_left = left /\ s.dst_port = sap.dst_port
  <2>1. s0 = [sap EXCEPT !.read_idx = r, !.bytes_left = left]
    BY DEF left
  <2>2. /\ s0 \in Sap /\ s0.state = sap.state /\ s0.error_cause = sap.error_cause
        /\ s0.read_idx = r /\ s0.write_idx = w /\ s0.block_number = n
        /\ s0.bytes_left = left /\ s0.dst_port = sap.dst_port
    BY <1>2, <1>4, <1>8, <2>1 DEF Sap
  <2> HIDE DEF s0, left, r
  <2>3. MaxRetry \in 0 .. OpenRetry + MaxRetry
    BY Sizes
  <2> QED BY <2>2, <2>3 DEF Rearmed, Sap, SapStates
<1> HIDE DEF s0, s
<1>10. WireInv'
  <2>1. CASE late
    <3>1. net' = net \cup {AckMsg(s)}
      BY <1>1, <2>1
    <3>2. n # 0
      BY <2>1 DEF IInv, SapInv
    <3>3. AckMsg(s) \in Datagram /\ MsgOK(AckMsg(s))
      <4>1. /\ AckMsg(s).to = "host" /\ AckMsg(s).op = "ACK" /\ AckMsg(s).block = n
            /\ AckMsg(s) = [to |-> "host", tid |-> sap.dst_port, op |-> "ACK",
                            block |-> n, data |-> <<>>]
        BY <1>9 DEF AckMsg, ToHost
      <4>2. sap.dst_port \in Tids \cup {0} /\ n \in 0 .. MaxBlock /\ <<>> \in Seq(Nat)
        BY <1>2, NoTransfer DEF Sap
      <4>3. AckMsg(s) \in Datagram
        BY <4>1, <4>2 DEF Datagram, Ops
      <4> QED BY <4>1, <4>3, <3>2 DEF MsgOK
    <3> DEFINE out == {AckMsg(s)}
    <3>4. net' \subseteq net \cup out /\ \A x \in out : x \in Datagram /\ MsgOK(x)
      BY <3>1, <3>3
    <3> HIDE DEF out
    <3> QED BY <1>1, <1>2, <3>4, BoardSends DEF IInv
  <2>2. CASE ~late
    <3>1. net' \subseteq net
      BY <1>1, <2>2
    <3> QED BY <1>1, <1>2, <3>1, NothingSent DEF IInv
  <2> QED BY <2>1, <2>2
\* The transfer goes on.
<1>11. ASSUME phase' \in {"fresh", "polling"}, sap' = s, buf' = b,
              stored' = Initial(newlen), Len(stored') = newlen, stored' \in Seq(Nat)
       PROVE  IInv'
  <2>1. SapInv'
    <3>1. late => n # 0
      BY DEF IInv, SapInv
    <3> QED BY <1>1, <1>2, <1>9, <1>11, <3>1 DEF IInv, SapInv
  <2>2. StoredInv' /\ buf' \in [Indices -> Buffer]
    BY <1>2, <1>8, <1>11 DEF StoredInv, Ring
  <2>3. BlockInv' /\ WriteInv'
    BY <1>2 DEF BlockInv, WriteInv
  <2>4. RingInv'
    <3>1. Ring(buf, sap.read_idx, sap.write_idx, sap.block_number)'
      BY <1>2, <1>8, <1>9, <1>11 DEF Ring
    <3>2. Reader(buf, sap.read_idx, sap.write_idx, sap.block_number, sap.bytes_left,
                 Len(stored))'
      BY <1>2, <1>8, <1>9, <1>11 DEF Reader
    <3> QED BY <3>1, <3>2 DEF RingInv
  <2>5. phase' # "idle"
    BY <1>11
  <2> QED BY <1>10, <2>1, <2>2, <2>3, <2>4, <2>5, Running DEF IInv
<1>12. CASE full /\ d # <<>>
  <2>1. newlen = len + 1 /\ stored' = Append(stored, len + 1)
    BY <1>1, <1>8, <1>12
  <2>2. stored' = Initial(newlen) /\ Len(stored') = newlen /\ stored' \in Seq(Nat)
    <3>1. stored' = Initial(len + 1)
      BY <1>2, <2>1, Initials
    <3>2. len + 1 \in Nat
      BY <1>2
    <3> QED BY <2>1, <3>1, <3>2, Initials
  <2> QED BY <1>1, <1>11, <1>12, <2>2
<1>13. CASE ~(full /\ d # <<>>)
  <2>1. newlen = len /\ stored' = stored /\ CallerAfter(NoByte, s, b)
    BY <1>1, <1>13
  <2>2. CASE NoByte = "NO_DATA" \/ phase = "fresh"
    <3>1. phase' = "polling" /\ sap' = s /\ buf' = b
      BY <2>1, <2>2 DEF CallerAfter
    <3> QED BY <1>2, <1>11, <2>1, <3>1
  <2>3. CASE ~(NoByte = "NO_DATA" \/ phase = "fresh")
    <3>1. /\ phase' = "idle" /\ sap' = FreeSap /\ buf' = EmptyBufs
          /\ result' = [none |-> FALSE, size |-> Len(stored),
                        rc |-> IF NoByte = "EOF" THEN "OK" ELSE s.error_cause]
      BY <2>1, <2>3 DEF CallerAfter
    <3>2. NoByte = IF c[r].ctrl # "EMPTY"
                   THEN IF c[r].ctrl = "FULL" THEN "EOF" ELSE "NO_DATA"
                   ELSE CASE sap.state = "LAST_BLOCK_READ" -> "EOF"
                          [] sap.state = "ERROR"           -> "SAP_ERROR_STATE"
                          [] OTHER                         -> "NO_DATA"
      BY DEF NoByte, c, r
    <3>3. \/ full /\ NoByte = "EOF"
          \/ ~full /\ sap.state = "LAST_BLOCK_READ" /\ NoByte = "EOF"
          \/ ~full /\ sap.state = "ERROR" /\ NoByte = "SAP_ERROR_STATE"
      <4>1. CASE c[r].ctrl = "FULL"
        BY <3>2, <4>1 DEF full
      <4>2. CASE c[r].ctrl = "EMPTY" /\ sap.state = "LAST_BLOCK_READ"
        BY <3>2, <4>2 DEF full
      <4>3. CASE c[r].ctrl = "EMPTY" /\ sap.state = "ERROR"
        BY <3>2, <4>3 DEF full
      <4>4. CASE c[r].ctrl = "EMPTY" /\ sap.state \notin {"LAST_BLOCK_READ", "ERROR"}
        BY <2>3, <3>2, <4>4
      <4> QED BY <1>5, <4>1, <4>2, <4>3, <4>4
    <3>4. ASSUME result'.rc = "OK" PROVE stored = File
      <4>1. File = Initial(size)
        BY DEF File, Initial
      <4>2. CASE full
        BY <1>2, <1>6, <1>13, <4>1, <4>2
      <4>3. CASE ~full /\ sap.state = "LAST_BLOCK_READ"
        <5>1. len = Upto(n, size)
          BY <1>7, <4>3 DEF Reader
        <5>2. Off(n) > size /\ Off(n) \in Nat
          BY <1>2, <4>3, Offsets DEF IInv, SapInv
        <5>3. Upto(n, size) = size
          BY <1>2, <5>2 DEF Upto
        <5> QED BY <1>2, <4>1, <5>1, <5>3
      <4>4. CASE ~full /\ sap.state = "ERROR" /\ NoByte = "SAP_ERROR_STATE"
        <5>1. s.error_cause # "OK"
          BY <1>9, <4>4 DEF IInv, SapInv
        <5> QED BY <3>1, <3>4, <4>4, <5>1
      <4> QED BY <3>3, <4>2, <4>3, <4>4
    <3> QED BY <1>1, <1>2, <1>10, <2>1, <3>1, <3>4, EndStep
  <2> QED BY <2>2, <2>3
<1> QED BY <1>12, <1>13

-----------------------------------------------------------------------------
(* Timeouts and what is received *)

\* What the board sends of its own accord, in a state where it may.
LEMMA BoardMessages ==
  ASSUME TransferAssumption, SapInv, NEW s \in Sap
  PROVE  /\ Request \in Datagram /\ MsgOK(Request)
         /\ \A t \in Tids \cup {0} :
              [Request EXCEPT !.tid = t] \in Datagram /\ MsgOK([Request EXCEPT !.tid = t])
         /\ s.block_number # 0 => AckMsg(s) \in Datagram /\ MsgOK(AckMsg(s))
         /\ mode = "write" /\ s.block_number # 0 /\ Off(s.block_number - 1) <= size
            /\ s.bytes_left = size - Off(s.block_number - 1)
              => DataMsg(s) \in Datagram /\ MsgOK(DataMsg(s))
         /\ \A m \in Datagram : UnknownTID(m) \in Datagram /\ MsgOK(UnknownTID(m))
<1>1. /\ s.dst_port \in Tids \cup {0} /\ s.block_number \in 0 .. MaxBlock
      /\ <<>> \in Seq(Nat) /\ size \in Nat /\ s.block_number \in Nat /\ 0 \in 0 .. MaxBlock
  BY NoTransfer, Sizes DEF Sap, SapInv
<1>2. ASSUME NEW t \in Tids \cup {0}
      PROVE  [Request EXCEPT !.tid = t] \in Datagram /\ MsgOK([Request EXCEPT !.tid = t])
  <2> DEFINE q == [Request EXCEPT !.tid = t]
  <2>1. q = [to |-> "host", tid |-> t, op |-> IF mode = "write" THEN "WRQ" ELSE "RRQ",
             block |-> 0, data |-> <<>>]
    BY DEF Request, ToHost
  <2> HIDE DEF q
  <2>2. q \in Datagram
    BY <1>1, <2>1 DEF Datagram, Ops
  <2>3. MsgOK(q)
    BY <2>1 DEF MsgOK
  <2> QED BY <2>2, <2>3 DEF q
<1>3. Request \in Datagram /\ MsgOK(Request)
  BY <1>1 DEF Request, ToHost, Datagram, Ops, MsgOK
<1>4. ASSUME s.block_number # 0 PROVE AckMsg(s) \in Datagram /\ MsgOK(AckMsg(s))
  BY <1>1, <1>4 DEF AckMsg, ToHost, Datagram, Ops, MsgOK
<1>5. ASSUME mode = "write", s.block_number # 0, Off(s.block_number - 1) <= size,
             s.bytes_left = size - Off(s.block_number - 1)
      PROVE  DataMsg(s) \in Datagram /\ MsgOK(DataMsg(s))
  <2>1. Unsent(s) = Piece(s.block_number, size) /\ Piece(s.block_number, size) \in Seq(Nat)
    BY <1>1, <1>5, Blocks, Pieces
  <2>2. DataMsg(s) = [to |-> "host", tid |-> s.dst_port, op |-> "DATA",
                      block |-> s.block_number, data |-> Piece(s.block_number, size)]
    BY <2>1 DEF DataMsg, ToHost
  <2> QED BY <1>1, <1>5, <2>1, <2>2 DEF Datagram, Ops, MsgOK
<1>6. \A m \in Datagram : UnknownTID(m) \in Datagram /\ MsgOK(UnknownTID(m))
  BY <1>1 DEF UnknownTID, ToHost, Datagram, Ops, MsgOK
<1> QED BY <1>2, <1>3, <1>4, <1>5, <1>6

LEMMA SendsOne ==
  ASSUME WireInv, UNCHANGED <<mode, size, host>>,
         NEW x \in Datagram, MsgOK(x), net' \subseteq net \cup {x}
  PROVE  WireInv'
<1> DEFINE out == {x}
<1>1. net' \subseteq net \cup out /\ \A y \in out : y \in Datagram /\ MsgOK(y)
  OBVIOUS
<1> HIDE DEF out
<1> QED BY <1>1, BoardSends

LEMMA TimeoutStep ==
  ASSUME TransferAssumption, IInv, Timeout
  PROVE  IInv'
<1>1. /\ phase # "idle" /\ UNCHANGED <<caller, buf, stored, losses, host>>
      /\ UNCHANGED <<mode, size, host>> /\ UNCHANGED <<caller, stored, buf, host>>
  BY DEF Timeout, NetPolled, caller
<1>2. sap \in Sap /\ SapInv /\ WireInv /\ sap.retry_left \in 0 .. OpenRetry + MaxRetry
  BY DEF IInv, SapInv, Sap
<1>3. ASSUME NEW cause \in Causes, cause # "OK"
      PROVE  /\ TimedOut(cause) \in Sap
             /\ TimedOut(cause).state = "ERROR" /\ TimedOut(cause).error_cause # "OK"
             /\ TimedOut(cause).block_number = sap.block_number
             /\ TimedOut(cause).bytes_left = sap.bytes_left
             /\ TimedOut(cause).read_idx = sap.read_idx
             /\ TimedOut(cause).write_idx = sap.write_idx
  BY <1>2, <1>3 DEF TimedOut, AfterRetries, Sap, SapStates
<1>4. ASSUME RetriesLeft
      PROVE  /\ Retry \in Sap
             /\ Retry.state = sap.state /\ Retry.error_cause = sap.error_cause
             /\ Retry.block_number = sap.block_number /\ Retry.bytes_left = sap.bytes_left
             /\ Retry.read_idx = sap.read_idx /\ Retry.write_idx = sap.write_idx
  <2> DEFINE n == sap.retry_left - 1
  <2>1. n \in 0 .. OpenRetry + MaxRetry
    BY <1>2, <1>4, Sizes DEF RetriesLeft
  <2>2. Retry = [sap EXCEPT !.retry_left = n]
    BY DEF Retry
  <2> HIDE DEF n
  <2> QED BY <1>2, <2>1, <2>2 DEF Sap
\* However it ends, the session retries or fails.
<1>5. ASSUME WireInv', acked' = acked \/ sap.state # "LAST_BLOCK_READ",
             \/ RetriesLeft /\ sap' = Retry
             \/ \E cause \in Causes \ {"OK"} : sap' = TimedOut(cause) /\ acked' = acked
      PROVE  IInv'
  <2>1. CASE RetriesLeft /\ sap' = Retry
    <3> DEFINE s == Retry
    <3>1. /\ s \in Sap /\ sap' = s
          /\ s.state = sap.state /\ s.error_cause = sap.error_cause
          /\ s.block_number = sap.block_number /\ s.bytes_left = sap.bytes_left
          /\ s.read_idx = sap.read_idx /\ s.write_idx = sap.write_idx
      BY <1>4, <2>1
    <3> HIDE DEF s
    <3> QED BY <1>1, <1>5, <3>1, QuietStep
  <2>2. ASSUME NEW cause \in Causes \ {"OK"}, sap' = TimedOut(cause), acked' = acked
        PROVE  IInv'
    <3> DEFINE s == TimedOut(cause)
    <3>1. /\ s \in Sap /\ sap' = s
          /\ s.state = "ERROR" /\ s.error_cause # "OK"
          /\ s.block_number = sap.block_number /\ s.bytes_left = sap.bytes_left
          /\ s.read_idx = sap.read_idx /\ s.write_idx = sap.write_idx
      BY <1>3, <2>2
    <3> HIDE DEF s
    <3> QED BY <1>1, <1>5, <2>2, <3>1, QuietStep
  <2> QED BY <1>5, <2>1, <2>2
<1>6. CASE /\ sap.state \in {"WAIT_FIRST_BLOCK", "WAIT_FIRST_ACK"}
           /\ IF RetriesLeft
              THEN /\ sap' = Retry
                   /\ net' = net \cup {[Request EXCEPT !.tid = sap.dst_port]}
                   /\ UNCHANGED acked
              ELSE /\ sap' = TimedOut(IF mode = "write" THEN "WRITE_TIMEOUT"
                                      ELSE "READ_TIMEOUT")
                   /\ UNCHANGED <<net, acked>>
  <2>1. CASE RetriesLeft
    <3> DEFINE x == [Request EXCEPT !.tid = sap.dst_port]
    <3>1. x \in Datagram /\ MsgOK(x)
      <4>1. sap.dst_port \in Tids \cup {0}
        BY <1>2 DEF Sap
      <4> QED BY <1>2, <4>1, BoardMessages
    <3>2. net' \subseteq net \cup {x}
      BY <1>6, <2>1
    <3> HIDE DEF x
    <3>3. WireInv'
      BY <1>1, <1>2, <3>1, <3>2, SendsOne
    <3> QED BY <1>5, <1>6, <2>1, <3>3
  <2>2. CASE ~RetriesLeft
    <3>1. WireInv'
      BY <1>1, <1>2, <1>6, <2>2, NothingSent
    <3>2. (IF mode = "write" THEN "WRITE_TIMEOUT" ELSE "READ_TIMEOUT") \in Causes \ {"OK"}
      BY DEF Causes
    <3> QED BY <1>5, <1>6, <2>2, <3>1, <3>2
  <2> QED BY <2>1, <2>2
<1>7. CASE /\ sap.state = "WAIT_NEXT_BLOCK"
           /\ IF RetriesLeft
              THEN /\ sap' = Retry
                   /\ IF sap.retry_left = 1 THEN UNCHANGED <<net, acked>>
                      ELSE /\ net' = net \cup {AckMsg(sap)}
                           /\ acked' = sap.block_number
              ELSE sap' = TimedOut("DATA_TIMEOUT") /\ UNCHANGED <<net, acked>>
  <2>1. AckMsg(sap) \in Datagram /\ MsgOK(AckMsg(sap))
    <3>1. sap.block_number # 0
      BY <1>7 DEF IInv, SapInv
    <3> QED BY <1>2, <3>1, BoardMessages
  <2>2. net' = net \/ net' = net \cup {AckMsg(sap)}
    BY <1>7
  <2>3. WireInv'
    <3> DEFINE x == AckMsg(sap)
    <3>1. net' \subseteq net \cup {x} /\ x \in Datagram /\ MsgOK(x)
      BY <2>1, <2>2
    <3> HIDE DEF x
    <3> QED BY <1>1, <1>2, <3>1, SendsOne
  <2>4. \/ RetriesLeft /\ sap' = Retry
        \/ \E cause \in Causes \ {"OK"} : sap' = TimedOut(cause) /\ acked' = acked
    BY <1>7 DEF Causes
  <2>5. sap.state # "LAST_BLOCK_READ"
    BY <1>7
  <2> QED BY <1>5, <2>3, <2>4, <2>5
<1>8. CASE /\ sap.state = "WAIT_NEXT_ACK"
           /\ IF RetriesLeft
              THEN sap' = Retry /\ net' = net \cup {DataMsg(sap)}
              ELSE sap' = TimedOut("DATA_TIMEOUT") /\ UNCHANGED net
           /\ UNCHANGED acked
  <2>1. DataMsg(sap) \in Datagram /\ MsgOK(DataMsg(sap))
    <3>1. /\ mode = "write" /\ sap.block_number # 0 /\ Off(sap.block_number - 1) <= size
          /\ sap.bytes_left = size - Off(sap.block_number - 1)
      BY <1>1, <1>8 DEF IInv, SapInv, WriteInv
    <3> QED BY <1>2, <3>1, BoardMessages
  <2>2. net' = net \/ net' = net \cup {DataMsg(sap)}
    BY <1>8
  <2>3. WireInv'
    <3> DEFINE x == DataMsg(sap)
    <3>1. net' \subseteq net \cup {x} /\ x \in Datagram /\ MsgOK(x)
      BY <2>1, <2>2
    <3> HIDE DEF x
    <3> QED BY <1>1, <1>2, <3>1, SendsOne
  <2>4. \/ RetriesLeft /\ sap' = Retry
        \/ \E cause \in Causes \ {"OK"} : sap' = TimedOut(cause) /\ acked' = acked
    BY <1>8 DEF Causes
  <2> QED BY <1>5, <1>8, <2>3, <2>4
<1> QED BY <1>6, <1>7, <1>8 DEF Timeout

\* Learning the host's port, and failing, leave the rest of the session alone.
LEMMA Fields ==
  ASSUME NEW s \in Sap, NEW cause \in Causes
  PROVE  /\ Failed(s, cause) \in Sap
         /\ Failed(s, cause).state = "ERROR" /\ Failed(s, cause).error_cause = cause
         /\ Failed(s, cause).block_number = s.block_number
         /\ Failed(s, cause).bytes_left = s.bytes_left
         /\ Failed(s, cause).read_idx = s.read_idx
         /\ Failed(s, cause).write_idx = s.write_idx
BY DEF Failed, Sap, SapStates

LEMMA BoundFields ==
  ASSUME sap \in Sap, NEW m \in Datagram
  PROVE  /\ BoundTo(m) \in Sap
         /\ BoundTo(m).state = sap.state /\ BoundTo(m).error_cause = sap.error_cause
         /\ BoundTo(m).block_number = sap.block_number
         /\ BoundTo(m).bytes_left = sap.bytes_left
         /\ BoundTo(m).read_idx = sap.read_idx
         /\ BoundTo(m).write_idx = sap.write_idx
         /\ BoundTo(m).retry_left = sap.retry_left
         /\ BoundTo(m).dst_port = m.tid
BY DEF BoundTo, Sap, Datagram

\* A datagram that only makes the session fail or learn the port, and is at
\* most answered by an ERROR.
LEMMA QuietReception ==
  ASSUME TransferAssumption, IInv, phase # "idle", UNCHANGED <<caller, stored, buf, host>>,
         NEW m \in net, NEW s \in Sap, Becomes(m, s, {}) \/ Becomes(m, s, {UnknownTID(m)}),
         s.block_number = sap.block_number, s.bytes_left = sap.bytes_left,
         s.read_idx = sap.read_idx, s.write_idx = sap.write_idx,
         \/ s.state = sap.state /\ s.error_cause = sap.error_cause
         \/ s.state = "ERROR" /\ s.error_cause # "OK"
  PROVE  IInv'
<1>1. WireInv /\ SapInv /\ sap \in Sap /\ m \in Datagram
  BY DEF IInv, WireInv, SapInv
<1>2. UNCHANGED <<mode, size, host>>
  BY DEF caller
<1>3. CASE Becomes(m, s, {})
  <2>1. sap' = s /\ acked' = acked /\ net' \subseteq net
    BY <1>3 DEF Becomes, Deliver
  <2>2. WireInv'
    BY <1>1, <1>2, <2>1, NothingSent
  <2> QED BY <2>1, <2>2, QuietStep
<1>4. CASE Becomes(m, s, {UnknownTID(m)})
  <2> DEFINE x == UnknownTID(m)
  <2>1. x \in Datagram /\ MsgOK(x) /\ x.op = "ERROR"
    <3>1. x.op = "ERROR"
      BY DEF UnknownTID, ToHost
    <3> QED BY <1>1, <3>1, BoardMessages
  <2>2. Becomes(m, s, {x})
    BY <1>4
  <2> HIDE DEF x
  <2>3. sap' = s /\ acked' = acked /\ net' \subseteq net \cup {x}
    BY <2>1, <2>2 DEF Becomes, Deliver
  <2>4. WireInv'
    BY <1>1, <1>2, <2>1, <2>3, SendsOne
  <2> QED BY <2>3, <2>4, QuietStep
<1> QED BY <1>3, <1>4

LEMMA ReceiveAfterErrorStep ==
  ASSUME TransferAssumption, IInv, ReceiveAfterError
  PROVE  IInv'
<1>1. PICK m \in net : Becomes(m, sap, {})
  BY DEF ReceiveAfterError
<1>2. phase # "idle" /\ UNCHANGED <<caller, stored, buf, host>> /\ sap \in Sap
  BY DEF ReceiveAfterError, NetPolled, IInv, SapInv
<1> QED BY <1>1, <1>2, QuietReception

LEMMA ReceiveUnknownTIDStep ==
  ASSUME TransferAssumption, IInv, ReceiveUnknownTID
  PROVE  IInv'
<1>1. PICK m \in net : Becomes(m, sap, {UnknownTID(m)})
  BY DEF ReceiveUnknownTID
<1>2. phase # "idle" /\ UNCHANGED <<caller, stored, buf, host>> /\ sap \in Sap
  BY DEF ReceiveUnknownTID, Incoming, NetPolled, IInv, SapInv
<1> QED BY <1>1, <1>2, QuietReception

LEMMA ReceiveErrorStep ==
  ASSUME TransferAssumption, IInv, ReceiveError
  PROVE  IInv'
<1> DEFINE cause == CASE sap.state = "WAIT_FIRST_BLOCK" -> "READ_ERROR"
                      [] sap.state = "WAIT_FIRST_ACK" -> "WRITE_ERROR"
                      [] OTHER -> "DATA_ERROR"
           s == Failed(sap, cause)
<1>1. PICK m \in net : Becomes(m, s, {})
  BY DEF ReceiveError
<1>2. phase # "idle" /\ UNCHANGED <<caller, stored, buf, host>> /\ sap \in Sap
  BY DEF ReceiveError, Incoming, NetPolled, IInv, SapInv
<1>3. cause \in Causes /\ cause # "OK"
  BY DEF Causes
<1> HIDE DEF cause
<1>4. /\ s \in Sap /\ s.state = "ERROR" /\ s.error_cause # "OK"
      /\ s.block_number = sap.block_number /\ s.bytes_left = sap.bytes_left
      /\ s.read_idx = sap.read_idx /\ s.write_idx = sap.write_idx
  BY <1>2, <1>3, Fields
<1> HIDE DEF s
<1> QED BY <1>1, <1>2, <1>4, QuietReception

LEMMA ReceiveOutOfSequenceStep ==
  ASSUME TransferAssumption, IInv, ReceiveOutOfSequence
  PROVE  IInv'
<1>1. PICK m \in net : Becomes(m, IF m.block = MaxBlock
                                  THEN Failed(BoundTo(m), "FILE_TOO_BIG") ELSE BoundTo(m), {})
  BY DEF ReceiveOutOfSequence
<1> DEFINE u == BoundTo(m)
           s == IF m.block = MaxBlock THEN Failed(u, "FILE_TOO_BIG") ELSE u
<1>2. /\ phase # "idle" /\ UNCHANGED <<caller, stored, buf, host>> /\ sap \in Sap
      /\ m \in Datagram
  BY DEF ReceiveOutOfSequence, Incoming, NetPolled, IInv, SapInv, WireInv
<1>3. /\ u \in Sap /\ u.state = sap.state /\ u.error_cause = sap.error_cause
      /\ u.block_number = sap.block_number /\ u.bytes_left = sap.bytes_left
      /\ u.read_idx = sap.read_idx /\ u.write_idx = sap.write_idx
  BY <1>2, BoundFields
<1> HIDE DEF u
<1>4. /\ s \in Sap
      /\ \/ s.state = sap.state /\ s.error_cause = sap.error_cause
         \/ s.state = "ERROR" /\ s.error_cause # "OK"
      /\ s.block_number = sap.block_number /\ s.bytes_left = sap.bytes_left
      /\ s.read_idx = sap.read_idx /\ s.write_idx = sap.write_idx
  <2>1. CASE m.block = MaxBlock
    <3>1. "FILE_TOO_BIG" \in Causes /\ "FILE_TOO_BIG" # "OK" /\ s = Failed(u, "FILE_TOO_BIG")
      BY <2>1 DEF Causes
    <3> HIDE DEF s
    <3> QED BY <1>3, <3>1, Fields
  <2>2. CASE m.block # MaxBlock
    BY <1>3, <2>2
  <2> QED BY <2>1, <2>2
<1>5. Becomes(m, s, {})
  BY <1>1 DEF u
<1> HIDE DEF s
<1> QED BY <1>2, <1>4, <1>5, QuietReception

LEMMA OutsideIgnored ==
  ASSUME TransferAssumption, IInv, phase # "idle", Lose \/ HostIgnores
  PROVE  IInv'
<1>1. net' \subseteq net /\ UNCHANGED <<caller, sap, buf, stored, acked, host>>
  BY DEF Lose, HostIgnores, Deliver
<1>2. WireInv' /\ sap \in Sap
  <2>1. WireInv /\ SapInv /\ UNCHANGED <<mode, size, host>>
    BY <1>1 DEF IInv, caller
  <2> QED BY <1>1, <2>1, NothingSent DEF SapInv
<1>3. UNCHANGED <<caller, stored, buf, host>> /\ sap' = sap /\ acked' = acked
  BY <1>1
<1> QED BY <1>2, <1>3, QuietStep

\* The next block in sequence: the file reaches that far, the session was not
\* at its end, and the block is the piece that follows.
LEMMA NextInSequence ==
  ASSUME TransferAssumption, IInv, NEW m \in net, Incoming(m), m.op = "DATA",
         InSequence(m)
  PROVE  /\ m.block = sap.block_number + 1 /\ m.block \in 1 .. MaxBlock
         /\ Off(sap.block_number) <= size /\ Off(sap.block_number) \in Nat
         /\ m.data = Piece(m.block, size) /\ m.data \in Seq(Nat)
         /\ sap.state \notin {"LAST_BLOCK_READ", "ERROR", "BOUND_TO_UDP"}
         /\ mode # "write"
<1>1. m \in Datagram /\ MsgOK(m) /\ sap \in Sap /\ m.to = "board" /\ size \in Nat
  BY DEF IInv, WireInv, SapInv, Incoming
<1>2. m.block = sap.block_number + 1 /\ sap.block_number \in Nat /\ m.block \in 0 .. MaxBlock
  BY <1>1, Sizes DEF InSequence, Datagram, Sap
<1>3. m.block # 0 /\ m.block - 1 = sap.block_number /\ m.block \in 1 .. MaxBlock
  BY <1>2, Sizes
<1>4. Off(sap.block_number) <= size /\ m.data = Piece(m.block, size) /\ mode # "write"
  BY <1>1, <1>3 DEF MsgOK
<1>5. m.data \in Seq(Nat)
  BY <1>1 DEF Datagram
<1>6. Off(sap.block_number) \in Nat
  BY <1>2, Offsets
<1>7. sap.state \notin {"LAST_BLOCK_READ", "ERROR", "BOUND_TO_UDP"}
  <2>1. sap.state # "LAST_BLOCK_READ"
    BY <1>1, <1>4, <1>6 DEF IInv, SapInv
  <2>2. sap.state # "ERROR" /\ sap.state # "BOUND_TO_UDP"
    BY DEF IInv, SapInv, Incoming, NetPolled
  <2> QED BY <2>1, <2>2
<1> QED BY <1>2, <1>3, <1>4, <1>5, <1>6, <1>7

LEMMA ReceiveDataBlockStep ==
  ASSUME TransferAssumption, IInv, ReceiveDataBlock
  PROVE  IInv'
<1>1. PICK m \in net :
        /\ Incoming(m) /\ m.op = "DATA" /\ InSequence(m) /\ mode = "block"
        /\ LET s == [BoundTo(m) EXCEPT !.block_number = m.block]
               w == [s EXCEPT !.bytes_left = Saved(Len(m.data))]
           IN  \/ /\ Len(m.data) <= sap.bytes_left
                  /\ Becomes(m, IF Short(m.data)
                                THEN [w EXCEPT !.state = "LAST_BLOCK_READ"]
                                ELSE Rearmed(w, "WAIT_NEXT_BLOCK"), {AckMsg(s)})
                  /\ stored' = stored \o m.data
               \/ /\ Len(m.data) <= sap.bytes_left
                  /\ Becomes(m, Failed(s, "FLASH_ERROR"), {AckMsg(s)})
                  /\ UNCHANGED stored
               \/ /\ Len(m.data) > sap.bytes_left
                  /\ Becomes(m, Failed(BoundTo(m), "FILE_TOO_BIG"), {})
                  /\ UNCHANGED stored
        /\ UNCHANGED <<caller, buf, host>>
  BY DEF ReceiveDataBlock
<1> DEFINE n == sap.block_number
           k == m.block
           d == m.data
           len == Len(stored)
           u == BoundTo(m)
           s == [u EXCEPT !.block_number = k]
           left == Saved(Len(d))
           w == [s EXCEPT !.bytes_left = left]
           last == [w EXCEPT !.state = "LAST_BLOCK_READ"]
           more == Rearmed(w, "WAIT_NEXT_BLOCK")
           x == AckMsg(s)
<1>2. /\ phase = "file" /\ UNCHANGED <<phase, mode, size, result, buf, host>>
      /\ m \in Datagram /\ sap \in Sap /\ size \in Nat /\ SapInv /\ WireInv
      /\ mode = "block" /\ n \in Nat /\ sap.bytes_left \in Nat
  BY <1>1, Sizes DEF caller, IInv, WireInv, SapInv, Incoming, NetPolled, Sap
<1>3. /\ k = n + 1 /\ k \in 1 .. MaxBlock /\ Off(n) <= size /\ Off(n) \in Nat
      /\ d = Piece(k, size) /\ d \in Seq(Nat)
      /\ sap.state \notin {"LAST_BLOCK_READ", "ERROR", "BOUND_TO_UDP"}
  BY <1>1, NextInSequence
<1>4. /\ u \in Sap /\ u.state = sap.state /\ u.error_cause = sap.error_cause
      /\ u.bytes_left = sap.bytes_left /\ u.block_number = n
      /\ u.read_idx = sap.read_idx /\ u.write_idx = sap.write_idx
  BY <1>2, BoundFields
<1>5. /\ s \in Sap /\ s.state = sap.state /\ s.bytes_left = sap.bytes_left
      /\ s.block_number = k
  <2>1. k \in 0 .. MaxBlock
    BY <1>3, Sizes
  <2> HIDE DEF u, k
  <2> QED BY <1>4, <2>1 DEF Sap
<1>6. /\ k \in Nat /\ k # 0 /\ k - 1 = n /\ Len(d) \in Nat
      /\ Upto(k, size) \in Nat /\ Upto(k, size) <= size /\ Off(n) <= Upto(k, size)
      /\ Len(d) = Upto(k, size) - Off(n)
      /\ Short(d) <=> Off(k) > size
      /\ Upto(n, size) = Off(n)
  <2>1. k \in Nat /\ k # 0 /\ k - 1 = n
    BY <1>2, <1>3, Sizes
  <2>2. Len(d) \in Nat
    BY <1>3
  <2> HIDE DEF k, d
  <2> QED BY <1>2, <1>3, <2>1, <2>2, Pieces DEF Short
<1>7. x \in Datagram /\ MsgOK(x) /\ x.op = "ACK" /\ x.block = k
  <2> HIDE DEF k
  <2>1. x.op = "ACK" /\ x.block = k
    BY <1>5 DEF AckMsg, ToHost
  <2> HIDE DEF s
  <2>2. x \in Datagram /\ MsgOK(x)
    BY <1>2, <1>5, <1>6, BoardMessages
  <2> QED BY <2>1, <2>2
<1>8. /\ stored \in Seq(Nat) /\ stored = Initial(len) /\ len \in Nat /\ len = Off(n)
      /\ Room = sap.bytes_left + len
  <2>1. stored \in Seq(Nat) /\ stored = Initial(len)
    BY <1>2 DEF IInv, StoredInv
  <2>2. len = Upto(n, size) /\ Room = sap.bytes_left + len
    BY <1>2, <1>3 DEF IInv, BlockInv
  <2> QED BY <1>6, <2>1, <2>2
<1>9. phase' # "idle" /\ phase' = "file" /\ mode' = "block" /\ size' = size
  BY <1>2
<1>10. buf' \in [Indices -> Buffer] /\ WriteInv' /\ RingInv'
  BY <1>2 DEF IInv, WriteInv, RingInv
\* The block is stored.
<1>11. CASE /\ Len(d) <= sap.bytes_left
            /\ Becomes(m, IF Short(d) THEN last ELSE more, {x})
            /\ stored' = stored \o d
  <2>1. left \in Nat /\ left = sap.bytes_left - Len(d)
    BY <1>2, <1>6, <1>11 DEF Saved
  <2>2. stored' = Initial(Upto(k, size))
    <3>1. stored' = Initial(Off(k - 1)) \o Piece(k, size)
      BY <1>3, <1>6, <1>8, <1>11
    <3>2. k \in Nat /\ k # 0 /\ Off(k - 1) <= size /\ size \in Nat
      BY <1>2, <1>3, <1>6
    <3> HIDE DEF k
    <3>3. Initial(Off(k - 1)) \o Piece(k, size) = Initial(Upto(k, size))
      BY <3>2, NextPiece
    <3> QED BY <3>1, <3>3
  <2>3. stored' \in Seq(Nat) /\ Len(stored') = Upto(k, size)
    BY <1>6, <2>2, Initials
  <2>4. Room = left + Len(stored')
    BY <1>2, <1>6, <1>8, <2>1, <2>3
  <2> HIDE DEF u, k, d, left
  <2>5. w \in Sap /\ w.block_number = k /\ w.bytes_left = left
    <3> HIDE DEF s
    <3> QED BY <1>5, <2>1 DEF Sap
  <2> HIDE DEF w
  <2>6. /\ last \in Sap /\ last.state = "LAST_BLOCK_READ" /\ last.block_number = k
        /\ last.bytes_left = left
        /\ more \in Sap /\ more.state = "WAIT_NEXT_BLOCK" /\ more.block_number = k
        /\ more.bytes_left = left
    <3>1. MaxRetry \in 0 .. OpenRetry + MaxRetry
      BY Sizes
    <3> QED BY <2>5, <3>1 DEF Rearmed, Sap, SapStates
  <2> DEFINE v == IF Short(d) THEN last ELSE more
  <2>7. /\ v \in Sap /\ v.block_number = k /\ v.bytes_left = left
        /\ (v.state = "LAST_BLOCK_READ" /\ Off(k) > size) \/ v.state = "WAIT_NEXT_BLOCK"
    BY <1>6, <2>6
  <2> HIDE DEF v, x
  <2>8. sap' = v /\ net' \subseteq net \cup {x} /\ acked' = k
    BY <1>7, <1>11 DEF Becomes, Deliver, v
  <2>9. WireInv'
    BY <1>2, <1>7, <2>8, SendsOne
  <2>10. SapInv'
    <3>1. v.state = "LAST_BLOCK_READ" => Off(v.block_number) > size
      BY <2>7
    <3>2. v.state \in {"LAST_BLOCK_READ", "WAIT_NEXT_BLOCK"}
      BY <2>7
    <3>3. /\ phase' = "file" /\ mode' = "block" /\ size' = size /\ sap' = v
          /\ v.block_number # 0 /\ v \in Sap
      BY <1>2, <1>6, <2>7, <2>8
    <3> QED BY <1>2, <3>1, <3>2, <3>3 DEF SapInv
  <2>11. StoredInv'
    BY <1>2, <1>6, <2>2, <2>3 DEF StoredInv
  <2>12. BlockInv'
    BY <1>2, <2>3, <2>4, <2>7, <2>8 DEF BlockInv
  <2> QED BY <1>9, <1>10, <2>9, <2>10, <2>11, <2>12, Running DEF IInv
\* The flash write fails.
<1>12. CASE /\ Becomes(m, Failed(s, "FLASH_ERROR"), {x})
            /\ UNCHANGED stored
  <2> DEFINE v == Failed(s, "FLASH_ERROR")
  <2>1. "FLASH_ERROR" \in Causes /\ "FLASH_ERROR" # "OK"
    BY DEF Causes
  <2> HIDE DEF s
  <2>2. /\ v \in Sap /\ v.state = "ERROR" /\ v.error_cause # "OK" /\ v.block_number = k
        /\ v.bytes_left = sap.bytes_left
    BY <1>5, <2>1, Fields
  <2> HIDE DEF v, x
  <2>3. sap' = v /\ net' \subseteq net \cup {x}
    BY <1>12 DEF Becomes, Deliver, v
  <2>4. WireInv'
    BY <1>2, <1>7, <2>3, SendsOne
  <2>5. SapInv'
    BY <1>2, <2>2, <2>3 DEF SapInv
  <2>6. StoredInv'
    BY <1>2, <1>12 DEF IInv, StoredInv
  <2>7. BlockInv'
    BY <1>2, <1>8, <1>12, <2>2, <2>3 DEF BlockInv
  <2> QED BY <1>9, <1>10, <2>4, <2>5, <2>6, <2>7, Running DEF IInv
\* There is no room for it.
<1>13. CASE /\ Becomes(m, Failed(u, "FILE_TOO_BIG"), {})
            /\ UNCHANGED stored
  <2> DEFINE v == Failed(u, "FILE_TOO_BIG")
  <2>1. "FILE_TOO_BIG" \in Causes /\ "FILE_TOO_BIG" # "OK"
    BY DEF Causes
  <2> HIDE DEF u
  <2>2. /\ v \in Sap /\ v.state = "ERROR" /\ v.error_cause # "OK" /\ v.block_number = n
        /\ v.bytes_left = sap.bytes_left
        /\ v.read_idx = sap.read_idx /\ v.write_idx = sap.write_idx
    BY <1>4, <2>1, Fields
  <2>3. Becomes(m, v, {}) /\ phase # "idle" /\ UNCHANGED <<caller, stored, buf, host>>
    BY <1>1, <1>2, <1>13
  <2> HIDE DEF v
  <2> QED BY <2>2, <2>3, QuietReception
<1> QED BY <1>1, <1>11, <1>12, <1>13

LEMMA ReceiveDataByteStep ==
  ASSUME TransferAssumption, IInv, ReceiveDataByte
  PROVE  IInv'
<1>1. PICK m \in net :
        /\ Incoming(m) /\ m.op = "DATA" /\ InSequence(m) /\ mode = "byte"
        /\ LET next == NextBuffer(sap.write_idx)
               s == [BoundTo(m) EXCEPT !.block_number = m.block, !.write_idx = next]
           IN  IF buf[sap.write_idx].ctrl = "EMPTY"
               THEN /\ buf' = [buf EXCEPT ![sap.write_idx] =
                                 [ctrl |-> "FULL", data |-> m.data]]
                    /\ IF Short(m.data)
                       THEN Becomes(m, [s EXCEPT !.state = "LAST_BLOCK_READ"], {})
                       ELSE IF buf'[next].ctrl = "EMPTY"
                       THEN Becomes(m, Rearmed(s, "WAIT_NEXT_BLOCK"), {AckMsg(s)})
                       ELSE Becomes(m, [s EXCEPT !.state = "CONGESTION"], {})
               ELSE /\ Becomes(m, [BoundTo(m) EXCEPT !.state = "CONGESTION"], {})
                    /\ UNCHANGED buf
        /\ UNCHANGED <<caller, stored, host>>
  BY DEF ReceiveDataByte
<1> DEFINE n == sap.block_number
           r == sap.read_idx
           w == sap.write_idx
           k == m.block
           u == BoundTo(m)
           next == NextBuffer(w)
           s == [u EXCEPT !.block_number = k, !.write_idx = next]
           last == [s EXCEPT !.state = "LAST_BLOCK_READ"]
           more == Rearmed(s, "WAIT_NEXT_BLOCK")
           full == [s EXCEPT !.state = "CONGESTION"]
           held == [u EXCEPT !.state = "CONGESTION"]
           x == AckMsg(s)
           len == Len(stored)
           left == sap.bytes_left
<1>2. /\ phase \in {"opening", "polling"}
      /\ UNCHANGED <<phase, mode, size, result, stored, host>>
      /\ m \in Datagram /\ sap \in Sap /\ size \in Nat /\ SapInv /\ WireInv
      /\ mode = "byte" /\ n \in Nat /\ r \in Indices /\ w \in Indices
  BY <1>1, Sizes DEF caller, IInv, WireInv, SapInv, Incoming, NetPolled, Sap
<1>3. /\ k = n + 1 /\ k \in 1 .. MaxBlock /\ Off(n) <= size /\ Off(n) \in Nat
      /\ m.data = Piece(k, size) /\ m.data \in Seq(Nat)
      /\ sap.state \notin {"LAST_BLOCK_READ", "ERROR", "BOUND_TO_UDP"}
  BY <1>1, NextInSequence
<1>4. /\ u \in Sap /\ u.state = sap.state /\ u.error_cause = sap.error_cause
      /\ u.bytes_left = left /\ u.block_number = n
      /\ u.read_idx = r /\ u.write_idx = w
  BY <1>2, BoundFields
<1>5. /\ s \in Sap /\ s.bytes_left = left /\ s.block_number = k
      /\ s.read_idx = r /\ s.write_idx = next
  <2>1. k \in 0 .. MaxBlock
    BY <1>3, Sizes
  <2>2. next \in Indices
    BY <1>2, Backs
  <2> HIDE DEF u, k, next, left, r
  <2> QED BY <1>4, <2>1, <2>2 DEF Sap
<1>6. Ring(buf, r, w, n) /\ Reader(buf, r, w, n, left, len)
  BY <1>2 DEF IInv, RingInv
<1>7. k \in Nat /\ k # 0 /\ k - 1 = n /\ (Short(m.data) <=> Off(k) > size)
  <2>1. k \in Nat /\ k # 0 /\ k - 1 = n
    <3>1. k = n + 1 /\ n \in Nat
      BY <1>2, <1>3
    <3> HIDE DEF k, n
    <3> QED BY <3>1
  <2> HIDE DEF k
  <2> QED BY <1>2, <1>3, <2>1, Pieces DEF Short
<1>8. phase' # "idle" /\ StoredInv' /\ BlockInv' /\ WriteInv'
  BY <1>2 DEF IInv, StoredInv, BlockInv, WriteInv
<1>9. CASE buf[w].ctrl # "EMPTY"
  <2>1. Becomes(m, held, {}) /\ buf' = buf
    BY <1>1, <1>9
  <2>2. n # 0
    <3>1. buf[r].ctrl # "EMPTY" /\ Back(r, w) <= n
      BY <1>2, <1>6, <1>9 DEF Ring
    <3>2. Back(r, w) \in Nat /\ Back(r, w) >= 1
      BY <1>2, Backs
    <3> QED BY <1>2, <3>1, <3>2
  <2> HIDE DEF u
  <2>3. /\ held \in Sap /\ held.state = "CONGESTION" /\ held.block_number = n
        /\ held.bytes_left = left /\ held.read_idx = r /\ held.write_idx = w
    BY <1>4 DEF Sap, SapStates
  <2> HIDE DEF held
  <2>4. sap' = held /\ net' \subseteq net
    BY <2>1 DEF Becomes, Deliver
  <2>5. WireInv'
    BY <1>2, <2>4, NothingSent
  <2>6. SapInv'
    BY <1>2, <2>2, <2>3, <2>4 DEF SapInv
  <2>7. RingInv'
    <3>1. Ring(buf, sap.read_idx, sap.write_idx, sap.block_number)'
      BY <1>2, <1>6, <2>1, <2>3, <2>4 DEF Ring
    <3>2. Reader(buf, sap.read_idx, sap.write_idx, sap.block_number, sap.bytes_left,
                 Len(stored))'
      BY <1>2, <1>6, <2>1, <2>3, <2>4 DEF Reader
    <3> QED BY <3>1, <3>2 DEF RingInv
  <2>8. buf' \in [Indices -> Buffer]
    BY <2>1 DEF IInv
  <2> QED BY <1>8, <2>5, <2>6, <2>7, <2>8, Running DEF IInv
<1>10. CASE buf[w].ctrl = "EMPTY"
  <2>1. /\ buf' = [buf EXCEPT ![w] = [ctrl |-> "FULL", data |-> m.data]]
        /\ \/ Short(m.data) /\ Becomes(m, last, {})
           \/ ~Short(m.data) /\ Becomes(m, more, {x})
           \/ ~Short(m.data) /\ Becomes(m, full, {})
    BY <1>1, <1>10
  <2>2. Ring(buf', r, next, k) /\ Reader(buf', r, next, k, left, len)
    <3> DEFINE c == buf'
    <3>1. c = [buf EXCEPT ![w] = [ctrl |-> "FULL", data |-> Piece(n + 1, size)]]
      BY <1>3, <2>1
    <3>2. Ring(c, r, NextBuffer(w), n + 1) /\ Reader(c, r, NextBuffer(w), n + 1, left, len)
      <4> HIDE DEF c, r, w, n, left, len
      <4> QED BY <1>2, <1>3, <1>6, <1>10, <3>1, RingFills
    <3> QED BY <1>3, <3>2
  <2> HIDE DEF u, k, next, s
  <2>3. /\ last \in Sap /\ more \in Sap /\ full \in Sap
        /\ last.state = "LAST_BLOCK_READ" /\ more.state = "WAIT_NEXT_BLOCK"
        /\ full.state = "CONGESTION"
        /\ \A v \in {last, more, full} :
             /\ v.block_number = k /\ v.bytes_left = left
             /\ v.read_idx = r /\ v.write_idx = next
    <3>1. MaxRetry \in 0 .. OpenRetry + MaxRetry
      BY Sizes
    <3> HIDE DEF left, r
    <3>2. /\ last \in Sap /\ last.state = "LAST_BLOCK_READ"
          /\ last.block_number = k /\ last.bytes_left = left
          /\ last.read_idx = r /\ last.write_idx = next
      BY <1>5 DEF Sap, SapStates
    <3>3. /\ more \in Sap /\ more.state = "WAIT_NEXT_BLOCK"
          /\ more.block_number = k /\ more.bytes_left = left
          /\ more.read_idx = r /\ more.write_idx = next
      BY <1>5, <3>1 DEF Rearmed, Sap, SapStates
    <3>4. /\ full \in Sap /\ full.state = "CONGESTION"
          /\ full.block_number = k /\ full.bytes_left = left
          /\ full.read_idx = r /\ full.write_idx = next
      BY <1>5 DEF Sap, SapStates
    <3> HIDE DEF last, more, full
    <3> QED BY <3>2, <3>3, <3>4
  <2>4. x \in Datagram /\ MsgOK(x) /\ x.op = "ACK"
    <3>1. x.op = "ACK"
      BY DEF AckMsg, ToHost
    <3> QED BY <1>2, <1>5, <1>7, <3>1, BoardMessages
  <2> HIDE DEF last, more, full, x
  <2>5. /\ net' \subseteq net \cup {x}
        /\ \/ sap' = last /\ Short(m.data)
           \/ sap' = more
           \/ sap' = full
    BY <2>1 DEF Becomes, Deliver
  <2>6. /\ sap' \in Sap /\ sap'.block_number = k /\ sap'.bytes_left = left
        /\ sap'.read_idx = r /\ sap'.write_idx = next
        /\ sap'.state \in {"LAST_BLOCK_READ", "WAIT_NEXT_BLOCK", "CONGESTION"}
        /\ sap'.state = "LAST_BLOCK_READ" => Off(k) > size
    BY <1>7, <2>3, <2>5
  <2>7. WireInv'
    BY <1>2, <2>4, <2>5, SendsOne
  <2>8. SapInv'
    BY <1>2, <1>7, <2>6 DEF SapInv
  <2>9. RingInv'
    <3>1. Ring(buf, sap.read_idx, sap.write_idx, sap.block_number)'
      BY <1>2, <2>2, <2>6 DEF Ring
    <3>2. Reader(buf, sap.read_idx, sap.write_idx, sap.block_number, sap.bytes_left,
                 Len(stored))'
      BY <1>2, <2>2, <2>6 DEF Reader
    <3> QED BY <3>1, <3>2 DEF RingInv
  <2>10. buf' \in [Indices -> Buffer]
    BY <2>2 DEF Ring
  <2> QED BY <1>8, <2>7, <2>8, <2>9, <2>10, Running DEF IInv
<1> QED BY <1>9, <1>10

LEMMA ReceiveAckStep ==
  ASSUME TransferAssumption, IInv, ReceiveAck
  PROVE  IInv'
<1>1. PICK m \in net :
        /\ Incoming(m) /\ m.op = "ACK" /\ InSequence(m)
        /\ LET s    == BoundTo(m)
               full == sap.bytes_left >= BlockSize
               on   == [Rearmed(s, "WAIT_NEXT_ACK") EXCEPT
                          !.block_number = Wire(@ + 1),
                          !.bytes_left = IF Opening THEN @ ELSE Saved(BlockSize)]
           IN  IF Opening \/ full THEN Becomes(m, on, {DataMsg(on)})
               ELSE Becomes(m, [s EXCEPT !.bytes_left = 0,
                                         !.state = "LAST_BLOCK_WRITE"], {})
        /\ UNCHANGED <<caller, buf, stored, host>>
  BY DEF ReceiveAck
<1> DEFINE n == sap.block_number
           t == m.tid
           blk == host[t].blk
           u == BoundTo(m)
           a == Rearmed(u, "WAIT_NEXT_ACK")
           on == [a EXCEPT !.block_number = Wire(@ + 1),
                           !.bytes_left = IF Opening THEN @ ELSE Saved(BlockSize)]
           last == [u EXCEPT !.bytes_left = 0, !.state = "LAST_BLOCK_WRITE"]
           left == sap.bytes_left
<1>2. /\ phase # "idle" /\ UNCHANGED <<phase, mode, size, result, buf, stored, host>>
      /\ m \in Datagram /\ MsgOK(m) /\ m.to = "board" /\ m.block = n
      /\ sap \in Sap /\ size \in Nat /\ SapInv /\ WireInv /\ n \in Nat /\ left \in Nat
      /\ sap.state \notin {"ERROR", "BOUND_TO_UDP"}
  <2>1. m.block = n
    BY <1>1 DEF InSequence, IInv, SapInv, Sap
  <2> QED BY <1>1, <2>1, Sizes
          DEF caller, IInv, WireInv, SapInv, Incoming, NetPolled, Sap
<1>3. /\ mode = "write" /\ t \in Tids /\ blk \in Nat /\ blk >= n /\ blk <= MaxBlock
      /\ host[t].got = Initial(Upto(blk, size))
      /\ Off(blk) > size => host[t].st = "done"
  BY <1>1, <1>2, Sizes DEF MsgOK, WireInv, HostOK, Session
<1>4. /\ u \in Sap /\ u.state = sap.state /\ u.error_cause = sap.error_cause
      /\ u.bytes_left = left /\ u.block_number = n
      /\ u.read_idx = sap.read_idx /\ u.write_idx = sap.write_idx
  BY <1>2, BoundFields
<1>5. /\ size < Off(MaxBlock) /\ left <= size
      /\ left < size => \E v \in Tids : Len(host[v].got) >= size - left
      /\ sap.state \in {"WAIT_FIRST_ACK", "WAIT_NEXT_ACK", "LAST_BLOCK_WRITE"}
      /\ sap.state = "WAIT_FIRST_ACK" => left = size /\ n = 0
      /\ sap.state = "WAIT_NEXT_ACK" =>
           n # 0 /\ Off(n - 1) <= size /\ left = size - Off(n - 1)
      /\ sap.state = "LAST_BLOCK_WRITE" =>
           left = 0 /\ \E v \in Tids : host[v].st = "done" /\ host[v].got = Initial(size)
  <2>1. sap.state \in {"WAIT_FIRST_ACK", "WAIT_NEXT_ACK", "LAST_BLOCK_WRITE"}
    BY <1>2, <1>3 DEF SapInv, Sap, SapStates
  <2>2. sap.state = "WAIT_FIRST_ACK" => n = 0
    BY <1>2 DEF SapInv
  <2> QED BY <1>2, <1>3, <2>1, <2>2 DEF IInv, WriteInv
<1>6. buf' \in [Indices -> Buffer] /\ StoredInv' /\ BlockInv' /\ RingInv' /\ phase' # "idle"
  BY <1>2, <1>3 DEF IInv, StoredInv, BlockInv, RingInv
\* What the host has of the file when it acknowledges block n.
<1>7. /\ Off(blk) \in Nat /\ Off(n) \in Nat /\ Off(n) <= Off(blk)
      /\ Upto(blk, size) \in Nat /\ Len(host[t].got) = Upto(blk, size)
  <2>1. Off(blk) \in Nat /\ Off(n) \in Nat /\ Off(n) <= Off(blk)
    BY <1>2, <1>3, Offsets
  <2>2. Upto(blk, size) \in Nat
    BY <1>2, <2>1 DEF Upto
  <2>3. Len(host[t].got) = Upto(blk, size)
    BY <1>3, <2>2, Initials
  <2> QED BY <2>1, <2>2, <2>3
<1>8. sap.state = "WAIT_NEXT_ACK" => (left >= BlockSize <=> Off(n) <= size)
  <2> SUFFICES ASSUME sap.state = "WAIT_NEXT_ACK"
               PROVE  left >= BlockSize <=> Off(n) <= size
    OBVIOUS
  <2>1. n - 1 \in Nat /\ n = (n - 1) + 1
    BY <1>2, <1>5
  <2>2. Off(n) = Off(n - 1) + BlockSize /\ Off(n - 1) \in Nat
    BY <2>1, Offsets
  <2> HIDE DEF n, left
  <2> QED BY <1>2, <1>5, <2>2, Sizes
\* The next block is sent.
<1>9. CASE Opening \/ left >= BlockSize
  <2>1. Becomes(m, on, {DataMsg(on)})
    BY <1>1, <1>9
  <2>2. \/ sap.state = "WAIT_FIRST_ACK" /\ Opening
        \/ sap.state = "WAIT_NEXT_ACK" /\ ~Opening /\ left >= BlockSize
    <3>1. sap.state # "LAST_BLOCK_WRITE"
      BY <1>5, <1>9, Sizes DEF Opening
    <3> QED BY <1>5, <1>9, <3>1 DEF Opening
  <2>3. /\ Off(n) <= size /\ n < MaxBlock
        /\ sap.state = "WAIT_NEXT_ACK" => Off(n) = size - (left - BlockSize)
                                          /\ left - BlockSize \in Nat
    <3>1. CASE sap.state = "WAIT_FIRST_ACK"
      <4>1. n = 0
        BY <1>5, <3>1
      <4>2. Off(n) = 0
        BY <4>1, Offsets
      <4> QED BY <1>2, <3>1, <4>1, <4>2, Sizes
    <3>2. CASE sap.state = "WAIT_NEXT_ACK" /\ left >= BlockSize
      <4>1. Off(n) <= size
        BY <1>8, <3>2
      <4>2. n < MaxBlock
        <5>1. MaxBlock <= n => Off(MaxBlock) <= Off(n)
          BY <1>2, Offsets, Sizes
        <5>2. Off(MaxBlock) \in Nat
          BY Offsets, Sizes
        <5> QED BY <1>2, <1>5, <1>7, <4>1, <5>1, <5>2, Sizes
      <4>3. n - 1 \in Nat /\ n = (n - 1) + 1
        BY <1>2, <1>5, <3>2
      <4>4. Off(n) = Off(n - 1) + BlockSize /\ Off(n - 1) \in Nat
        BY <4>3, Offsets
      <4>5. left - BlockSize \in Nat
        BY <1>2, <3>2, Sizes
      <4>6. left = size - Off(n - 1)
        BY <1>5, <3>2
      <4> HIDE DEF n, left
      <4> QED BY <1>2, <4>1, <4>2, <4>4, <4>5, <4>6, Sizes
    <3> QED BY <2>2, <3>1, <3>2
  <2>4. Wire(n + 1) = n + 1 /\ n + 1 \in 0 .. MaxBlock
    <3>1. n + 1 \in 0 .. MaxBlock
      BY <1>2, <2>3, Sizes
    <3> QED BY <3>1, Wires
  <2> DEFINE rest == IF Opening THEN left ELSE left - BlockSize
  <2>5. rest \in Nat /\ rest = size - Off(n) /\ rest <= size
    <3>1. CASE sap.state = "WAIT_FIRST_ACK" /\ Opening
      <4>1. n = 0 /\ left = size
        BY <1>5, <3>1
      <4>2. Off(n) = 0
        BY <4>1, Offsets
      <4>3. rest = size /\ Off(n) = 0
        BY <3>1, <4>1, <4>2
      <4> HIDE DEF rest
      <4> QED BY <1>2, <4>3
    <3>2. CASE sap.state = "WAIT_NEXT_ACK" /\ ~Opening
      <4>1. rest = left - BlockSize /\ rest \in Nat /\ Off(n) = size - rest
        BY <2>3, <3>2
      <4> HIDE DEF n, left, rest
      <4> QED BY <1>2, <1>7, <2>3, <4>1
    <3> QED BY <2>2, <3>1, <3>2
  <2>6. /\ on \in Sap /\ on.state = "WAIT_NEXT_ACK" /\ on.block_number = n + 1
        /\ on.bytes_left = rest
    <3>1. MaxRetry \in 0 .. OpenRetry + MaxRetry
      BY Sizes
    <3> HIDE DEF u
    <3>2. a \in Sap /\ a.block_number = n /\ a.bytes_left = left /\ a.state = "WAIT_NEXT_ACK"
      BY <1>4, <3>1 DEF Rearmed, Sap, SapStates
    <3> HIDE DEF a
    <3>3. on = [a EXCEPT !.block_number = n + 1, !.bytes_left = rest]
      BY <2>4, <3>2 DEF Saved, Sap
    <3> HIDE DEF on, rest, n
    <3> QED BY <2>4, <2>5, <3>2, <3>3 DEF Sap
  <2> HIDE DEF on, rest
  <2>7. n + 1 # 0 /\ (n + 1) - 1 = n
    BY <1>2
  <2>8. DataMsg(on) \in Datagram /\ MsgOK(DataMsg(on))
    <3>1. /\ on.block_number # 0 /\ Off(on.block_number - 1) <= size
          /\ on.bytes_left = size - Off(on.block_number - 1)
      BY <2>3, <2>5, <2>6, <2>7
    <3> QED BY <1>2, <1>3, <2>6, <3>1, BoardMessages
  <2> DEFINE x == DataMsg(on)
  <2>9. sap' = on /\ net' \subseteq net \cup {x}
    BY <2>1 DEF Becomes, Deliver
  <2> HIDE DEF x
  <2>10. WireInv'
    BY <1>2, <2>8, <2>9, SendsOne DEF x
  <2>11. SapInv'
    BY <1>2, <1>3, <2>6, <2>7, <2>9 DEF SapInv
  <2>12. ASSUME rest < size PROVE \E v \in Tids : Len(host[v].got) >= size - rest
    <3>1. size - rest = Off(n)
      BY <1>2, <1>7, <2>5
    <3>2. Upto(blk, size) >= Off(n)
      BY <1>2, <1>7, <2>3 DEF Upto
    <3> QED BY <1>3, <1>7, <3>1, <3>2
  <2>13. WriteInv'
    BY <1>2, <1>5, <2>3, <2>5, <2>6, <2>7, <2>9, <2>12 DEF WriteInv
  <2> QED BY <1>6, <2>10, <2>11, <2>13, Running DEF IInv
\* It was the last one.
<1>10. CASE ~(Opening \/ left >= BlockSize)
  <2>1. Becomes(m, last, {})
    BY <1>1, <1>10
  <2> HIDE DEF u
  <2>2. last \in Sap /\ last.state = "LAST_BLOCK_WRITE" /\ last.bytes_left = 0
    BY <1>4 DEF Sap, SapStates
  <2> HIDE DEF last
  <2>3. sap' = last /\ net' \subseteq net
    BY <2>1 DEF Becomes, Deliver
  <2>4. WireInv'
    BY <1>2, <2>3, NothingSent
  <2>5. SapInv'
    BY <1>2, <1>3, <2>2, <2>3 DEF SapInv
  <2>6. \E v \in Tids : host[v].st = "done" /\ host[v].got = Initial(size)
    <3>1. CASE sap.state = "LAST_BLOCK_WRITE"
      BY <1>5, <3>1
    <3>2. CASE sap.state = "WAIT_NEXT_ACK"
      <4>1. Off(blk) > size
        BY <1>2, <1>7, <1>8, <1>10, <3>2, Sizes
      <4>2. Upto(blk, size) = size
        BY <1>2, <1>7, <4>1 DEF Upto
      <4> QED BY <1>3, <4>1, <4>2
    <3>3. sap.state # "WAIT_FIRST_ACK"
      BY <1>10 DEF Opening
    <3> QED BY <1>5, <3>1, <3>2, <3>3
  <2>7. ASSUME 0 < size PROVE \E v \in Tids : Len(host[v].got) >= size - 0
    <3>1. PICK v \in Tids : host[v].got = Initial(size)
      BY <2>6
    <3>2. Len(host[v].got) = size
      BY <1>2, <3>1, Initials
    <3> QED BY <1>2, <3>2
  <2>8. WriteInv'
    BY <1>2, <1>5, <2>2, <2>3, <2>6, <2>7 DEF WriteInv
  <2> QED BY <1>6, <2>4, <2>5, <2>8, Running DEF IInv
<1> QED BY <1>9, <1>10

-----------------------------------------------------------------------------
(* The host *)

\* A session of the host makes progress, and keeps what it has when it is done.
LEMMA HostStep ==
  ASSUME TransferAssumption, IInv, phase # "idle", NEW t \in Tids, NEW h,
         host' = [host EXCEPT ![t] = h], UNCHANGED <<caller, sap, buf, stored, acked>>,
         HostOK(h),
         mode = "write" => /\ h.blk >= host[t].blk
                           /\ host[t].st = "done" => h.st = "done" /\ h.got = host[t].got,
         NEW out, net' \subseteq net \cup out, \A x \in out : x \in Datagram /\ MsgOK(x)'
  PROVE  IInv'
<1>1. UNCHANGED <<phase, mode, size, result, sap, buf, stored, acked>> /\ phase' # "idle"
  BY DEF caller
<1>2. /\ SapInv /\ WireInv /\ size \in Nat /\ DOMAIN host = Tids
      /\ \A u \in Tids : HostOK(host[u])
  BY DEF IInv, SapInv, WireInv
<1>3. /\ DOMAIN host' = Tids /\ host'[t] = h
      /\ \A u \in Tids : u # t => host'[u] = host[u]
  BY <1>2
<1>4. \A u \in Tids : HostOK(host'[u])
  BY <1>2, <1>3
<1>5. ASSUME mode = "write", NEW u \in Tids
      PROVE  /\ host'[u].blk >= host[u].blk /\ Len(host'[u].got) >= Len(host[u].got)
             /\ host[u].st = "done" => host'[u].st = "done" /\ host'[u].got = host[u].got
             /\ host[u].blk \in Nat /\ host'[u].blk \in Nat
  <2>1. CASE u # t
    <3>1. host'[u] = host[u] /\ HostOK(host[u])
      BY <1>2, <1>3, <2>1
    <3>2. host[u].blk \in Nat /\ host[u].got \in Seq(Nat)
      BY <3>1, Sizes DEF HostOK, Session
    <3>3. Len(host[u].got) \in Nat
      BY <3>2
    <3> QED BY <3>1, <3>2, <3>3
  <2>2. CASE u = t
    <3> DEFINE b == host[t].blk
               c == h.blk
    <3>1. /\ b \in Nat /\ host[t].got = Initial(Upto(b, size))
          /\ c \in Nat /\ h.got = Initial(Upto(c, size)) /\ c >= b
      BY <1>2, <1>5, Sizes DEF HostOK, Session
    <3> HIDE DEF b, c
    <3>2. Off(b) \in Nat /\ Off(c) \in Nat /\ Off(b) <= Off(c)
      BY <3>1, Offsets
    <3>3. Upto(b, size) \in Nat /\ Upto(c, size) \in Nat /\ Upto(b, size) <= Upto(c, size)
      BY <1>2, <3>2 DEF Upto
    <3>4. Len(host[t].got) = Upto(b, size) /\ Len(h.got) = Upto(c, size)
      BY <3>1, <3>3, Initials
    <3>5. Len(h.got) >= Len(host[t].got)
      BY <3>3, <3>4
    <3> QED BY <1>3, <1>5, <2>2, <3>1, <3>5 DEF b, c
  <2> QED BY <2>1, <2>2
<1>6. WireInv'
  <2>1. net' \subseteq Datagram
    BY <1>2 DEF WireInv
  <2>2. \A m \in net' : MsgOK(m)'
    <3> TAKE m \in net'
    <3>1. CASE m \in out
      BY <3>1
    <3>2. CASE m \in net
      <4>1. m \in Datagram /\ MsgOK(m)
        BY <1>2, <3>2 DEF WireInv
      <4>2. m.op = "ACK" /\ m.to = "board" => host'[m.tid].blk >= m.block
        <5> SUFFICES ASSUME m.op = "ACK", m.to = "board"
                     PROVE  host'[m.tid].blk >= m.block
          OBVIOUS
        <5>1. mode = "write" /\ m.tid \in Tids /\ host[m.tid].blk >= m.block
          BY <4>1 DEF MsgOK
        <5>2. m.block \in Nat
          BY <4>1, Sizes DEF Datagram
        <5> QED BY <1>5, <5>1, <5>2
      <4> QED BY <1>1, <4>1, <4>2 DEF MsgOK
    <3> QED BY <3>1, <3>2
  <2>3. \A u \in Tids : HostOK(host[u])'
    BY <1>1, <1>4 DEF HostOK
  <2> QED BY <1>3, <2>1, <2>2, <2>3 DEF WireInv
<1>7. SapInv' /\ buf' \in [Indices -> Buffer] /\ StoredInv' /\ BlockInv'
  BY <1>1 DEF IInv, SapInv, StoredInv, BlockInv
<1>8. RingInv'
  <2> SUFFICES ASSUME mode = "byte"
               PROVE  /\ Ring(buf, sap.read_idx, sap.write_idx, sap.block_number)'
                      /\ Reader(buf, sap.read_idx, sap.write_idx, sap.block_number,
                                sap.bytes_left, Len(stored))'
    BY <1>1 DEF RingInv
  <2> QED BY <1>1 DEF IInv, RingInv, Ring, Reader
<1>9. WriteInv'
  <2> SUFFICES ASSUME mode = "write" PROVE WriteInv'
    BY <1>1 DEF WriteInv
  <2>1. sap.bytes_left < size =>
          \E u \in Tids : Len(host'[u].got) >= size - sap.bytes_left
    <3> SUFFICES ASSUME sap.bytes_left < size
                 PROVE  \E u \in Tids : Len(host'[u].got) >= size - sap.bytes_left
      OBVIOUS
    <3>1. PICK u \in Tids : Len(host[u].got) >= size - sap.bytes_left
      BY DEF IInv, WriteInv
    <3>2. sap.bytes_left \in Nat /\ host[u].got \in Seq(Nat) /\ host'[u].got \in Seq(Nat)
      BY <1>2, <1>4 DEF SapInv, Sap, HostOK, Session
    <3>3. Len(host[u].got) \in Nat /\ Len(host'[u].got) \in Nat
      BY <3>2
    <3>4. Len(host'[u].got) >= Len(host[u].got)
      BY <1>5
    <3> QED BY <1>2, <3>1, <3>2, <3>3, <3>4
  <2>2. sap.state = "LAST_BLOCK_WRITE" =>
          \E u \in Tids : host'[u].st = "done" /\ host'[u].got = Initial(size)
    BY <1>5 DEF IInv, WriteInv
  <2> QED BY <1>1, <2>1, <2>2 DEF IInv, WriteInv
<1> QED BY <1>1, <1>6, <1>7, <1>8, <1>9, Running DEF IInv

\* What a session of the host sends says the truth of it.
LEMMA HostMessages ==
  ASSUME TransferAssumption, size \in Nat, UNCHANGED <<mode, size>>,
         NEW t \in Tids, NEW h, HostOK(h), h.st = "sending" \/ mode = "write",
         host'[t].blk >= h.blk
  PROVE  HostMsg(t, h) \in Datagram /\ \A x : x = HostMsg(t, h) => MsgOK(x)'
<1>1. h \in Session /\ h.blk \in 0 .. MaxBlock + 1 /\ <<>> \in Seq(Nat)
  BY NoTransfer DEF HostOK, Session
<1>2. CASE h.st = "sending"
  <2>1. /\ mode # "write" /\ h.blk # 0 /\ h.blk \in Nat /\ Off(h.blk - 1) <= size
    BY <1>1, <1>2, Sizes DEF HostOK
  <2>2. Block(h.blk) = Piece(h.blk, size) /\ Piece(h.blk, size) \in Seq(Nat)
    BY <2>1, Blocks, Pieces
  <2>3. Wire(h.blk) \in 0 .. MaxBlock /\ (Wire(h.blk) # 0 => Wire(h.blk) = h.blk)
    <3>1. h.blk \in 0 .. MaxBlock \/ h.blk = MaxBlock + 1
      BY <1>1, Sizes
    <3>2. 0 \in 0 .. MaxBlock
      BY Sizes
    <3> QED BY <3>1, <3>2, Wires
  <2> DEFINE k == Wire(h.blk)
             d == Piece(h.blk, size)
  <2>4. HostMsg(t, h) = [to |-> "board", tid |-> t, op |-> "DATA", block |-> k, data |-> d]
    BY <1>2, <2>2 DEF HostMsg, ToBoard
  <2>5. k \in 0 .. MaxBlock /\ d \in Seq(Nat) /\ (k # 0 => k = h.blk)
    BY <2>2, <2>3
  <2>6. k # 0 => Off(k - 1) <= size /\ d = Piece(k, size)
    BY <2>1, <2>5
  <2> HIDE DEF k, d
  <2>7. HostMsg(t, h) \in Datagram
    BY <2>4, <2>5 DEF Datagram, Ops
  <2>8. \A x : x = HostMsg(t, h) => MsgOK(x)'
    BY <2>1, <2>4, <2>6 DEF MsgOK
  <2> QED BY <2>7, <2>8
<1>3. CASE h.st # "sending"
  <2>1. mode = "write" /\ h.blk \in 0 .. MaxBlock /\ Wire(h.blk) = h.blk /\ h.blk \in Nat
    <3>1. mode = "write" /\ h.blk <= MaxBlock
      BY <1>3 DEF HostOK
    <3>2. h.blk \in 0 .. MaxBlock
      BY <1>1, <3>1, Sizes
    <3> QED BY <3>1, <3>2, Wires
  <2>2. HostMsg(t, h) = [to |-> "board", tid |-> t, op |-> "ACK", block |-> h.blk,
                         data |-> <<>>]
    BY <1>3, <2>1 DEF HostMsg, ToBoard
  <2>3. HostMsg(t, h) \in Datagram
    BY <1>1, <2>1, <2>2 DEF Datagram, Ops
  <2>4. \A x : x = HostMsg(t, h) => MsgOK(x)'
    BY <1>1, <2>1, <2>2 DEF MsgOK
  <2> QED BY <2>3, <2>4
<1> QED BY <1>2, <1>3

LEMMA Sessions ==
  ASSUME TransferAssumption, NEW h \in Session
  PROVE  /\ h.blk \in Nat /\ h.blk \in 0 .. MaxBlock + 1
         /\ \A st \in {"done", "gone"} :
              /\ [h EXCEPT !.st = st] \in Session
              /\ [h EXCEPT !.st = st].st = st
              /\ [h EXCEPT !.st = st].blk = h.blk
              /\ [h EXCEPT !.st = st].got = h.got
<1>1. h.blk \in 0 .. MaxBlock + 1
  BY DEF Session
<1>2. h.blk \in Nat
  BY <1>1, Sizes
<1>3. \A st \in {"done", "gone"} :
        /\ [h EXCEPT !.st = st] \in Session
        /\ [h EXCEPT !.st = st].st = st
        /\ [h EXCEPT !.st = st].blk = h.blk
        /\ [h EXCEPT !.st = st].got = h.got
  BY DEF Session
<1> QED BY <1>1, <1>2, <1>3

LEMMA Errors ==
  ASSUME TransferAssumption, NEW t \in Tids
  PROVE  \A y \in {ToBoard(t, "ERROR", 0, <<>>)} : y \in Datagram /\ MsgOK(y)'
<1> SUFFICES ASSUME NEW y, y = ToBoard(t, "ERROR", 0, <<>>)
             PROVE  y \in Datagram /\ MsgOK(y)'
  OBVIOUS
<1>1. y = [to |-> "board", tid |-> t, op |-> "ERROR", block |-> 0, data |-> <<>>]
  BY DEF ToBoard
<1>2. 0 \in 0 .. MaxBlock /\ <<>> \in Seq(Nat) /\ t \in Tids \cup {0}
  BY NoTransfer, Sizes
<1>3. ToBoard(t, "ERROR", 0, <<>>) \in Datagram
  BY <1>2 DEF ToBoard, Datagram, Ops
<1>4. MsgOK(y)'
  BY <1>1 DEF MsgOK
<1> QED BY <1>3, <1>4

LEMMA HostAcceptStep ==
  ASSUME TransferAssumption, IInv, phase # "idle", HostAccept
  PROVE  IInv'
<1>1. PICK m \in net, t \in Tids :
        /\ m.op \in {"RRQ", "WRQ"} /\ host[t].st = "none"
        /\ LET h == [st |-> IF m.op = "RRQ" THEN "sending" ELSE "receiving",
                     blk |-> IF m.op = "RRQ" THEN 1 ELSE 0,
                     left |-> HostRetry, got |-> <<>>]
           IN  \/ HostIs(t, h) /\ Deliver(m, {HostMsg(t, h)})
               \/ /\ HostIs(t, [h EXCEPT !.st = "gone"])
                  /\ Deliver(m, {ToBoard(t, "ERROR", 0, <<>>)})
  BY DEF HostAccept
<1> DEFINE h == [st |-> IF m.op = "RRQ" THEN "sending" ELSE "receiving",
                 blk |-> IF m.op = "RRQ" THEN 1 ELSE 0,
                 left |-> HostRetry, got |-> <<>>]
           g == [h EXCEPT !.st = "gone"]
<1>2. /\ size \in Nat /\ m \in Datagram /\ MsgOK(m) /\ HostOK(host[t])
      /\ DOMAIN host = Tids
      /\ m.op = "RRQ" <=> mode # "write"
  BY <1>1 DEF IInv, SapInv, WireInv, MsgOK
<1>3. /\ host[t].blk = 0
      /\ mode = "write" => host[t].got = <<>>
  BY <1>1, <1>2, NoTransfer DEF HostOK
<1>4. /\ h \in Session /\ g \in Session
      /\ g.blk = h.blk /\ g.got = <<>> /\ g.st = "gone"
      /\ h.got = <<>>
      /\ mode = "write" => h.blk = 0 /\ h.st = "receiving"
      /\ mode # "write" => h.blk = 1 /\ h.st = "sending"
  <2>1. /\ h.st = IF m.op = "RRQ" THEN "sending" ELSE "receiving"
        /\ h.blk = (IF m.op = "RRQ" THEN 1 ELSE 0) /\ h.got = <<>>
    OBVIOUS
  <2>2. h \in Session
    <3>1. (IF m.op = "RRQ" THEN 1 ELSE 0) \in 0 .. MaxBlock + 1
      BY Sizes
    <3>2. HostRetry \in Nat /\ <<>> \in Seq(Nat)
      BY NoTransfer, Sizes
    <3> QED BY <3>1, <3>2 DEF Session
  <2> HIDE DEF h
  <2>3. g \in Session /\ g.blk = h.blk /\ g.got = h.got /\ g.st = "gone"
    BY <2>2, Sessions
  <2> HIDE DEF g
  <2> QED BY <1>2, <2>1, <2>2, <2>3
<1>5. HostOK(h) /\ HostOK(g)
  <2> HIDE DEF h, g
  <2>1. CASE mode = "write"
    BY <1>2, <1>4, <2>1, NoTransfer, Sizes DEF HostOK
  <2>2. CASE mode # "write"
    <3>1. Off(h.blk - 1) <= size /\ h.blk # 0
      <4>1. h.blk - 1 = 0 /\ h.blk # 0
        BY <1>4, <2>2
      <4> QED BY <1>2, <4>1, Offsets
    <3> QED BY <1>4, <2>2, <3>1 DEF HostOK
  <2> QED BY <2>1, <2>2
<1>6. mode = "write" => /\ h.blk >= host[t].blk /\ g.blk >= host[t].blk
                        /\ host[t].st # "done"
  <2> HIDE DEF h, g
  <2> QED BY <1>1, <1>3, <1>4
<1>7. CASE HostIs(t, h) /\ Deliver(m, {HostMsg(t, h)})
  <2> HIDE DEF h, g
  <2> DEFINE x == HostMsg(t, h)
             out == {x}
  <2>1. /\ host' = [host EXCEPT ![t] = h] /\ UNCHANGED <<caller, sap, buf, stored, acked>>
        /\ net' \subseteq net \cup out
    BY <1>7 DEF HostIs, Deliver
  <2>2. UNCHANGED <<mode, size>> /\ host'[t].blk >= h.blk /\ (h.st = "sending" \/ mode = "write")
    <3>1. host'[t] = h
      BY <1>2, <2>1
    <3>2. h.blk \in Nat
      BY <1>4, Sessions
    <3> QED BY <1>4, <2>1, <3>1, <3>2 DEF caller
  <2>3. HostMsg(t, h) \in Datagram /\ \A y : y = HostMsg(t, h) => MsgOK(y)'
    BY <1>2, <1>5, <2>2, HostMessages
  <2>4. \A y \in out : y \in Datagram /\ MsgOK(y)'
    BY <2>3
  <2> HIDE DEF out
  <2> QED BY <1>5, <1>6, <2>1, <2>4, HostStep
<1>8. CASE HostIs(t, g) /\ Deliver(m, {ToBoard(t, "ERROR", 0, <<>>)})
  <2> HIDE DEF h, g
  <2> DEFINE out == {ToBoard(t, "ERROR", 0, <<>>)}
  <2>1. /\ host' = [host EXCEPT ![t] = g] /\ UNCHANGED <<caller, sap, buf, stored, acked>>
        /\ net' \subseteq net \cup out
    BY <1>8 DEF HostIs, Deliver
  <2>2. \A y \in out : y \in Datagram /\ MsgOK(y)'
    BY Errors
  <2> HIDE DEF out
  <2> QED BY <1>5, <1>6, <2>1, <2>2, HostStep
<1> QED BY <1>1, <1>7, <1>8

LEMMA HostTimeoutStep ==
  ASSUME TransferAssumption, IInv, phase # "idle", HostTimeout
  PROVE  IInv'
<1>1. PICK t \in Tids :
        /\ host[t].st \in {"sending", "receiving"} /\ host[t].left > 0
        /\ HostIs(t, [host[t] EXCEPT !.left = @ - 1])
        /\ net' = net \cup {HostMsg(t, host[t])}
  BY DEF HostTimeout
<1> DEFINE h == host[t]
           n == h.left - 1
           g == [h EXCEPT !.left = n]
           out == {HostMsg(t, h)}
<1>2. size \in Nat /\ HostOK(h) /\ DOMAIN host = Tids /\ h \in Session
  BY DEF IInv, SapInv, WireInv, HostOK
<1>3. n \in Nat
  BY <1>1, <1>2 DEF Session
<1>4. /\ host' = [host EXCEPT ![t] = g] /\ UNCHANGED <<caller, sap, buf, stored, acked>>
      /\ net' \subseteq net \cup out /\ UNCHANGED <<mode, size>>
  BY <1>1 DEF HostIs, caller
<1> HIDE DEF n
<1>5. /\ g \in Session /\ g.st = h.st /\ g.blk = h.blk /\ g.got = h.got
      /\ h.blk \in Nat
  <2> HIDE DEF h
  <2>1. h.blk \in Nat
    BY <1>2, Sessions
  <2> QED BY <1>2, <1>3, <2>1 DEF Session
<1> HIDE DEF g
<1>6. HostOK(g)
  <2> HIDE DEF h
  <2> QED BY <1>2, <1>5 DEF HostOK
<1>7. \A y \in out : y \in Datagram /\ MsgOK(y)'
  <2>1. h.st = "sending" \/ mode = "write"
    BY <1>1, <1>2 DEF HostOK
  <2>2. host'[t].blk >= h.blk
    <3>1. host'[t] = g
      BY <1>2, <1>4
    <3> QED BY <1>5, <3>1
  <2> HIDE DEF h
  <2>3. HostMsg(t, h) \in Datagram /\ \A y : y = HostMsg(t, h) => MsgOK(y)'
    BY <1>2, <1>4, <2>1, <2>2, HostMessages
  <2> QED BY <2>3
<1>8. /\ g.blk >= host[t].blk
      /\ host[t].st = "done" => g.st = "done" /\ g.got = host[t].got
  BY <1>5
<1> HIDE DEF out, h
<1> QED BY <1>4, <1>6, <1>7, <1>8, HostStep

LEMMA HostGivesUpStep ==
  ASSUME TransferAssumption, IInv, phase # "idle", HostGivesUp
  PROVE  IInv'
<1>1. PICK t \in Tids :
        /\ host[t].st \in {"sending", "receiving"}
        /\ HostIs(t, [host[t] EXCEPT !.st = "gone"])
        /\ net' = net \cup (IF HostErrors /\ ~patient THEN {ToBoard(t, "ERROR", 0, <<>>)}
                            ELSE {})
  BY DEF HostGivesUp
<1> DEFINE h == host[t]
           g == [h EXCEPT !.st = "gone"]
           out == {ToBoard(t, "ERROR", 0, <<>>)}
<1>2. size \in Nat /\ HostOK(h) /\ h \in Session
  BY DEF IInv, SapInv, WireInv, HostOK
<1>3. /\ host' = [host EXCEPT ![t] = g] /\ UNCHANGED <<caller, sap, buf, stored, acked>>
      /\ net' \subseteq net \cup out
  BY <1>1 DEF HostIs
<1>4. /\ g \in Session /\ g.st = "gone" /\ g.blk = h.blk /\ g.got = h.got
      /\ h.blk \in Nat
  <2> HIDE DEF h
  <2> QED BY <1>2, Sessions
<1> HIDE DEF g
<1>5. HostOK(g)
  <2>1. mode = "write" => /\ h.blk <= MaxBlock /\ h.got = Initial(Upto(h.blk, size))
                          /\ ~ (Off(h.blk) > size)
    BY <1>1, <1>2 DEF HostOK
  <2> HIDE DEF h
  <2> QED BY <1>4, <2>1 DEF HostOK
<1>6. \A y \in out : y \in Datagram /\ MsgOK(y)'
  BY Errors
<1>7. g.blk >= host[t].blk /\ host[t].st # "done"
  BY <1>1, <1>4
<1> HIDE DEF out, h
<1> QED BY <1>3, <1>5, <1>6, <1>7, HostStep

LEMMA HostReceiveStep ==
  ASSUME TransferAssumption, IInv, phase # "idle", HostReceive
  PROVE  IInv'
<1>1. PICK m \in net :
        /\ m.to = "host" /\ m.tid \in Tids
        /\ LET t == m.tid
               h == host[t]
               next == [h EXCEPT !.blk = @ + 1, !.left = HostRetry]
           IN  \/ /\ m.op = "ACK" /\ h.st = "sending" /\ m.block = Wire(h.blk)
                  /\ IF Len(Block(h.blk)) < BlockSize
                     THEN HostIs(t, [h EXCEPT !.st = "done"]) /\ Deliver(m, {})
                     ELSE HostIs(t, next) /\ Deliver(m, {HostMsg(t, next)})
               \/ /\ m.op = "DATA" /\ h.st = "receiving"
                  /\ m.block = Wire(h.blk + 1)
                  /\ LET g == [next EXCEPT !.got = @ \o m.data,
                                 !.st = IF Len(m.data) < BlockSize
                                        THEN "done" ELSE @]
                     IN  HostIs(t, g) /\ Deliver(m, {HostMsg(t, g)})
               \/ /\ m.op = "DATA" /\ h.st \in {"receiving", "done"}
                  /\ h.blk > 0 /\ m.block = Wire(h.blk)
                  /\ HostIs(t, h) /\ Deliver(m, {HostMsg(t, h)})
               \/ /\ m.op = "ERROR"
                  /\ HostIs(t, [h EXCEPT !.st = IF @ = "done" THEN @ ELSE "gone"])
                  /\ Deliver(m, {})
  BY DEF HostReceive
<1> DEFINE t == m.tid
           h == host[t]
           b == h.blk
           next == [h EXCEPT !.blk = @ + 1, !.left = HostRetry]
<1>2. /\ size \in Nat /\ m \in Datagram /\ MsgOK(m) /\ t \in Tids /\ m.to = "host"
      /\ DOMAIN host = Tids /\ HostOK(h) /\ h \in Session
  BY <1>1 DEF IInv, SapInv, WireInv, HostOK
<1>3. b \in Nat /\ b \in 0 .. MaxBlock + 1
  <2> HIDE DEF h
  <2> QED BY <1>2, Sessions
\* Every case leaves the session in a sound state and sends its message.
<1>4. ASSUME NEW g, HostOK(g), HostIs(t, g),
             mode = "write" => /\ g.blk >= b
                               /\ h.st = "done" => g.st = "done" /\ g.got = h.got,
             \/ Deliver(m, {})
             \/ Deliver(m, {HostMsg(t, g)}) /\ (g.st = "sending" \/ mode = "write")
      PROVE  IInv'
  <2>1. /\ host' = [host EXCEPT ![t] = g] /\ UNCHANGED <<caller, sap, buf, stored, acked>>
        /\ UNCHANGED <<mode, size>>
    BY <1>4 DEF HostIs, caller
  <2>2. CASE Deliver(m, {})
    <3> DEFINE out == {}
    <3>1. net' \subseteq net \cup out /\ \A y \in out : y \in Datagram /\ MsgOK(y)'
      BY <2>2 DEF Deliver
    <3> HIDE DEF out
    <3> QED BY <1>2, <1>4, <2>1, <3>1, HostStep
  <2>3. CASE Deliver(m, {HostMsg(t, g)}) /\ (g.st = "sending" \/ mode = "write")
    <3> DEFINE out == {HostMsg(t, g)}
    <3>1. host'[t].blk >= g.blk
      <4>1. host'[t] = g /\ g \in Session
        BY <1>2, <1>4, <2>1 DEF HostOK
      <4>2. g.blk \in Nat
        BY <4>1, Sessions
      <4> QED BY <4>1, <4>2
    <3>2. HostMsg(t, g) \in Datagram /\ \A y : y = HostMsg(t, g) => MsgOK(y)'
      <4> HIDE DEF t
      <4> QED BY <1>2, <1>4, <2>1, <2>3, <3>1, HostMessages
    <3>3. net' \subseteq net \cup out /\ \A y \in out : y \in Datagram /\ MsgOK(y)'
      BY <2>3, <3>2 DEF Deliver
    <3> HIDE DEF out
    <3> QED BY <1>2, <1>4, <2>1, <3>3, HostStep
  <2> QED BY <1>4, <2>2, <2>3
\* An ACK of the block a sending session is at.
<1>5. CASE /\ m.op = "ACK" /\ h.st = "sending" /\ m.block = Wire(b)
           /\ IF Len(Block(b)) < BlockSize
              THEN HostIs(t, [h EXCEPT !.st = "done"]) /\ Deliver(m, {})
              ELSE HostIs(t, next) /\ Deliver(m, {HostMsg(t, next)})
  <2>1. mode # "write" /\ b # 0 /\ Off(b - 1) <= size /\ m.block # 0
    BY <1>2, <1>5 DEF HostOK, MsgOK
  <2>2. b \in 0 .. MaxBlock /\ b + 1 \in 0 .. MaxBlock + 1
    <3>1. b # MaxBlock + 1
      BY <1>5, <2>1, Wires
    <3> HIDE DEF b
    <3> QED BY <1>3, <3>1, Sizes
  <2>3. CASE Len(Block(b)) < BlockSize
    <3> DEFINE g == [h EXCEPT !.st = "done"]
    <3>1. g \in Session /\ g.st = "done" /\ g.blk = b
      <4> HIDE DEF h
      <4> QED BY <1>2, Sessions
    <3>2. HostIs(t, g) /\ Deliver(m, {})
      BY <1>5, <2>3
    <3> HIDE DEF g
    <3>3. HostOK(g)
      BY <2>1, <3>1 DEF HostOK
    <3> HIDE DEF t, h, b
    <3> QED BY <1>4, <2>1, <3>2, <3>3
  <2>4. CASE ~(Len(Block(b)) < BlockSize)
    <3>1. /\ next \in Session /\ next.st = "sending" /\ next.blk = b + 1
      <4> HIDE DEF h
      <4> QED BY <1>2, <1>3, <1>5, <2>2, Sizes DEF Session
    <3>2. HostIs(t, next) /\ Deliver(m, {HostMsg(t, next)})
      BY <1>5, <2>4
    <3> HIDE DEF next
    <3>3. Block(b) = Piece(b, size) /\ (Len(Piece(b, size)) < BlockSize <=> Off(b) > size)
      <4> HIDE DEF b
      <4> QED BY <1>2, <1>3, <2>1, Blocks, Pieces
    <3>4. Off(b) <= size
      BY <1>2, <1>3, <2>4, <3>3, Offsets
    <3>5. (b + 1) - 1 = b /\ b + 1 # 0
      BY <1>3
    <3>6. HostOK(next)
      BY <2>1, <3>1, <3>4, <3>5 DEF HostOK
    <3> HIDE DEF t, h, b
    <3> QED BY <1>4, <2>1, <3>1, <3>2, <3>6
  <2> QED BY <2>3, <2>4
\* The block a receiving session waits for.
<1>6. CASE /\ m.op = "DATA" /\ h.st = "receiving" /\ m.block = Wire(b + 1)
           /\ LET g == [next EXCEPT !.got = @ \o m.data,
                          !.st = IF Len(m.data) < BlockSize THEN "done" ELSE @]
              IN  HostIs(t, g) /\ Deliver(m, {HostMsg(t, g)})
  <2> DEFINE k == b + 1
             d == m.data
             st == IF Len(d) < BlockSize THEN "done" ELSE "receiving"
             got == h.got \o d
             g == [next EXCEPT !.got = @ \o d, !.st = IF Len(d) < BlockSize THEN "done" ELSE @]
  <2>1. /\ mode = "write" /\ m.block # 0 /\ b <= MaxBlock /\ h.got = Initial(Upto(b, size))
        /\ d = Piece(m.block, size) /\ Off(m.block - 1) <= size /\ d \in Seq(Nat)
    BY <1>2, <1>6 DEF MsgOK, HostOK, Datagram
  <2>2. k \in 0 .. MaxBlock /\ m.block = k /\ k \in Nat /\ k # 0 /\ k - 1 = b
    <3> HIDE DEF b
    <3>1. b # MaxBlock
      BY <1>6, <2>1, Wires
    <3>2. b + 1 \in 0 .. MaxBlock
      BY <1>3, <2>1, <3>1, Sizes
    <3>3. Wire(b + 1) = b + 1
      BY <3>2, Wires
    <3>4. b + 1 \in Nat /\ b + 1 # 0 /\ (b + 1) - 1 = b
      BY <1>3
    <3> QED BY <1>6, <3>2, <3>3, <3>4
  <2>3. Off(b) <= size /\ d = Piece(k, size)
    BY <2>1, <2>2
  <2> HIDE DEF k
  <2>4. /\ Upto(b, size) = Off(b) /\ Upto(k, size) \in Nat
        /\ Len(d) < BlockSize <=> Off(k) > size
        /\ Initial(Off(b)) \o d = Initial(Upto(k, size))
    <3>1. /\ Upto(k - 1, size) = Off(k - 1) /\ Upto(k, size) \in Nat
          /\ Len(Piece(k, size)) < BlockSize <=> Off(k) > size
      BY <1>2, <2>2, <2>3, Pieces
    <3>2. Initial(Off(k - 1)) \o Piece(k, size) = Initial(Upto(k, size))
      BY <1>2, <2>2, <2>3, NextPiece
    <3> HIDE DEF b, d
    <3> QED BY <2>2, <2>3, <3>1, <3>2
  <2>5. got = Initial(Upto(k, size)) /\ got \in Seq(Nat)
    <3>1. got = Initial(Upto(k, size))
      BY <2>1, <2>4
    <3> QED BY <2>4, <3>1, Initials
  <2> HIDE DEF d
  <2>6. next = [h EXCEPT !.blk = k, !.left = HostRetry]
    BY DEF k
  <2>7. /\ g \in Session /\ g.st = st /\ g.blk = k /\ g.got = got
    <3>1. k \in 0 .. MaxBlock + 1 /\ HostRetry \in Nat
      BY <2>2, Sizes
    <3> DEFINE u == [h EXCEPT !.blk = k, !.left = HostRetry]
    <3>2. u.got = h.got /\ u.st = "receiving"
      <4> HIDE DEF h
      <4> QED BY <1>2, <1>6 DEF Session
    <3>3. g = [h EXCEPT !.blk = k, !.left = HostRetry, !.got = got, !.st = st]
      <4>1. next = u
        BY <2>6
      <4> HIDE DEF next, u
      <4>2. g = [u EXCEPT !.got = got, !.st = st]
        BY <3>2, <4>1
      <4> HIDE DEF h, got, st
      <4> QED BY <4>2 DEF u
    <3>4. st \in {"done", "receiving"}
      OBVIOUS
    <3> HIDE DEF h, g, got, st, u
    <3> QED BY <1>2, <2>5, <3>1, <3>3, <3>4 DEF Session
  <2>8. HostIs(t, g) /\ Deliver(m, {HostMsg(t, g)})
    BY <1>6 DEF d
  <2> HIDE DEF g, next, got
  <2>9. HostOK(g)
    <3>1. k <= MaxBlock
      BY <2>2, Sizes
    <3> QED BY <2>1, <2>4, <2>5, <2>7, <3>1 DEF HostOK
  <2>10. g.blk >= b /\ h.st # "done"
    <3>1. b + 1 >= b
      BY <1>3
    <3>2. g.blk = b + 1
      BY <2>7 DEF k
    <3> QED BY <1>6, <3>1, <3>2
  <2> HIDE DEF t, h, b
  <2> QED BY <1>4, <2>1, <2>8, <2>9, <2>10
\* Again the block it has received last.
<1>7. CASE /\ m.op = "DATA" /\ h.st \in {"receiving", "done"}
           /\ HostIs(t, h) /\ Deliver(m, {HostMsg(t, h)})
  <2>1. mode = "write"
    BY <1>2, <1>7 DEF MsgOK
  <2>2. b >= b
    BY <1>3
  <2> HIDE DEF t
  <2> QED BY <1>2, <1>4, <1>7, <2>1, <2>2
<1>8. CASE /\ m.op = "ERROR"
           /\ HostIs(t, [h EXCEPT !.st = IF @ = "done" THEN @ ELSE "gone"])
           /\ Deliver(m, {})
  <2> DEFINE st == IF h.st = "done" THEN "done" ELSE "gone"
             g == [h EXCEPT !.st = st]
  <2>1. HostIs(t, g) /\ Deliver(m, {})
    <3>1. [h EXCEPT !.st = IF @ = "done" THEN @ ELSE "gone"] = g
      OBVIOUS
    <3> QED BY <1>8, <3>1
  <2>2. st \in {"done", "gone"} /\ (h.st = "done" => st = "done")
        /\ (h.st # "done" => st = "gone")
    OBVIOUS
  <2> HIDE DEF st
  <2>3. g \in Session /\ g.st = st /\ g.blk = b /\ g.got = h.got
    <3> HIDE DEF h
    <3> QED BY <1>2, <2>2, Sessions
  <2> HIDE DEF g
  <2>4. HostOK(g)
    <3>1. mode = "write" => /\ b <= MaxBlock /\ h.got = Initial(Upto(b, size))
                            /\ Off(b) > size => h.st = "done"
      BY <1>2 DEF HostOK
    <3> QED BY <2>2, <2>3, <3>1 DEF HostOK
  <2>5. g.blk >= b
    BY <1>3, <2>3
  <2> HIDE DEF t
  <2> QED BY <1>4, <2>1, <2>2, <2>3, <2>4, <2>5
<1> QED BY <1>1, <1>5, <1>6, <1>7, <1>8

-----------------------------------------------------------------------------
(* The invariant, and what follows from it *)

LEMMA NextIInv ==
  ASSUME TransferAssumption, IInv, [TransferNext]_transfervars
  PROVE  IInv'
<1>1. CASE Start
  BY <1>1, StartStep
<1>2. CASE FileLoop
  BY <1>2, FileLoopStep
<1>3. CASE Opened
  BY <1>3, OpenedStep
<1>4. CASE UserBreak
  BY <1>4, UserBreakStep
<1>5. CASE ReadNext
  BY <1>5, ReadNextStep
<1>6. CASE ReadRefill
  BY <1>6, ReadRefillStep
<1>7. CASE Timeout
  BY <1>7, TimeoutStep
<1>8. CASE ReceiveAfterError
  BY <1>8, ReceiveAfterErrorStep
<1>9. CASE ReceiveUnknownTID
  BY <1>9, ReceiveUnknownTIDStep
<1>10. CASE ReceiveError
  BY <1>10, ReceiveErrorStep
<1>11. CASE ReceiveOutOfSequence
  BY <1>11, ReceiveOutOfSequenceStep
<1>12. CASE ReceiveDataBlock
  BY <1>12, ReceiveDataBlockStep
<1>13. CASE ReceiveDataByte
  BY <1>13, ReceiveDataByteStep
<1>14. CASE ReceiveAck
  BY <1>14, ReceiveAckStep
<1>15. CASE phase # "idle" /\ (Lose \/ HostIgnores)
  BY <1>15, OutsideIgnored
<1>16. CASE phase # "idle" /\ HostAccept
  BY <1>16, HostAcceptStep
<1>17. CASE phase # "idle" /\ HostReceive
  BY <1>17, HostReceiveStep
<1>18. CASE phase # "idle" /\ HostTimeout
  BY <1>18, HostTimeoutStep
<1>19. CASE phase # "idle" /\ HostGivesUp
  BY <1>19, HostGivesUpStep
<1>20. CASE UNCHANGED transfervars
  <2>1. UNCHANGED <<phase, mode, size, sap, buf, stored, result, acked, net, host>>
    BY <1>20 DEF transfervars
  <2>2. SapInv' /\ StoredInv' /\ BlockInv' /\ WriteInv' /\ buf' \in [Indices -> Buffer]
    BY <2>1 DEF IInv, SapInv, StoredInv, BlockInv, WriteInv
  <2>3. WireInv'
    BY <2>1, NothingSent DEF IInv
  <2>4. RingInv'
    BY <2>1 DEF IInv, RingInv, Ring, Reader
  <2>5. CompleteMeansAll' /\ ReportedIsTransferred'
    BY <2>1 DEF IInv, CompleteMeansAll, ReportedIsTransferred, Ended, File
  <2> QED BY <2>2, <2>3, <2>4, <2>5 DEF IInv
<1> QED BY <1>1, <1>2, <1>3, <1>4, <1>5, <1>6, <1>7, <1>8, <1>9, <1>10, <1>11, <1>12,
           <1>13, <1>14, <1>15, <1>16, <1>17, <1>18, <1>19, <1>20
        DEF TransferNext, Board, Outside

LEMMA Invariance ==
  ASSUME TransferAssumption
  PROVE  TransferSpec => []IInv
<1>1. TransferInit => IInv
  BY InitIInv
<1>2. IInv /\ [TransferNext]_transfervars => IInv'
  BY NextIInv
<1> QED BY <1>1, <1>2, PTL DEF TransferSpec

\* What a caller has been given, or has in flash, is the file from its start,
\* with nothing missing, repeated or out of order, and the size it is told is
\* that of this part: for files, blocks and buffers of every size, whatever is
\* lost, duplicated, repeated or refused.
THEOREM InOrder ==
  ASSUME TransferAssumption
  PROVE  TransferSpec => []ReadInOrder
<1>1. IInv => TransferTypeOK
  BY DEF IInv, SapInv, Sap, Buffer, Indices, TransferTypeOK
<1>2. IInv => StoredInOrder
  <2> SUFFICES ASSUME IInv, mode # "write" PROVE stored = SubSeq(File, 1, Len(stored))
    BY DEF StoredInOrder
  <2>1. /\ stored \in Seq(Nat) /\ Len(stored) <= size /\ stored = Initial(Len(stored))
        /\ size \in Nat
    BY DEF IInv, SapInv, StoredInv
  <2>2. Len(stored) \in 0 .. size
    BY <2>1
  <2>3. SubSeq(Initial(size), 1, Len(stored)) = Initial(Len(stored))
    BY <2>1, <2>2, FirstBytes
  <2> QED BY <2>1, <2>3 DEF File, Initial
<1>3. IInv => ReadInOrder
  BY <1>1, <1>2 DEF IInv, ReadInOrder
<1> QED BY <1>3, Invariance, PTL

\* A transfer reported as done is done: the whole file was read, or a session
\* of the host has all of it and knows that it has.
THEOREM DoneIsWhole ==
  ASSUME TransferAssumption
  PROVE  TransferSpec => []CompleteMeansAll
<1>1. IInv => CompleteMeansAll
  BY DEF IInv
<1> QED BY <1>1, Invariance, PTL

\* file_read does not end well before the last block has been acknowledged.
THEOREM AcknowledgedLast ==
  ASSUME TransferAssumption
  PROVE  TransferSpec => []LastBlockAcknowledged
<1>1. IInv => LastBlockAcknowledged
  BY DEF IInv, SapInv, BlockInv, LastBlockAcknowledged
<1> QED BY <1>1, Invariance, PTL
=============================================================================
