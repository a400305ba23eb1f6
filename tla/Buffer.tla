-------------------------------- MODULE Buffer --------------------------------
(***************************************************************************)
(* net::Buffer: a vector with two indices,                                 *)
(*                                                                         *)
(*     | prependable |  readable  |  writable  |                           *)
(*     0      readerIndex_   writerIndex_    size()                        *)
(*                                                                         *)
(* The operations are operators on the record of the three members; each   *)
(* action applies one of them as a caller may, that is within the          *)
(* assertion that guards it.                                               *)
(***************************************************************************)
EXTENDS Integers, Sequences

CONSTANTS
    kCheapPrepend,
    kInitialSize,
    Byte,       \* values of a char
    Zero,       \* the char that resize() fills with
    Chunks,     \* the strings that callers append and prepend
    MaxSize     \* bound on the size of the vector

ASSUME SizesAssumption == kCheapPrepend \in Nat /\ kInitialSize \in Nat
ASSUME ByteAssumption == Zero \in Byte /\ Chunks \subseteq Seq(Byte)
ASSUME BoundsAssumption ==
    MaxSize \in Nat /\ kCheapPrepend + kInitialSize <= MaxSize

VARIABLE buf    \* [cells, size, reader, writer]: buffer_, readerIndex_, writerIndex_

------------------------------------------------------------------------------
(* The members of class Buffer.                                            *)

Members(cells, size, reader, writer) ==
    [cells |-> cells, size |-> size, reader |-> reader, writer |-> writer]

New(initialSize) ==
    Members([i \in 0 .. kCheapPrepend + initialSize - 1 |-> Zero],
            kCheapPrepend + initialSize, kCheapPrepend, kCheapPrepend)

readableBytes(b)    == b.writer - b.reader
writableBytes(b)    == b.size - b.writer
prependableBytes(b) == b.reader

\* What the caller can read from peek() on.
Readable(b) == [i \in 1 .. readableBytes(b) |-> b.cells[b.reader + i - 1]]

\* std::copy(d, d + len, begin() + at).
Copy(cells, d, at) ==
    [i \in DOMAIN cells |->
        IF i \in at .. at + Len(d) - 1 THEN d[i - at + 1] ELSE cells[i]]

\* buffer_.resize(n) for n no less than the size.
Resize(b, n) ==
    Members([i \in 0 .. n - 1 |-> IF i < b.size THEN b.cells[i] ELSE Zero],
            n, b.reader, b.writer)

\* Variant of MustGrow: forgets the space kept before the readable bytes.
MustGrowLate(b, len) == prependableBytes(b) + writableBytes(b) < len

\* makeSpace(len) moves the readable bytes to the front when that is enough.
MustGrow(b, len) == prependableBytes(b) + writableBytes(b) < len + kCheapPrepend

\* Variant of makeSpace: sets the indices but moves nothing.
makeSpaceUnmoved(b, len) ==
    IF MustGrow(b, len)
    THEN Resize(b, b.writer + len)
    ELSE Members(b.cells, b.size, kCheapPrepend, kCheapPrepend + readableBytes(b))

makeSpace(b, len) ==
    IF MustGrow(b, len)
    THEN Resize(b, b.writer + len)
    ELSE Members(Copy(b.cells, Readable(b), kCheapPrepend),
                 b.size, kCheapPrepend, kCheapPrepend + readableBytes(b))

ensureWritableBytes(b, len) == IF writableBytes(b) < len THEN makeSpace(b, len) ELSE b

hasWritten(b, len) == Members(b.cells, b.size, b.reader, b.writer + len)

\* The caller writes d at beginWrite().
Write(b, d) ==
    hasWritten(Members(Copy(b.cells, d, b.writer), b.size, b.reader, b.writer), Len(d))

append(b, d) == Write(ensureWritableBytes(b, Len(d)), d)

retrieveAll(b) == Members(b.cells, b.size, kCheapPrepend, kCheapPrepend)

\* retrieve(len), which retrieveUntil, retrieveAsString and readIntN call.
retrieve(b, len) ==
    IF len < readableBytes(b)
    THEN Members(b.cells, b.size, b.reader + len, b.writer)
    ELSE retrieveAll(b)

prepend(b, d) ==
    Members(Copy(b.cells, d, b.reader - Len(d)), b.size, b.reader - Len(d), b.writer)

\* Variant of shrink: the fresh buffer stays empty.
shrinkEmpty(b, reserve) ==
    ensureWritableBytes(New(kInitialSize), readableBytes(b) + reserve)

\* shrink(reserve) swaps with a fresh buffer.
shrink(b, reserve) ==
    append(ensureWritableBytes(New(kInitialSize), readableBytes(b) + reserve), Readable(b))

------------------------------------------------------------------------------
BufferInit == buf = New(kInitialSize)

Fits(b) == b.size <= MaxSize

AppendData == \E d \in Chunks : Fits(append(buf, d)) /\ buf' = append(buf, d)

EnsureWritable ==
    \E len \in 0 .. MaxSize :
        /\ Fits(ensureWritableBytes(buf, len))
        /\ buf' = ensureWritableBytes(buf, len)

\* assert(len <= writableBytes()) of hasWritten.
WriteDirectly ==
    \E d \in Chunks : Len(d) <= writableBytes(buf) /\ buf' = Write(buf, d)

\* assert(len <= readableBytes()) of retrieve.
Retrieve == \E len \in 0 .. MaxSize : len <= readableBytes(buf) /\ buf' = retrieve(buf, len)

\* assert(len <= prependableBytes()) of prepend.
Prepend == \E d \in Chunks : Len(d) <= prependableBytes(buf) /\ buf' = prepend(buf, d)

Shrink == \E reserve \in 0 .. MaxSize :
    Fits(shrink(buf, reserve)) /\ buf' = shrink(buf, reserve)

BufferNext == AppendData \/ EnsureWritable \/ WriteDirectly \/ Retrieve \/ Prepend \/ Shrink

BufferSpec == BufferInit /\ [][BufferNext]_buf

------------------------------------------------------------------------------
(* Properties.                                                             *)

\* The members have their types, and the indices are in the order of the
\* picture, inside the vector (Buffer.h:21-29, 82-93, 141-187, 268-308).
IsBuffer(b) ==
    /\ b.size \in Nat
    /\ b.cells \in [0 .. b.size - 1 -> Byte]
    /\ b.writer \in 0 .. b.size
    /\ b.reader \in 0 .. b.writer

TypeOK == IsBuffer(buf)

\* The assertions of makeSpace() hold for every length, also after prepend()
\* has used up the space before the reader index: it moves the bytes only to a
\* smaller index, and then there is enough room (Buffer.h:291-308).
MakeSpaceAsserts ==
    \A len \in 0 .. MaxSize :
        writableBytes(buf) < len =>
            /\ MustGrow(buf, len) \/ kCheapPrepend < buf.reader
            /\ len <= writableBytes(makeSpace(buf, len))

\* Making room keeps the contents: growing, moving to the front and shrinking
\* leave what can be read as it is (Buffer.h:158-165, 276-282, 291-308).
ContentsKept ==
    \A len \in 0 .. MaxSize :
        /\ Readable(ensureWritableBytes(buf, len)) = Readable(buf)
        /\ Readable(shrink(buf, len)) = Readable(buf)

\* The buffer is a queue of bytes: every operation adds to one end, takes from
\* the front or leaves the queue alone (Buffer.h:82-165, 268-308).
Contents == INSTANCE ByteQueue WITH bytes <- Readable(buf)
ImplementsByteQueue == Contents!Spec
=============================================================================
