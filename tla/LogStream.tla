------------------------------ MODULE LogStream ------------------------------
(***************************************************************************)
(* One log statement: base::LogStream over a FixedBuffer, and the Logger   *)
(* that puts the time before what the application streams and the place    *)
(* after it (src/base/LogStream.{h,cc}, src/base/Logging.cc).              *)
(*                                                                         *)
(* A text is put if it fits; a number is formatted in place, and only      *)
(* while kMaxNumericSize bytes are left.  What does not fit is left out    *)
(* without a word, and a shorter piece after it may still be put.          *)
(***************************************************************************)
EXTENDS Integers, Sequences

CONSTANTS
    kSmallBuffer,       \* the size of data_ (4000 in the code)
    kMaxNumericSize,    \* what formatting a number may need (32)
    TextLengths,        \* the lengths of the texts an application puts
    Integers32,         \* the integers it puts
    DoubleLengths,      \* the lengths snprintf gives a double
    MaxPieces           \* how many pieces it puts

\* What an int holds.
Int32 == {v \in Int : -2147483647 - 1 <= v /\ v <= 2147483647}

\* A number needs less than kMaxNumericSize bytes: an int at most eleven
\* characters, a double what "%.12g" gives, and the '\0'.
ASSUME StreamAssumption ==
    /\ kSmallBuffer \in Nat /\ kMaxNumericSize \in Nat /\ MaxPieces \in Nat
    /\ kMaxNumericSize > 11
    /\ TextLengths \subseteq Nat
    /\ DoubleLengths \subseteq 1 .. kMaxNumericSize - 1
    /\ Integers32 \subseteq Int32

VARIABLES
    stream,     \* FixedBuffer: cur (cur_ - data_), pieces (what is before cur_),
                \* top (the end of what was ever written)
    given,      \* the pieces put so far
    statement   \* "begin", "open" or "output"

streamVars == <<stream, given, statement>>

-----------------------------------------------------------------------------
(* convert() *)

Minus == -1     \* the character '-', beside the digits 0 to 9

\* C's quotient rounds towards zero.
Tenth(v) == IF v < 0 /\ v % 10 # 0 THEN v \div 10 + 1 ELSE v \div 10
LastDigit(v) == v - 10 * Tenth(v)       \* the C remainder: negative if v is
Magnitude(d) == IF d < 0 THEN -d ELSE d \* zero[d]: the table runs both ways

\* The digits from the last to the first: do ... while (i != 0).
Reversed[v \in Int] ==
    <<Magnitude(LastDigit(v))>> \o (IF Tenth(v) = 0 THEN <<>> ELSE Reversed[Tenth(v)])

convert(v) ==
    LET p == Reversed[v] \o (IF v < 0 THEN <<Minus>> ELSE <<>>)
    IN  [i \in DOMAIN p |-> p[(Len(p) + 1) - i]]

-----------------------------------------------------------------------------
(* FixedBuffer; its append() is appendText here, beside that of Buffer. *)

Text(n) == [kind |-> "text", length |-> n]
Integer(v) == [kind |-> "integer", length |-> Len(convert(v)), value |-> v]
Double(n) == [kind |-> "double", length |-> n]

NewStream == [cur |-> 0, pieces |-> <<>>, top |-> 0]
avail(s) == kSmallBuffer - s.cur

\* The piece and, behind a number, the '\0' that ends it are written at cur_.
add(s, piece, bytes) ==
    [cur |-> s.cur + piece.length,
     pieces |-> Append(s.pieces, piece),
     top |-> IF s.cur + bytes > s.top THEN s.cur + bytes ELSE s.top]

appendText(s, piece) ==
    IF avail(s) > piece.length THEN add(s, piece, piece.length) ELSE s

\* Variant of format: a number is formatted wherever a byte is free.
formatUnchecked(s, piece) ==
    IF avail(s) > 0 THEN add(s, piece, piece.length + 1) ELSE s

\* formatInteger and operator<<(double).
format(s, piece) ==
    IF avail(s) >= kMaxNumericSize THEN add(s, piece, piece.length + 1) ELSE s

Put(s, piece) == IF piece.kind = "text" THEN appendText(s, piece) ELSE format(s, piece)

-----------------------------------------------------------------------------
(* Logger *)

StreamInit ==
    /\ stream = NewStream
    /\ given = <<>>
    /\ statement = "begin"

\* "%Y-%m-%d %H:%M:%S\n"
TimeLength == 20
\* " -- " and the file's name, ":", the line, '\n'
Place(file, line) == <<Text(4), Text(file), Text(1), Integer(line), Text(1)>>

\* Logger::Impl::Impl: formatTime.
formatTime ==
    /\ statement = "begin"
    /\ stream' = Put(NewStream, Text(TimeLength))
    /\ given' = <<Text(TimeLength)>>
    /\ statement' = "open"

\* What the application streams: texts ("(null)" for a null pointer, a bool,
\* a char), integers, floating-point numbers.
Pieces == {Text(n) : n \in TextLengths} \cup {Integer(v) : v \in Integers32}
            \cup {Double(n) : n \in DoubleLengths}

Stream ==
    /\ statement = "open"
    /\ Len(given) <= MaxPieces
    /\ \E piece \in Pieces :
        /\ stream' = Put(stream, piece)
        /\ given' = Append(given, piece)
    /\ UNCHANGED statement

\* Logger::~Logger: the place, then output() of what is in the buffer.
Output ==
    /\ statement = "open"
    /\ LET place == Place(8, 59)
           s1 == Put(stream, place[1])
           s2 == Put(s1, place[2])
           s3 == Put(s2, place[3])
           s4 == Put(s3, place[4])
       IN  /\ stream' = Put(s4, place[5])
           /\ given' = given \o place
    /\ statement' = "output"

StreamNext == formatTime \/ Stream \/ Output

StreamSpec == StreamInit /\ [][StreamNext]_streamVars

-----------------------------------------------------------------------------
LengthOf(pieces) ==
    LET Upto[i \in 0 .. Len(pieces)] ==
            IF i = 0 THEN 0 ELSE Upto[i - 1] + pieces[i].length
    IN  Upto[Len(pieces)]

\* The number that decimal digits stand for, never out of its range.
ValueOf(p) ==
    LET negative == p[1] = Minus
        From[i \in 0 .. Len(p)] ==
            IF i = 0 \/ (i = 1 /\ negative) THEN 0
            ELSE 10 * From[i - 1] + (IF negative THEN -p[i] ELSE p[i])
    IN  From[Len(p)]

\* No byte outside data_ was ever written.
NoOverrun == stream.top <= kSmallBuffer /\ stream.cur <= kSmallBuffer

\* A statement with kMaxNumericSize bytes to spare is put whole and in order.
NothingLost ==
    LengthOf(given) <= kSmallBuffer - kMaxNumericSize => stream.pieces = given

\* The digits of an integer are its value, without zeros before them.
NumbersRead ==
    \A i \in DOMAIN stream.pieces :
        LET piece == stream.pieces[i]
            p == convert(piece.value)
            first == IF piece.value < 0 THEN 2 ELSE 1
        IN  piece.kind = "integer" =>
                /\ ValueOf(p) = piece.value
                /\ p[first] = 0 => Len(p) = 1

(* Whatever is streamed, in whatever order, the buffer of a statement is   *)
(* not written past its end, not even by the '\0' behind a number; a       *)
(* statement that is short enough is put whole, with its time and its      *)
(* place; and every integer, the least one too, reads back: append,        *)
(* formatInteger and convert of LogStream.                                 *)
StatementsFit ==
    /\ NoOverrun
    /\ stream.cur = LengthOf(stream.pieces)
    /\ NothingLost
    /\ NumbersRead
=============================================================================
