---------------------------- MODULE StompFrames -----------------------------
(***************************************************************************)
(* The text of STOMP frames: class Frame of stomp.js and the cutting of a  *)
(* frame into messages of the socket.  A text is a sequence of tokens: a   *)
(* line feed, a NUL, a character of a body, or a whole command or header   *)
(* line.  The text of a header line is a sequence of pieces: a colon, a    *)
(* blank, which stands for any white space, or a word of other characters. *)
(***************************************************************************)
EXTENDS Integers, Sequences, SequencesExt, FiniteSetsExt, Sorting

CONSTANT Utf8Size      \* the bytes of each character of a body

LF == [type |-> "LF"]
NULL == [type |-> "NULL"]
Char(c) == [type |-> "char", char |-> c]
CommandLine(c) == [type |-> "command", command |-> c]
Colon == [type |-> "colon"]
Blank == [type |-> "blank"]
Word(w) == [type |-> "word", word |-> w]
HeaderLine(n, v) == [type |-> "header", text |-> n \o <<Colon>> \o v]

ContentLength == <<Word("content-length")>>
LengthValue(n) == <<[type |-> "length", length |-> n]>>

Size(token) == IF token.type = "char" THEN Utf8Size[token.char] ELSE 1
SizeOfUTF8(body) == SumFunction([i \in DOMAIN body |-> Size(body[i])])

\* `headers` is a sequence of records, in the order the object was filled
Frame(command, headers, body) ==
    [command |-> command, headers |-> headers, body |-> body]

\* The lines of a frame: its command and its headers, the length last if there is one.
LinesOf(f, length) ==
    <<CommandLine(f.command)>>
        \o [i \in DOMAIN f.headers |-> HeaderLine(f.headers[i].name, f.headers[i].value)]
        \o (IF f.body = <<>> THEN <<>> ELSE <<HeaderLine(ContentLength, LengthValue(length))>>)

\* Each line with the line feed that ends it.
Ended(lines) ==
    [i \in 1 .. 2 * Len(lines) |-> IF i % 2 = 0 THEN LF ELSE lines[(i + 1) \div 2]]

\* Mutant: the length is that of the text in characters, one too few.
FrameToStringShort(f) == Ended(LinesOf(f, Len(f.body) - 1)) \o <<LF>> \o f.body

FrameToString(f) == Ended(LinesOf(f, SizeOfUTF8(f.body))) \o <<LF>> \o f.body

Marshall(f) == Append(FrameToString(f), NULL)

-----------------------------------------------------------------------------
(* Reading.                                                                *)

\* the first of two line feeds in a row: the end of the header lines
Divider(data) == CHOOSE i \in 1 .. Len(data) - 1 :
    /\ data[i] = LF /\ data[i + 1] = LF
    /\ \A j \in 1 .. i - 1 : ~ (data[j] = LF /\ data[j + 1] = LF)

\* Mutant: the ends of a text are taken as they are.
Untrimmed(text) == text

\* A text without the blanks at its ends.
Trim(text) ==
    LET kept == {i \in DOMAIN text : text[i] # Blank}
    IN  IF kept = {} THEN <<>> ELSE SubSeq(text, Min(kept), Max(kept))

\* Mutant: the last colon ends the name.
LastColon(text) == SelectLastInSeq(text, LAMBDA piece : piece = Colon)

\* Where the first colon is, or 0.
ColonAt(text) == SelectInSeq(text, LAMBDA piece : piece = Colon)

NameOf(line) == Trim(SubSeq(line.text, 1, ColonAt(line.text) - 1))
ValueOf(line) == Trim(SubSeq(line.text, ColonAt(line.text) + 1, Len(line.text)))

\* The lines are read backwards, so that of two headers with a name the first
\* one stays.
HeadersOf(lines) ==
    [n \in {NameOf(lines[i]) : i \in DOMAIN lines} |->
        ValueOf(lines[CHOOSE i \in DOMAIN lines : /\ NameOf(lines[i]) = n
                                                  /\ \A j \in 1 .. i - 1 : NameOf(lines[j]) # n])]

UnmarshallSingle(data) ==
    LET divider == Divider(data)
        lines == Chosen(data, {i \in 1 .. divider - 1 : data[i] # LF})
        headers == HeadersOf(Tail(lines))
        rest == SubSeq(data, divider + 2, Len(data))
        length == headers[ContentLength][1].length
        body == IF ContentLength \in DOMAIN headers
                THEN SubSeq(rest, 1, IF length < Len(rest) THEN length ELSE Len(rest))
                ELSE rest
    IN  [command |-> Head(lines).command, headers |-> headers, body |-> body]

\* Where the pieces of a text begin when it is split at every NUL and the line
\* feeds after it.
PieceStarts(data) ==
    {1} \cup {CHOOSE s \in i + 1 .. Len(data) + 1 :
                 /\ \A j \in i + 1 .. s - 1 : data[j] = LF
                 /\ s <= Len(data) => data[s] # LF
              : i \in {i \in 1 .. Len(data) : data[i] = NULL}}

PieceFrom(data, s) ==
    LET ends == {i \in s .. Len(data) : data[i] = NULL}
    IN  SubSeq(data, s, IF ends = {} THEN Len(data)
                        ELSE (CHOOSE i \in ends : \A j \in ends : i <= j) - 1)

Unmarshall(data) ==
    LET begins == {s \in PieceStarts(data) : PieceFrom(data, s) # <<>>}
        starts == Sorted(begins, [s \in begins |-> s])
    IN  [k \in DOMAIN starts |-> UnmarshallSingle(PieceFrom(data, starts[k]))]

-----------------------------------------------------------------------------
(* Sending: a text longer than a message may be is sent in pieces.         *)

\* Mutant: a text that just fits is cut off whole, and an empty one follows.
PiecesEager(out, max) ==
    [k \in 1 .. (Len(out) \div max) + 1 |->
        SubSeq(out, (k - 1) * max + 1, IF k * max < Len(out) THEN k * max ELSE Len(out))]

Transmitted(out, max) ==
    [k \in 1 .. (Len(out) + max - 1) \div max |->
        SubSeq(out, (k - 1) * max + 1, IF k * max < Len(out) THEN k * max ELSE Len(out))]
=============================================================================
