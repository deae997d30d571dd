------------------------------ MODULE Records ------------------------------
(***************************************************************************)
(* The canonical framing of every signed document: a magic, then records   *)
(* with the tags 1, 2, 3, ... in order (crates/kapsel-authority/src/       *)
(* record.rs).                                                             *)
(*                                                                         *)
(* A document is a sequence of cells.  A cell is the tuple <<n>> for one   *)
(* byte, for one integer, or (n >= 256) for a word the code only ever      *)
(* compares whole: a magic, a purpose, a digest.  The 64 bytes of a        *)
(* signature are one cell, the triple <<key, purpose, statement>> of what  *)
(* it was made from; a SHA-256 digest is the pair of its name and the      *)
(* bytes it was taken of.  A record is a tag cell, a length cell, and as   *)
(* many cells as the length says; the four bytes of the length are one     *)
(* cell.                                                                   *)
(***************************************************************************)
EXTENDS Integers, Sequences, SequencesExt

Word(n) == <<256 + n>>

\* What a parser returns for bytes it refuses, and an encoder for values it
\* refuses.  Neither a document nor its list of values is ever empty.
Refused == <<>>

HeaderCells == 2

\* push, without its bound
Frame(tag, value) == << <<tag>>, <<Len(value)>> >> \o value

\* A magic and its records, refused when push would pass the maximum.  A
\* prefix of the output is no longer than the output, so the last push decides.
Encode(magic, values, max) ==
    LET pushed[i \in 0..Len(values)] ==
            IF i = 0 THEN magic ELSE pushed[i - 1] \o Frame(i, values[i])
        Bound(bytes) == IF Len(bytes) > max THEN Refused ELSE bytes
    IN Bound(pushed[Len(values)])

\* Records::new
Open(bytes, magic) ==
    [ok |-> IsPrefix(magic, bytes), values |-> <<>>,
     rest |-> SubSeq(bytes, Len(magic) + 1, Len(bytes))]

\* Records::take.  Every caller asks for the tags in order, so the expected tag
\* is one more than the number of records taken.
Take(r) ==
    IF /\ r.ok
       /\ Len(r.rest) >= HeaderCells
       /\ r.rest[1] = << Len(r.values) + 1 >>
       /\ Len(r.rest[2]) = 1
       /\ r.rest[2][1] \in 0..(Len(r.rest) - HeaderCells)
    THEN [ok |-> TRUE,
          values |-> Append(r.values, SubSeq(r.rest, HeaderCells + 1, HeaderCells + r.rest[2][1])),
          rest |-> SubSeq(r.rest, HeaderCells + r.rest[2][1] + 1, Len(r.rest))]
    ELSE [r EXCEPT !.ok = FALSE]

\* Mutant of Finish: bytes after the last record are ignored.
FinishLeniently(r) == IF r.ok THEN r.values ELSE Refused

\* Records::finish
Finish(r) == IF r.ok /\ r.rest = <<>> THEN r.values ELSE Refused

\* The values of exactly n records, or Refused.
ReadAll(bytes, magic, n) ==
    LET taken[i \in 0..n] == IF i = 0 THEN Open(bytes, magic) ELSE Take(taken[i - 1])
    IN Finish(taken[n])

---------------------------------------------------------------------------
(* Text.  Characters are ASCII codes; words count as ASCII.                *)

Byte(cell) == cell[1]
IsAscii(text) ==
    \A i \in DOMAIN text :
        Len(text[i]) = 2 \/ (Len(text[i]) = 1 /\ Byte(text[i]) \notin 128..255)

LowercaseOrDigit == 97..122 \cup 48..57
Uppercase == 65..90
Dot == 46
Hyphen == 45
Slash == 47
At == 64

AllIn(text, codes) == \A i \in DOMAIN text : Len(text[i]) = 1 /\ Byte(text[i]) \in codes

\* The pieces of str::split(separator).
Split(text, separator) ==
    LET cuts == {0, Len(text) + 1} \cup
                {i \in DOMAIN text : text[i] = <<separator>>}
    IN {SubSeq(text, c[1] + 1, c[2] - 1) :
          c \in {d \in cuts \X cuts : d[1] < d[2] /\ ~\E e \in cuts : d[1] < e /\ e < d[2]}}

\* Both ends lowercase or digit, everything between them from inner as well.
Bounded(text, inner) ==
    /\ text # <<>>
    /\ AllIn(text, LowercaseOrDigit \cup inner)
    /\ Byte(Head(text)) \in LowercaseOrDigit
    /\ Byte(Last(text)) \in LowercaseOrDigit
=============================================================================
