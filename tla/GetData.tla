------------------------------- MODULE GetData -------------------------------
(***************************************************************************)
(* SQLGetData of one column of the current row, in chunks: get_value of    *)
(* convert.cpp with the GetDataState that do_fetch has reset.              *)
(*                                                                         *)
(* A text value is the sequence of the UTF-8 widths of its characters,     *)
(* 1 .. 4 bytes each.  As SQL_C_WCHAR a character of 4 bytes is two UTF-16 *)
(* units (a surrogate pair), every other one is one.  What a chunk         *)
(* contains is the range of units it copies.                               *)
(***************************************************************************)
EXTENDS Integers, Sequences, FiniteSetsExt

CONSTANTS
    Values,     \* the values columns hold, as sequences of widths
    Null,       \* a null value
    CTypes,     \* the C types the application asks for
    Buffers,    \* the buffer lengths it passes, in units of the type
    Switching   \* whether it changes the type in the middle of a value

Texts == {"CHAR", "BINARY", "WCHAR"}

ASSUME GetDataConstants ==
    /\ \A v \in Values : v \in Seq(1 .. 4)
    /\ Null \notin Values
    /\ CTypes \subseteq Texts \cup {"FIXED"}
    /\ Buffers \subseteq Nat
    /\ Switching \in BOOLEAN

VARIABLES
    value,    \* the column's value
    c_type,   \* the type of the last call, or of all of them
    offset,   \* GetDataState::offset
    done,     \* GetDataState::done
    ret,      \* what the last call returned
    chunk,    \* the units the last call copied: <<first, last>>
    given     \* history: the units copied so far, in the order they were

vars == <<value, c_type, offset, done, ret, chunk, given>>

------------------------------------------------------------------------------
(* A value in the units of a C type *)

\* Units a character of w UTF-8 bytes takes.
Width(w, t) == IF t = "WCHAR" THEN (IF w = 4 THEN 2 ELSE 1) ELSE w

\* Number of units before the character that follows the first k.
Before(v, t) ==
    LET at[k \in 0 .. Len(v)] == IF k = 0 THEN 0 ELSE at[k - 1] + Width(v[k], t) IN at

\* Where the characters of v begin, and where the last one ends.
StartsOf(v, t) == {Before(v, t)[k] : k \in 0 .. Len(v)}

LengthIn(v, t) == Max(StartsOf(v, t))

\* The types the next call may ask for.
NextTypes == IF Switching THEN CTypes ELSE {c_type}

MinOf(a, b) == IF a <= b THEN a ELSE b

------------------------------------------------------------------------------
(* How much of the rest fits *)

\* (mutant) Cuts wherever the buffer ends.
CutChar_anywhere(from, fit, rest, starts) == fit

\* (mutant) Holds the last unit back without asking what it is, or whether there is one.
CutChar_holds_back(from, fit, rest, starts) == IF fit = rest THEN fit ELSE fit - 1

\* SQL_C_CHAR: back to the start of a character, unless none starts inside the buffer.
CutChar(from, fit, rest, starts) ==
    LET cuts == {k \in 1 .. fit : from + k \in starts}
    IN  IF fit = rest \/ cuts = {} THEN fit ELSE Max(cuts)

\* (mutant) Half a pair stays behind even when the buffer holds nothing else.
CutWide_whole(from, fit, rest, starts) ==
    IF fit < rest /\ from + fit \notin starts THEN fit - 1 ELSE fit

\* SQL_C_WCHAR: a last unit that is the first half of a pair stays behind, unless it is alone.
CutWide(from, fit, rest, starts) ==
    IF fit < rest /\ from + fit \notin starts /\ fit > 1 THEN fit - 1 ELSE fit

\* Units copied into a buffer with room for avail of them, `from` units into the value.
Fitting(v, t, from, avail) ==
    LET rest == LengthIn(v, t) - from
        fit == MinOf(rest, avail)
    IN  CASE t = "CHAR" -> CutChar(from, fit, rest, StartsOf(v, t))
          [] t = "WCHAR" -> CutWide(from, fit, rest, StartsOf(v, t))
          [] t = "BINARY" -> fit

\* (mutant) The offset moves on by the room there was, not by what was copied.
Advance_by_room(from, n, avail) == from + avail

\* (mutant) The offset moves on by the bytes of UTF-16 units.
Advance_in_bytes(from, n, avail) == from + 2 * n

\* What a chunk that did not reach the end leaves in the offset.
Advance(from, n, avail) == from + n

------------------------------------------------------------------------------
(* SQLGetData *)

Nothing == <<1, 0>>

\* A call for a value that was returned to its end.
GetDone ==
    /\ done
    /\ ret' = "NO_DATA"
    /\ chunk' = Nothing
    /\ UNCHANGED <<value, c_type, offset, done, given>>

\* A null value: SQL_NULL_DATA in the indicator, an error when there is none to hold it.
GetNull(indicator) ==
    /\ ~done
    /\ value = Null
    /\ done' = indicator
    /\ ret' = (IF indicator THEN "SUCCESS" ELSE "22002")
    /\ chunk' = Nothing
    /\ UNCHANGED <<value, c_type, offset, given>>

\* Room in a buffer of len units: a terminating null takes one.
Room(t, len) == IF t = "BINARY" THEN len ELSE len - 1

\* No target, or no room even for the terminating null: only the indicator is written.
GetLength(t) ==
    /\ ~done
    /\ value # Null
    /\ t \in NextTypes \cap Texts
    /\ offset <= LengthIn(value, t)
    /\ IF offset = LengthIn(value, t) /\ t = "BINARY"
         THEN done' = TRUE /\ ret' = "SUCCESS"
         ELSE UNCHANGED done /\ ret' = "01004"
    /\ c_type' = t
    /\ chunk' = Nothing
    /\ UNCHANGED <<value, offset, given>>

\* A chunk of text.
GetChunk(t, len) ==
    /\ ~done
    /\ value # Null
    /\ t \in NextTypes \cap Texts
    /\ Room(t, len) >= 0
    /\ offset <= LengthIn(value, t)
    /\ LET n == Fitting(value, t, offset, Room(t, len))
       IN  /\ chunk' = <<offset + 1, offset + n>>
           /\ given' = given \o [i \in 1 .. n |-> offset + i]
           /\ IF offset + n < LengthIn(value, t)
                THEN /\ offset' = Advance(offset, n, Room(t, len))
                     /\ ret' = "01004"
                     /\ UNCHANGED done
                ELSE /\ done' = TRUE
                     /\ ret' = "SUCCESS"
                     /\ UNCHANGED offset
    /\ c_type' = t
    /\ UNCHANGED value

\* A type of fixed length: the whole value is converted, whatever was read before.
GetFixed(convertible) ==
    /\ ~done
    /\ value # Null
    /\ "FIXED" \in NextTypes
    /\ done' = convertible
    /\ ret' = (IF convertible THEN "SUCCESS" ELSE "22018")
    /\ c_type' = "FIXED"
    /\ chunk' = Nothing
    /\ UNCHANGED <<value, offset, given>>

\* As do_fetch leaves a row that it delivers: getdata is assigned anew.
Init ==
    /\ value \in Values \cup {Null}
    /\ c_type \in CTypes
    /\ offset = 0
    /\ done = FALSE
    /\ ret = "SUCCESS"
    /\ chunk = Nothing
    /\ given = <<>>

Next ==
    \/ GetDone
    \/ \E indicator \in BOOLEAN : GetNull(indicator)
    \/ \E t \in Texts : GetLength(t)
    \/ \E t \in Texts, len \in Buffers : GetChunk(t, len)
    \/ \E convertible \in BOOLEAN : GetFixed(convertible)

Spec == Init /\ [][Next]_vars

\* An application that goes on reading a text value with buffers that have some room.
Reading == \E t \in Texts, len \in Buffers : Room(t, len) > 0 /\ GetChunk(t, len)

FairSpec == Spec /\ WF_vars(Reading)

------------------------------------------------------------------------------
(* Properties *)

TypeOK ==
    /\ value \in Values \cup {Null}
    /\ c_type \in CTypes
    /\ offset \in Nat
    /\ done \in BOOLEAN
    /\ ret \in {"SUCCESS", "01004", "NO_DATA", "22002", "22018"}
    /\ chunk \in Nat \X Nat
    /\ given \in Seq(Nat)

\* The chunks put together are the value from its start, nothing skipped and nothing twice,
\* and the whole of it once SQLGetData has returned success.
ChunksMakeTheValue ==
    value # Null /\ c_type \in Texts =>
        /\ \A i \in DOMAIN given : given[i] = i
        /\ done => Len(given) = LengthIn(value, c_type)

\* convert.h:8 "bytes (char/binary) or characters (wchar) already returned": the offset counts
\* units of the type the next call asks for, so it lies inside the value.
OffsetInside ==
    value # Null /\ ~done => \A t \in NextTypes \cap Texts : offset <= LengthIn(value, t)

\* Where a chunk ends.
EndsInside(c) == c[2] >= c[1] /\ c[2] \notin StartsOf(value, c_type)

\* A chunk that ends inside a character is a piece of that one character: it happens only when
\* the buffer cannot hold the character whole.
SplitsOnlyInTinyBuffers ==
    value # Null /\ c_type \in {"CHAR", "WCHAR"} /\ EndsInside(chunk)
        => StartsOf(value, c_type) \cap (chunk[1] .. chunk[2]) = {}

\* A text value comes to its end when it is read on with buffers that hold at least one unit:
\* holding back an incomplete character never stops the progress.
ReadingEnds == value # Null /\ c_type \in Texts ~> done
==============================================================================
