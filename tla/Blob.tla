--------------------------------- MODULE Blob ----------------------------------
(******************************************************************************)
(* The binary attributes of a document, dom/blobref.cpp: a skip list gives the*)
(* segment of each piece by the offset where the piece starts, and ends with a*)
(* piece that has no segment. Pieces start and end on units of allocation, and*)
(* a write ends anywhere: the last piece may hold more than the blob.         *)
(*                                                                            *)
(* Two blobs, so that one can be copied onto the other (updateBlobFrom, when  *)
(* a journal is applied). A free segment keeps the bytes it had.              *)
(******************************************************************************)
EXTENDS Naturals, Sequences

CONSTANTS
    Blobs,          \* the blobs
    Unit,           \* sizeof(FreeSegment)
    SegmentSizeMax, \* the longest segment, a multiple of Unit
    MaxSize,        \* bound: the size of a blob
    MaxWrite,       \* bound: the bytes of a write
    Bytes,          \* the bytes written
    Garbage         \* what a new segment holds

NullPtr == <<>>     \* a piece is the content of its segment; no segment is empty

VARIABLES
    blob,    \* [size, piece] of each blob: totalSize, and the pieces by their start
    written, \* what was written in each blob: a file
    thrown   \* whether reading a file in a blob threw

vars == <<blob, written, thrown>>

Starts == {Unit * k : k \in 0 .. MaxSize + 1}
Least(i, j) == IF i < j THEN i ELSE j

TypeOK ==
    \A b \in Blobs :
        /\ blob[b].size \in 0 .. MaxSize
        /\ DOMAIN blob[b].piece \subseteq Starts
        /\ \A s \in DOMAIN blob[b].piece : blob[b].piece[s] \in Seq(Bytes \cup {Garbage})

Created == [size |-> 0, piece |-> [s \in {} |-> NullPtr]]

Init ==
    /\ blob = [b \in Blobs |-> Created]
    /\ written = [b \in Blobs |-> <<>>]
    /\ thrown = FALSE

--------------------------------------------------------------------------------
(* Pieces.                                                                     *)

AlignSize(n) == ((n + Unit - 1) \div Unit) * Unit
AlignedOffset(offset) == offset - (offset % Unit)

(* iterator::findClosest().                                                    *)
Before(x, offset) == {s \in DOMAIN x.piece : s <= offset}
FindClosest(x, offset) ==
    CHOOSE s \in Before(x, offset) : \A t \in Before(x, offset) : t <= s

(* iterator::getNextHash().                                                    *)
NextStart(x, start) ==
    CHOOSE s \in DOMAIN x.piece : s > start /\ \A t \in DOMAIN x.piece : t > start => s <= t

SetPiece(x, start, content) ==
    [x EXCEPT !.piece = [s \in DOMAIN @ \cup {start} |-> IF s = start THEN content ELSE @[s]]]

(* A window on a piece: where writing at the offset begins, and the room left. *)
Window(x, start, at, count) == [blob |-> x, start |-> start, at |-> at, count |-> count]

(* appendPiece(): the piece that ends the blob gets a segment, and another one *)
(* ends it after this segment.                                                 *)
AppendPiece(x, count, offset) ==
    LET aligned == AlignedOffset(offset)
        room == AlignSize(count + (offset % Unit))
        last == IF x.size = 0 THEN aligned ELSE FindClosest(x, aligned)
        appended == SetPiece(SetPiece(x, last, [i \in 1 .. room |-> Garbage]),
                             aligned + room, NullPtr)
    IN  Window([appended EXCEPT !.size = offset + count], last, offset - aligned, count)

(* allowWritePiece(): a window on the piece that holds the offset, whatever its*)
(* length, or a new piece at the end. The size grows to the end of the window, *)
(* and to what was asked at most.                                              *)
\* Mutant: the size grows by the window, without the offset of the write in it.
AllowWritePieceShort(x, asked, offset) ==
    LET count == Least(asked, SegmentSizeMax)
        start == FindClosest(x, AlignedOffset(offset))
        room == NextStart(x, start) - offset
        end == Least(start + room, offset + count)
    IN  IF x.size = 0 \/ x.piece[start] = NullPtr THEN AppendPiece(x, count, offset)
        ELSE Window([x EXCEPT !.size = IF end > @ THEN end ELSE @], start, offset - start, room)

AllowWritePiece(x, asked, offset) ==
    LET count == Least(asked, SegmentSizeMax)
        start == FindClosest(x, AlignedOffset(offset))
        room == NextStart(x, start) - offset
        end == Least(offset + room, offset + count)
    IN  IF x.size = 0 \/ x.piece[start] = NullPtr THEN AppendPiece(x, count, offset)
        ELSE Window([x EXCEPT !.size = IF end > @ THEN end ELSE @], start, offset - start, room)

(* getPiece(): what the piece holds from the offset to its end.                *)
GetPiece(x, offset) ==
    LET start == FindClosest(x, offset)
        content == x.piece[start]
    IN  IF offset >= x.size THEN <<>>
        ELSE SubSeq(content, offset - start + 1, NextStart(x, start) - start)

Overwritten(s, at, t) == [i \in 1 .. Len(s) |-> IF i \in at + 1 .. at + Len(t) THEN t[i - at] ELSE s[i]]
Fill(w, data) == SetPiece(w.blob, w.start, Overwritten(w.blob.piece[w.start], w.at, data))
First(s, n) == SubSeq(s, 1, Least(n, Len(s)))
After(s, n) == SubSeq(s, n + 1, Len(s))

(* Writes from window to window: [blob, done] after at most n windows.         *)
WriteWindows(x, data, offset, Part(_, _)) ==
    LET windows[n \in 0 .. Len(data)] ==
            IF n = 0 THEN [blob |-> x, done |-> 0]
            ELSE LET before == windows[n - 1]
                     left == After(data, before.done)
                     w == AllowWritePiece(before.blob, Len(left), offset + before.done)
                 IN  IF left = <<>> THEN before
                     ELSE [blob |-> Fill(w, Part(left, w)),
                           done |-> before.done + Len(Part(left, w))]
    IN  windows[Len(data)].blob

(* readPiece(): from piece to piece, at most to the end of the blob.           *)
Read(x) ==
    LET pieces[n \in 0 .. MaxSize] ==
            IF n = 0 THEN <<>>
            ELSE LET before == pieces[n - 1]
                 IN  before \o First(GetPiece(x, Len(before)), x.size - Len(before))
    IN  pieces[x.size]

--------------------------------------------------------------------------------
(* Operations.                                                                 *)

Contents(n) == UNION {[1 .. k -> Bytes] : k \in 1 .. n}
Put(s, data, offset) ==
    [i \in 1 .. (IF Len(s) > offset + Len(data) THEN Len(s) ELSE offset + Len(data)) |->
        IF i \in offset + 1 .. offset + Len(data) THEN data[i - offset] ELSE s[i]]

(* writePiece(): the callers write inside the blob or at its end, holes are not*)
(* implemented.                                                                *)
WritePiece(b, data, offset) ==
    /\ offset <= blob[b].size /\ offset + Len(data) <= MaxSize
    /\ blob' = [blob EXCEPT ![b] = WriteWindows(@, data, offset,
                                     LAMBDA left, w : First(left, w.count))]
    /\ written' = [written EXCEPT ![b] = Put(@, data, offset)]
    /\ UNCHANGED thrown

(* readFromFile(): pread() fills the whole window. In a blob that has contents *)
(* the window may be longer than what is left of the file: it throws, and the  *)
(* caller deletes the attribute (instructionBlobReadFromFile).                 *)
ReadFromFile(b, data) ==
    LET fits == \A n \in 0 .. Len(data) - 1 :
                   LET w == AllowWritePiece(blob[b], Len(data) - n, n) IN w.count <= Len(data) - n
        read == WriteWindows(blob[b], data, 0, LAMBDA left, w : First(left, w.count))
    IN  /\ DOMAIN blob[b].piece = {} \/ blob[b].size > 0
        /\ blob' = [blob EXCEPT ![b] = IF fits THEN read ELSE Created]
        /\ written' = [written EXCEPT ![b] = IF fits THEN Put(@, data, 0) ELSE <<>>]
        /\ thrown' = ~fits

(* copyFrom(), of a blob that is not shorter: the windows are the shorter of   *)
(* the pieces of both. What is copied after the size asked is never read.      *)
CopyFrom(b, source) ==
    /\ b # source /\ blob[source].size >= blob[b].size /\ blob[source].size > 0
    /\ LET from(left) == GetPiece(blob[source], blob[source].size - Len(left))
       IN  blob' = [blob EXCEPT ![b] = WriteWindows(@, Read(blob[source]), 0,
                        LAMBDA left, w : First(First(from(left), Len(left)), w.count))]
    /\ written' = [written EXCEPT ![b] = written[source]]
    /\ UNCHANGED thrown

(* deleteAttribute(), and the blob is added again.                             *)
DeleteAttribute(b) ==
    /\ blob' = [blob EXCEPT ![b] = Created]
    /\ written' = [written EXCEPT ![b] = <<>>]
    /\ UNCHANGED thrown

Next == \E b \in Blobs :
    \/ \E data \in Contents(MaxWrite), offset \in 0 .. MaxSize : WritePiece(b, data, offset)
    \/ \E data \in Contents(MaxWrite) : ReadFromFile(b, data)
    \/ \E source \in Blobs : CopyFrom(b, source)
    \/ DeleteAttribute(b)

Spec == Init /\ [][Next]_vars

(* What checkContents() says of the pieces: one that starts at the size or     *)
(* after has no segment, and no piece follows it.                              *)
IsEnd(x, start) == x.piece[start] = NullPtr /\ \A s \in DOMAIN x.piece : s <= start
EndChecked(x, start) == start >= x.size => IsEnd(x, start)

--------------------------------------------------------------------------------
(* Properties.                                                                 *)

(* Reading a blob gives the bytes last written at each offset, whatever pieces *)
(* the writes made: no byte comes from a segment nobody wrote, from the end of *)
(* the last piece or from another piece.                                       *)
ReadsWhatWasWritten == \A b \in Blobs : Read(blob[b]) = written[b]

(* The pieces follow each other without a hole, each with a segment of its     *)
(* length (deleteAttribute() frees the difference of two starts), and exactly  *)
(* one piece without a segment ends the blob, not before its size (`Already    *)
(* found end`, `Piece after end has an offset` of BlobRef::check).             *)
PiecesTile ==
    \A b \in Blobs :
        LET piece == blob[b].piece
        IN  IF piece = [s \in {} |-> NullPtr] THEN blob[b].size = 0
            ELSE /\ 0 \in DOMAIN piece
                 /\ \A s \in DOMAIN piece : s % Unit = 0 /\ EndChecked(blob[b], s)
                 /\ \E end \in DOMAIN piece :
                       /\ blob[b].size \in end - Unit + 1 .. end /\ IsEnd(blob[b], end)
                       /\ \A s \in DOMAIN piece \ {end} :
                             Len(piece[s]) = NextStart(blob[b], s) - s

(* `return the number of bytes we can write in this piece, which shall not be  *)
(* more than count` (allowWritePiece, blobref.h): a file that can be read is   *)
(* read, in a blob that already has contents too.                              *)
FilesRead == ~thrown
================================================================================
