------------------------------- MODULE ReadHandle -------------------------------
(***************************************************************************)
(* The handle open_file returns, with the widths of its integers.           *)
(*                                                                          *)
(*   memory    ReadableFile of impls/memory.rs                              *)
(*   async     AsyncReadableFile of async_vfs/impls/memory.rs               *)
(*   embedded  std::io::Cursor over the data of T::get (external)           *)
(*                                                                          *)
(* The two of ours share the content with the file's entry in the map (an   *)
(* Arc<Vec<u8>>) and keep a position of 64 bits, here 2 * Half values; the  *)
(* offsets of SeekFrom have as many, Half of them negative.  Arithmetic out *)
(* of range panics in a build that checks it and wraps in one that does     *)
(* not, and both are steps here.  A slice out of range panics always.       *)
(*                                                                          *)
(* `from` and `gathered` are history: where the last seek went, and what    *)
(* has been read since.                                                     *)
(***************************************************************************)
EXTENDS Integers, Sequences

CONSTANTS
    Bytes,      \* what a content is made of
    MaxLen,     \* the longest content
    Half,       \* half the values of a 64-bit integer
    Sizes       \* the lengths of the buffers clients read into

\* A Vec<u8> is never longer than isize::MAX.
ASSUME WidthAssumption ==
    /\ MaxLen \in Nat
    /\ Half \in Nat
    /\ MaxLen < Half

\* A buffer, too, fits in the address space.
ASSUME SizesAssumption == Sizes \subseteq 0 .. Half - 1

VARIABLES
    kind,       \* what the handle is, "none" when there is none
    content,    \* the content it reads
    position,   \* ReadableFile.position, AsyncReadableFile.cursor_pos
    ended,      \* the last read into a buffer with room returned 0
    panicked,   \* its last call panicked
    from, gathered

handleVars == <<kind, content, position, ended, panicked, from, gathered>>

Width == 2 * Half
Unsigned == 0 .. Width - 1
Signed == -Half .. Half - 1

\* `as u64` and `as i64`.
AsUnsigned(n) == n % Width
AsSigned(n) == ((n + Half) % Width) - Half

Contents == UNION {[1 .. n -> Bytes] : n \in 0 .. MaxLen}
HandleKinds == {"memory", "async", "embedded"}
Whences == {"Start", "Current", "End"}

\* A seek and its argument: Start has a u64, the others an i64.
Offsets(whence) == IF whence = "Start" THEN Unsigned ELSE Signed

NoHandle ==
    /\ kind = "none"
    /\ content = << >>
    /\ position = 0
    /\ ended = FALSE
    /\ panicked = FALSE
    /\ from = 0
    /\ gathered = << >>

Open(k, bytes) ==
    /\ kind = "none"
    /\ kind' = k
    /\ content' = bytes
    /\ UNCHANGED <<position, ended, panicked, from, gathered>>

Close ==
    /\ kind # "none"
    /\ kind' = "none"
    /\ content' = << >>
    /\ position' = 0
    /\ ended' = FALSE
    /\ panicked' = FALSE
    /\ from' = 0
    /\ gathered' = << >>

\* A reader at or past the end has nothing left, as std's Cursor sees it.
LeftForCursor == IF position < Len(content) THEN Len(content) - position ELSE 0

\* len() of ReadableFile, bytes_left of AsyncReadableFile: a u64 subtraction.
\* Checked, it panics below zero; unchecked it wraps, and whatever amount
\* follows from the huge difference, the slice is out of range.
LeftForOurs == AsUnsigned(Len(content) - position)

Left == IF kind = "embedded" THEN LeftForCursor ELSE LeftForOurs
Amount(size) == IF size < Left THEN size ELSE Left

\* The slice position .. position + amount of the content, of which the async
\* reader takes none when nothing is left.
SliceThere(size) ==
    \/ kind = "embedded"
    \/ kind = "async" /\ Left = 0
    \/ position + Amount(size) <= Len(content)

\* Fault: a read of one byte takes it without asking how many are left.
ReadUnbounded(size) ==
    /\ kind # "none" /\ ~panicked
    /\ LET amount == IF size = 1 THEN 1 ELSE Amount(size) IN
       IF position + amount <= Len(content)
       THEN /\ position' = position + amount
            /\ gathered' = gathered \o SubSeq(content, position + 1, position + amount)
            /\ ended' = (size > 0 /\ amount = 0)
            /\ UNCHANGED panicked
       ELSE /\ panicked' = TRUE
            /\ UNCHANGED <<position, gathered, ended>>
    /\ UNCHANGED <<kind, content, from>>

\* Read::read into a buffer of that size.
Read(size) ==
    /\ kind # "none" /\ ~panicked
    /\ IF SliceThere(size)
       THEN /\ position' = position + Amount(size)
            /\ gathered' = gathered \o SubSeq(content, position + 1, position + Amount(size))
            /\ ended' = (size > 0 /\ Amount(size) = 0)
            /\ UNCHANGED panicked
       ELSE /\ panicked' = TRUE
            /\ UNCHANGED <<position, gathered, ended>>
    /\ UNCHANGED <<kind, content, from>>

\* The sum a seek computes.  AsyncReadableFile counts SeekFrom::End back from
\* the cursor.
Target(whence, offset) ==
    IF whence = "Start" THEN IF kind = "async" THEN AsSigned(offset) ELSE offset
    ELSE IF whence = "End" /\ kind # "async" THEN Len(content) + offset
    ELSE IF whence = "End" THEN AsSigned(position) - offset
    ELSE (IF kind = "embedded" THEN position ELSE AsSigned(position)) + offset

\* Fault: the position at the end of the content is taken, and the one behind.
AcceptsBehind(target) ==
    /\ kind = "async" => target >= 0 /\ target <= Len(content) + 1
    /\ kind = "embedded" => target \in Unsigned

\* ReadableFile takes whatever comes out; AsyncReadableFile asks for a byte of
\* the content; Cursor only for a u64.
Accepts(target) ==
    /\ kind = "async" => target >= 0 /\ target < Len(content)
    /\ kind = "embedded" => target \in Unsigned

MovesTo(there) ==
    /\ position' = there
    /\ from' = there
    /\ gathered' = << >>
    /\ ended' = FALSE
    /\ UNCHANGED <<kind, content, panicked>>

Seek(whence, offset) ==
    /\ kind # "none" /\ ~panicked
    /\ LET target == Target(whence, offset)
           checked == kind # "embedded" /\ whence # "Start"
           outcome == IF checked THEN AsSigned(target) ELSE target
       IN  \/ /\ checked /\ target \notin Signed
              /\ panicked' = TRUE
              /\ UNCHANGED <<kind, content, position, ended, from, gathered>>
           \/ /\ Accepts(outcome)
              /\ MovesTo(AsUnsigned(outcome))
           \/ /\ ~Accepts(outcome)
              /\ UNCHANGED handleVars

HandleInit == NoHandle

HandleNext ==
    \/ \E k \in HandleKinds, bytes \in Contents : Open(k, bytes)
    \/ Close
    \/ \E size \in Sizes : Read(size)
    \/ \E whence \in Whences : \E offset \in Offsets(whence) : Seek(whence, offset)

HandleSpec == HandleInit /\ [][HandleNext]_handleVars

-----------------------------------------------------------------------------
HandleTypeOK ==
    /\ kind \in HandleKinds \cup {"none"}
    /\ content \in Contents
    /\ position \in Unsigned
    /\ ended \in BOOLEAN /\ panicked \in BOOLEAN
    /\ from \in Unsigned
    /\ gathered \in Contents

\* A reader delivers the bytes of its content in their order, none twice and
\* none left out, from where it was last put: cursor, amount and slice of
\* read agree in all three handles, whatever is done to the file meanwhile.
ReadsInOrder ==
    /\ position = from + Len(gathered)
    /\ \A i \in DOMAIN gathered :
          /\ from + i \in DOMAIN content
          /\ gathered[i] = content[from + i]

\* The cursor of an AsyncReadableFile never leaves its content, so that the
\* subtraction len() - cursor_pos of poll_read cannot go below zero: what
\* poll_seek lets through and poll_read adds is all there is.
CursorInside == kind = "async" => position <= Len(content)

\* Of the three handles only ReadableFile's read can panic, and only once it
\* has been moved past the end of its content.  A read that finds a byte, or
\* stands exactly at the end, returns, in both builds.
ReadsPanicOnlyPastTheEnd ==
    [][\A size \in Sizes :
          Read(size) /\ panicked' => kind = "memory" /\ position > Len(content)]_handleVars
=============================================================================
