---------------------------- MODULE ReadHandleProofs ----------------------------
(***************************************************************************)
(* Proofs about the read handles, for every width, every content and every *)
(* buffer: what the arithmetic of read and seek keeps.                      *)
(***************************************************************************)
EXTENDS ReadHandle, TLAPS

\* The bytes of a content and the numbers that count them.
LEMMA ContentFacts ==
    ASSUME NEW bytes \in Contents
    PROVE  /\ bytes \in Seq(Bytes)
           /\ Len(bytes) \in 0 .. MaxLen
           /\ DOMAIN bytes = 1 .. Len(bytes)
  <1>1. PICK n \in 0 .. MaxLen : bytes \in [1 .. n -> Bytes]
    BY DEF Contents
  <1>2. n \in Nat
    BY <1>1, WidthAssumption
  <1> QED
    BY <1>1, <1>2

\* And back: a sequence of few enough bytes is a content.
LEMMA ShortIsContent ==
    ASSUME NEW bytes \in Seq(Bytes), Len(bytes) <= MaxLen
    PROVE  bytes \in Contents
  <1>1. /\ bytes \in [1 .. Len(bytes) -> Bytes]
        /\ Len(bytes) \in Nat
    OBVIOUS
  <1>2. Len(bytes) \in 0 .. MaxLen
    BY <1>1, WidthAssumption
  <1> QED
    BY <1>1, <1>2 DEF Contents

\* `as u64` gives a u64, and leaves one alone.
LEMMA AsUnsignedFacts ==
    ASSUME NEW n \in Int
    PROVE  /\ AsUnsigned(n) \in Unsigned
           /\ n \in Unsigned => AsUnsigned(n) = n
  <1>1. Width \in Nat /\ Width > 0
    BY WidthAssumption DEF Width
  <1> DEFINE w == Width
  <1>2. /\ n % w \in 0 .. w - 1
        /\ n \in 0 .. w - 1 => n % w = n
    <2> HIDE DEF w
    <2>1. w \in Nat /\ w > 0
      BY <1>1 DEF w
    <2> QED
      BY <2>1
  <1> QED
    BY <1>2 DEF AsUnsigned, Unsigned

\* What a handle has before anything is done with it.
LEMMA NothingIsTyped == << >> \in Contents /\ << >> \in Seq(Bytes) /\ 0 \in Unsigned
  <1>1. << >> \in Seq(Bytes) /\ Len(<< >>) <= MaxLen
    BY WidthAssumption
  <1>2. << >> \in Contents
    <2> DEFINE none == << >>
    <2>1. none \in Seq(Bytes) /\ Len(none) <= MaxLen
      BY <1>1
    <2> HIDE DEF none
    <2>2. none \in Contents
      BY <2>1, ShortIsContent
    <2> QED
      BY <2>2 DEF none
  <1>3. Width \in Nat /\ Width > 0
    BY WidthAssumption DEF Width
  <1> QED
    BY <1>1, <1>2, <1>3 DEF Unsigned

LEMMA AsSignedFacts ==
    ASSUME NEW n \in Int
    PROVE  AsSigned(n) \in Int
  <1>1. Width \in Nat /\ Width > 0 /\ Half \in Nat
    BY WidthAssumption DEF Width
  <1> QED
    BY <1>1 DEF AsSigned

-----------------------------------------------------------------------------
(* The inductive invariant: the types, with `gathered` any sequence of bytes, *)
(* and the two properties.  That `gathered` is no longer than the content     *)
(* follows from the order in which it was read; that a read does not wrap     *)
(* follows, for the async handle, from where its cursor is.                   *)

FieldsOK ==
    /\ kind \in HandleKinds \cup {"none"}
    /\ content \in Contents
    /\ position \in Unsigned
    /\ ended \in BOOLEAN /\ panicked \in BOOLEAN
    /\ from \in Unsigned
    /\ gathered \in Seq(Bytes)

\* Close has left nothing that the next handle could start from.
StartsAtZero == kind = "none" => position = 0 /\ from = 0 /\ gathered = << >>

HandleInv == FieldsOK /\ StartsAtZero /\ ReadsInOrder /\ CursorInside

\* Concatenation, index by index.
LEMMA Concatenated ==
    ASSUME NEW s \in Seq(Bytes), NEW t \in Seq(Bytes)
    PROVE  /\ s \o t \in Seq(Bytes)
           /\ Len(s \o t) = Len(s) + Len(t)
           /\ \A i \in 1 .. Len(s) : (s \o t)[i] = s[i]
           /\ \A i \in Len(s) + 1 .. Len(s) + Len(t) : (s \o t)[i] = t[i - Len(s)]
OBVIOUS

\* A slice, index by index; one of no elements may begin anywhere.
LEMMA Sliced ==
    ASSUME NEW s \in Seq(Bytes), NEW p \in Nat, NEW n \in Nat, n = 0 \/ p + n <= Len(s)
    PROVE  /\ SubSeq(s, p + 1, p + n) \in Seq(Bytes)
           /\ Len(SubSeq(s, p + 1, p + n)) = n
           /\ \A i \in 1 .. n : /\ SubSeq(s, p + 1, p + n)[i] = s[p + i]
                              /\ p + i \in DOMAIN s
  <1>1. CASE n = 0
    BY <1>1
  <1>2. CASE n # 0 /\ p + n <= Len(s)
    <2>1. SubSeq(s, p + 1, p + n) \in Seq(Bytes)
      BY <1>2
    <2>2. Len(SubSeq(s, p + 1, p + n)) = n
      BY <1>2
    <2>3. ASSUME NEW i \in 1 .. n
          PROVE  SubSeq(s, p + 1, p + n)[i] = s[p + i] /\ p + i \in DOMAIN s
      BY <1>2
    <2> QED
      BY <2>1, <2>2, <2>3
  <1> QED
    BY <1>1, <1>2

\* What a read takes when its slice is there: nothing, or bytes that are there.
LEMMA ReadTakes ==
    ASSUME HandleInv, NEW size \in Sizes, kind # "none", SliceThere(size)
    PROVE  /\ Amount(size) \in Nat
           /\ Amount(size) = 0 \/ position + Amount(size) <= Len(content)
  <1>1. /\ Len(content) \in Nat /\ position \in Nat /\ size \in Nat
        /\ Len(content) \in 0 .. MaxLen
    BY ContentFacts, WidthAssumption, SizesAssumption DEF HandleInv, FieldsOK, Unsigned, Width
  <1>2. CASE kind = "embedded"
    BY <1>1, <1>2 DEF Amount, Left, LeftForCursor
  <1>3. CASE kind # "embedded"
    <2>1. LeftForOurs \in Nat
      BY <1>1, AsUnsignedFacts, WidthAssumption DEF LeftForOurs, Unsigned, Width
    <2>2. Amount(size) \in Nat /\ Amount(size) <= LeftForOurs
      BY <1>1, <1>3, <2>1 DEF Amount, Left
    <2>3. Left = 0 => Amount(size) = 0
      BY <1>1, <1>3, <2>1 DEF Amount, Left
    <2> QED
      BY <1>1, <1>3, <2>2, <2>3 DEF SliceThere
  <1> QED
    BY <1>2, <1>3

\* Within its content a handle of ours has all the rest before it, and any
\* slice it may ask for is there.
LEMMA InsideSlicesAreThere ==
    ASSUME HandleInv, NEW size \in Sizes, position <= Len(content)
    PROVE  SliceThere(size)
  <1>1. /\ Len(content) \in Nat /\ position \in Nat /\ size \in Nat
        /\ Len(content) \in 0 .. MaxLen
    BY ContentFacts, WidthAssumption, SizesAssumption DEF HandleInv, FieldsOK, Unsigned, Width
  <1>2. Len(content) - position \in Unsigned
    BY <1>1, WidthAssumption DEF Unsigned, Width
  <1>3. LeftForOurs = Len(content) - position
    BY <1>1, <1>2, AsUnsignedFacts DEF LeftForOurs
  <1> QED
    BY <1>1, <1>3 DEF SliceThere, Amount, Left

LEMMA OpenKeepsInv ==
    ASSUME HandleInv, NEW k \in HandleKinds, NEW bytes \in Contents, Open(k, bytes)
    PROVE  HandleInv'
  <1>1. kind' \in HandleKinds /\ kind' # "none" /\ content' \in Contents
    BY DEF Open, HandleKinds
  <1>2. position' = 0 /\ from' = 0 /\ gathered' = << >>
    BY DEF Open, HandleInv, StartsAtZero
  <1>3. Len(content') \in Nat
    BY <1>1, ContentFacts
  <1>4. FieldsOK' /\ StartsAtZero'
    BY <1>1, <1>2 DEF Open, HandleInv, FieldsOK, StartsAtZero
  <1>5. ReadsInOrder'
    BY <1>2 DEF ReadsInOrder
  <1>6. CursorInside'
    BY <1>2, <1>3 DEF CursorInside
  <1> QED
    BY <1>4, <1>5, <1>6 DEF HandleInv

LEMMA CloseKeepsInv ==
    ASSUME HandleInv, Close
    PROVE  HandleInv'
  <1>1. /\ kind' = "none" /\ content' = << >> /\ position' = 0 /\ from' = 0
        /\ gathered' = << >> /\ ended' = FALSE /\ panicked' = FALSE
    BY DEF Close
  <1>2. FieldsOK' /\ StartsAtZero'
    BY <1>1, NothingIsTyped DEF FieldsOK, StartsAtZero
  <1>3. ReadsInOrder' /\ CursorInside'
    BY <1>1 DEF ReadsInOrder, CursorInside
  <1> QED
    BY <1>2, <1>3 DEF HandleInv

LEMMA ReadKeepsInv ==
    ASSUME HandleInv, NEW size \in Sizes, Read(size)
    PROVE  HandleInv'
  <1>1. CASE ~SliceThere(size)
    BY <1>1 DEF Read, HandleInv, FieldsOK, StartsAtZero, ReadsInOrder, CursorInside
  <1>2. CASE SliceThere(size)
    <2> DEFINE n == Amount(size)
               taken == SubSeq(content, position + 1, position + n)
    <2>1. /\ kind # "none" /\ position' = position + n /\ gathered' = gathered \o taken
          /\ ended' \in BOOLEAN
          /\ UNCHANGED <<kind, content, from, panicked>>
      BY <1>2 DEF Read
    <2>2. n \in Nat /\ (n = 0 \/ position + n <= Len(content))
      BY <1>2, <2>1, ReadTakes
    <2>3. /\ content \in Seq(Bytes) /\ gathered \in Seq(Bytes)
          /\ Len(content) \in 0 .. MaxLen /\ Len(content) \in Nat
          /\ position \in Nat /\ from \in Nat /\ position \in Unsigned
          /\ position = from + Len(gathered)
      BY ContentFacts, WidthAssumption DEF HandleInv, FieldsOK, ReadsInOrder, Unsigned, Width
    <2> HIDE DEF n
    <2>4. /\ taken \in Seq(Bytes) /\ Len(taken) = n
          /\ \A i \in 1 .. n : taken[i] = content[position + i] /\ position + i \in DOMAIN content
      BY <2>2, <2>3, Sliced
    <2> HIDE DEF taken
    <2>5. /\ gathered' \in Seq(Bytes)
          /\ Len(gathered') = Len(gathered) + n
          /\ \A i \in 1 .. Len(gathered) : gathered'[i] = gathered[i]
          /\ \A i \in Len(gathered) + 1 .. Len(gathered) + n :
                gathered'[i] = taken[i - Len(gathered)]
      BY <2>1, <2>3, <2>4, Concatenated
    <2>6. position' \in Unsigned
      BY <2>1, <2>2, <2>3, WidthAssumption DEF Unsigned, Width
    <2>7. FieldsOK' /\ StartsAtZero'
      BY <2>1, <2>5, <2>6 DEF HandleInv, FieldsOK, StartsAtZero
    <2>8. ReadsInOrder'
      <3>1. position' = from' + Len(gathered')
        BY <2>1, <2>2, <2>3, <2>5
      <3>2. ASSUME NEW i \in DOMAIN gathered'
            PROVE  from' + i \in DOMAIN content' /\ gathered'[i] = content'[from' + i]
        <4>1. i \in 1 .. Len(gathered) + n
          BY <2>5
        <4>2. CASE i <= Len(gathered)
          BY <2>1, <2>3, <2>5, <4>1, <4>2 DEF HandleInv, ReadsInOrder
        <4>3. CASE i > Len(gathered)
          <5>1. i - Len(gathered) \in 1 .. n
            BY <2>2, <2>3, <4>1, <4>3
          <5>2. position + (i - Len(gathered)) = from + i
            BY <2>3, <4>1
          <5>3. i \in Len(gathered) + 1 .. Len(gathered) + n
            BY <2>2, <2>3, <4>1, <4>3
          <5>4. gathered'[i] = taken[i - Len(gathered)]
            BY <2>5, <5>3
          <5>5. /\ taken[i - Len(gathered)] = content[position + (i - Len(gathered))]
                /\ position + (i - Len(gathered)) \in DOMAIN content
            BY <2>4, <5>1
          <5> QED
            BY <2>1, <5>2, <5>4, <5>5
        <4> QED
          BY <2>3, <4>1, <4>2, <4>3
      <3> QED
        BY <3>1, <3>2 DEF ReadsInOrder
    <2>9. CursorInside'
      BY <2>1, <2>2, <2>3 DEF HandleInv, CursorInside
    <2> QED
      BY <2>7, <2>8, <2>9 DEF HandleInv
  <1> QED
    BY <1>1, <1>2

\* Where a seek lands that is let through is a u64, for the async handle one
\* inside its content.
LEMMA SeekKeepsInv ==
    ASSUME HandleInv, NEW whence \in Whences, NEW offset \in Offsets(whence),
           Seek(whence, offset)
    PROVE  HandleInv'
  <1> DEFINE target == Target(whence, offset)
             checked == kind # "embedded" /\ whence # "Start"
             outcome == IF checked THEN AsSigned(target) ELSE target
  <1>1. target \in Int
    <2>1. offset \in Int
      BY WidthAssumption DEF Offsets, Unsigned, Signed, Width
    <2>2. position \in Int /\ Len(content) \in Int
      BY ContentFacts, WidthAssumption DEF HandleInv, FieldsOK, Unsigned, Width
    <2> QED
      BY <2>1, <2>2, AsSignedFacts DEF Target, Whences
  <1>2. outcome \in Int
    BY <1>1, AsSignedFacts
  <1>3. CASE UNCHANGED <<kind, content, position, ended, from, gathered>> /\ panicked' \in BOOLEAN
    BY <1>3 DEF HandleInv, FieldsOK, StartsAtZero, ReadsInOrder, CursorInside
  <1>4. CASE Accepts(outcome) /\ MovesTo(AsUnsigned(outcome))
    <2> HIDE DEF outcome
    <2>1. /\ position' = AsUnsigned(outcome) /\ from' = AsUnsigned(outcome)
          /\ gathered' = << >> /\ ended' = FALSE
          /\ UNCHANGED <<kind, content, panicked>>
      BY <1>4 DEF MovesTo
    <2>2. AsUnsigned(outcome) \in Unsigned
      BY <1>2, AsUnsignedFacts
    <2>3. kind # "none"
      BY DEF Seek
    <2>4. FieldsOK' /\ StartsAtZero'
      BY <2>1, <2>2, <2>3, NothingIsTyped DEF HandleInv, FieldsOK, StartsAtZero
    <2>5. ReadsInOrder'
      BY <2>1, <2>2, WidthAssumption DEF ReadsInOrder, Unsigned, Width
    <2>6. CursorInside'
      <3>1. SUFFICES ASSUME kind = "async" PROVE position' <= Len(content)
        BY <2>1 DEF CursorInside
      <3>2. outcome >= 0 /\ outcome < Len(content)
        BY <1>4, <3>1 DEF Accepts
      <3>3. Len(content) \in 0 .. MaxLen
        BY ContentFacts DEF HandleInv, FieldsOK
      <3>4. outcome \in Unsigned
        BY <1>2, <3>2, <3>3, WidthAssumption DEF Unsigned, Width
      <3> QED
        BY <1>2, <2>1, <3>2, <3>3, <3>4, AsUnsignedFacts, WidthAssumption
    <2> QED
      BY <2>4, <2>5, <2>6 DEF HandleInv
  <1> QED
    BY <1>3, <1>4 DEF Seek, handleVars, HandleInv, FieldsOK

LEMMA InitHasInv == HandleInit => HandleInv
  <1> SUFFICES ASSUME HandleInit PROVE HandleInv
    OBVIOUS
  <1>1. FieldsOK /\ StartsAtZero
    BY NothingIsTyped DEF HandleInit, NoHandle, FieldsOK, StartsAtZero
  <1>2. ReadsInOrder /\ CursorInside
    BY DEF HandleInit, NoHandle, ReadsInOrder, CursorInside
  <1> QED
    BY <1>1, <1>2 DEF HandleInv

LEMMA NextKeepsInv == HandleInv /\ [HandleNext]_handleVars => HandleInv'
  <1> SUFFICES ASSUME HandleInv, [HandleNext]_handleVars PROVE HandleInv'
    OBVIOUS
  <1>1. CASE UNCHANGED handleVars
    BY <1>1 DEF handleVars, HandleInv, FieldsOK, StartsAtZero, ReadsInOrder, CursorInside
  <1>2. ASSUME NEW k \in HandleKinds, NEW bytes \in Contents, Open(k, bytes) PROVE HandleInv'
    BY <1>2, OpenKeepsInv
  <1>3. CASE Close
    BY <1>3, CloseKeepsInv
  <1>4. ASSUME NEW size \in Sizes, Read(size) PROVE HandleInv'
    BY <1>4, ReadKeepsInv
  <1>5. ASSUME NEW whence \in Whences, NEW offset \in Offsets(whence), Seek(whence, offset)
        PROVE  HandleInv'
    BY <1>5, SeekKeepsInv
  <1> QED
    BY <1>1, <1>2, <1>3, <1>4, <1>5 DEF HandleNext

-----------------------------------------------------------------------------
LEMMA HandleInvariant == HandleSpec => []HandleInv
  <1> QED
    BY InitHasInv, NextKeepsInv, PTL DEF HandleSpec

\* Every reader delivers its content in order, from where it was last put, for
\* contents, buffers and integers of any size.
THEOREM ReadersReadInOrder == HandleSpec => []ReadsInOrder
  <1>1. HandleInv => ReadsInOrder
    BY DEF HandleInv
  <1> QED
    BY <1>1, HandleInvariant, PTL

\* The cursor of the async reader stays inside its content: poll_read's
\* subtraction never goes below zero, whatever it is asked to seek to.
THEOREM AsyncCursorStaysInside == HandleSpec => []CursorInside
  <1>1. HandleInv => CursorInside
    BY DEF HandleInv
  <1> QED
    BY <1>1, HandleInvariant, PTL

\* Nothing longer than the content is ever gathered.
LEMMA GatheredIsContent ==
    ASSUME HandleInv
    PROVE  gathered \in Contents
  <1>1. /\ gathered \in Seq(Bytes) /\ Len(gathered) \in Nat
        /\ content \in Seq(Bytes) /\ Len(content) \in 0 .. MaxLen
        /\ from \in Nat
    BY ContentFacts, WidthAssumption DEF HandleInv, FieldsOK, Unsigned, Width
  <1>2. Len(gathered) <= Len(content)
    <2>1. CASE Len(gathered) = 0
      BY <1>1, <2>1
    <2>2. CASE Len(gathered) > 0
      <3>1. Len(gathered) \in DOMAIN gathered
        BY <1>1, <2>2
      <3>2. from + Len(gathered) \in DOMAIN content
        BY <3>1 DEF HandleInv, ReadsInOrder
      <3> QED
        BY <1>1, <3>2
    <2> QED
      BY <1>1, <2>1, <2>2
  <1> QED
    BY <1>1, <1>2, ShortIsContent, WidthAssumption

\* What a handle holds has its type.
THEOREM HandlesAreTyped == HandleSpec => []HandleTypeOK
  <1>1. HandleInv => HandleTypeOK
    BY GatheredIsContent DEF HandleInv, FieldsOK, HandleTypeOK
  <1> QED
    BY <1>1, HandleInvariant, PTL

\* Only the read of a ReadableFile that has been moved past its content panics.
THEOREM ReadersPanicOnlyPastTheEnd == HandleSpec => ReadsPanicOnlyPastTheEnd
  <1>1. HandleInv /\ [HandleNext]_handleVars
          => \A size \in Sizes :
                Read(size) /\ panicked' => kind = "memory" /\ position > Len(content)
    <2> SUFFICES ASSUME HandleInv, NEW size \in Sizes, Read(size), panicked'
                 PROVE  kind = "memory" /\ position > Len(content)
      OBVIOUS
    <2>1. ~SliceThere(size) /\ kind # "none"
      BY DEF Read, HandleInv, FieldsOK
    <2>2. position \in Nat /\ Len(content) \in Nat
      BY ContentFacts, WidthAssumption DEF HandleInv, FieldsOK, Unsigned, Width
    <2>3. position > Len(content)
      BY <2>1, <2>2, InsideSlicesAreThere
    <2>4. kind # "embedded" /\ kind # "async"
      BY <2>1, <2>2, <2>3 DEF SliceThere, HandleInv, CursorInside
    <2> QED
      BY <2>1, <2>3, <2>4 DEF HandleInv, FieldsOK, HandleKinds
  <1> QED
    BY <1>1, HandleInvariant, PTL DEF HandleSpec, ReadsPanicOnlyPastTheEnd
=============================================================================
