------------------------- MODULE UploadStreamProofs -------------------------
(***************************************************************************)
(* What module UploadStream promises of one upload, for every maximum,     *)
(* every size of the buffers and of the file, and every sequence of short  *)
(* reads.  The bytes of the file are counted: those still at the client,   *)
(* those in the sniffing buffer, and those the size-limiting reader has    *)
(* passed on to the object.                                                *)
(***************************************************************************)
EXTENDS UploadStream, Integers, TLAPS

USE DEF Answers

\* Every byte of the file is somewhere, and the object has what was passed on.
Accounted ==
    /\ left <= size /\ sniffed <= first
    /\ Room >= 0 /\ sent + got <= max
    /\ pc \in {"parts", "sniff", "put", "record"} => answer = "none"
    /\ pc = "parts" => \A j \in 1..skipped : form[j] = "other"
    /\ pc \in {"parts", "sniff"} => /\ left = size
                                    /\ sniffed = 0 /\ first = 0
                                    /\ read = 0 /\ got = 0 /\ sent = 0
    /\ pc = "put" => /\ image /\ 1 <= first
                     /\ read + sniffed + left = size
                     /\ got + sent = read
                     /\ first <= read + sniffed
                     /\ sniffed > 0 => size - left = first
    /\ pc = "record" => /\ image /\ sent = read /\ read \in 1..max
                        /\ sent = size \/ broken

IInv == TypeOK /\ Accounted /\ VerdictIsTrue

\* The constants, as numbers.
LEMMA Bytes ==
    /\ Slack \in Nat /\ Signature \in Nat
    /\ sniffSize \in Nat \ {0} /\ PartSize \in Nat \ {0}
    /\ \A m \in Maxima : m \in Nat
BY BuffersHoldBytes, MaximaAreSizes

\* The smaller of two numbers is no larger than either.
LEMMA AtMostIs ==
    ASSUME NEW a \in Int, NEW b \in Int
    PROVE  /\ AtMost(a, b) \in Int
           /\ AtMost(a, b) <= a /\ AtMost(a, b) <= b
           /\ AtMost(a, b) = a \/ AtMost(a, b) = b
BY DEF AtMost

\* Lengths add up to a length.
LEMMA SumIs == ASSUME NEW a \in Nat, NEW b \in Nat PROVE a + b \in Nat
OBVIOUS

\* When fewer bytes are left, as many more have been moved.
LEMMA MovedOn ==
    ASSUME NEW a \in Nat, NEW b \in Nat, NEW l \in Nat, NEW m \in Nat,
           a + l = b + m, l <= m
    PROVE  b <= a
OBVIOUS

\* The room that is left in the body is a number, and a body that has less of
\* it than the file needs is too long.
LEMMA RoomIs ==
    ASSUME TypeOK
    PROVE  Room \in Int /\ (Room < left => skipped + size > max + Slack)
BY Bytes DEF TypeOK, Room, Limit

\* Reading the part leaves room as long as no more is read than there was.
LEMMA RoomLeft ==
    ASSUME TypeOK, max' = max, size' = size, skipped' = skipped,
           NEW l \in Nat, left' = l, left - l <= Room
    PROVE  Room' >= 0
<1>1. Room' = (max + Slack) - skipped - (size - l)
  BY DEF Room, Limit
<1>2. Room = (max + Slack) - skipped - (size - left)
  BY DEF Room, Limit
<1>3. /\ max \in Nat /\ size \in Nat /\ skipped \in Nat /\ left \in Nat
      /\ Slack \in Nat
  BY Bytes DEF TypeOK
<1>4. (max + Slack) - skipped - (size - l) >= 0
  BY <1>2, <1>3
<1> QED BY <1>1, <1>4

\* What a Read of the part can return: mime/multipart under MaxBytesReader.
LEMMA PartReadGives ==
    ASSUME TypeOK, Room >= 0, NEW want \in Nat, NEW x \in PartRead(want)
    PROVE  /\ x.n \in Nat /\ x.n <= want /\ x.n <= left /\ x.n <= Room
           /\ x.err \in {"nil", "EOF", "limit", "broken"}
           /\ x.err = "nil" => x.n > 0
           /\ x.err = "EOF" => x.n = left
           /\ x.err = "limit" => skipped + size > max + Slack
<1>1. CASE broken
  <2>1. x.n = 0 /\ x.err = "broken"
    BY <1>1 DEF PartRead, Result
  <2> QED BY <2>1, RoomIs DEF TypeOK
<1>2. CASE ~broken
  <2> DEFINE most == AtMost(want, AtMost(left, Room))
  <2>1. left \in Nat /\ Room \in Int
    BY RoomIs DEF TypeOK
  <2>2. most \in Int /\ most <= want /\ most <= left /\ most <= Room
    <3>1. /\ AtMost(left, Room) \in Int
          /\ AtMost(left, Room) <= left /\ AtMost(left, Room) <= Room
      BY <2>1, AtMostIs
    <3>2. most \in Int /\ most <= want /\ most <= AtMost(left, Room)
      BY <2>1, <3>1, AtMostIs
    <3> HIDE DEF most
    <3> QED BY <2>1, <3>1, <3>2
  <2>3. \/ \E n \in 1..most : x = Result(n, "nil")
        \/ \E n \in {m \in 0..most : m = left} : x = Result(n, "EOF")
        \/ \E n \in {m \in 0..most : m = Room /\ m < left} : x = Result(n, "limit")
        \/ \E n \in {m \in 0..most : m < left} : x = Result(n, "broken")
    BY <1>2, Zenon DEF PartRead
  <2> HIDE DEF most
  <2>4. CASE \E n \in 1..most : x = Result(n, "nil")
    BY <2>1, <2>2, <2>4 DEF Result
  <2>5. CASE \E n \in {m \in 0..most : m = left} : x = Result(n, "EOF")
    BY <2>1, <2>2, <2>5 DEF Result
  <2>6. CASE \E n \in {m \in 0..most : m = Room /\ m < left} : x = Result(n, "limit")
    BY <2>1, <2>2, <2>6, RoomIs DEF Result
  <2>7. CASE \E n \in {m \in 0..most : m < left} : x = Result(n, "broken")
    BY <2>1, <2>2, <2>7 DEF Result
  <2> QED BY <2>3, <2>4, <2>5, <2>6, <2>7
<1> QED BY <1>1, <1>2

\* maxSizeReader never asks for more than what remains, except for the probe.
LEMMA WantIs ==
    ASSUME TypeOK, NEW want \in Nat
    PROVE  /\ Want(want) \in Nat
           /\ read # max => Want(want) <= want /\ Want(want) <= max - read
           /\ read = max => Want(want) = 1
<1>1. read \in Nat /\ max \in Nat /\ read <= max
  BY Bytes DEF TypeOK
<1> QED BY <1>1 DEF Want, AtMost

\* One Read of the whole chain, seen by PutObject: where the bytes came from,
\* what the limit made of them, and what is left behind.
LEMMA ReadMoves ==
    ASSUME IInv, pc = "put",
           NEW raw \in StreamRead(Want(PartSize - got)),
           Take(raw.n, raw.err)
    PROVE  LET x == Outcome(raw) IN
           /\ x.n \in Nat /\ read + x.n <= max /\ got + x.n <= PartSize
           /\ x.err \in {"nil", "EOF", "limit", "broken", "invalid"}
           /\ left' \in Nat /\ sniffed' \in Nat /\ broken' \in BOOLEAN
           /\ left' <= left /\ sniffed' <= sniffed
           /\ sniffed' > 0 => left' = left
           /\ x.err # "invalid" => read + x.n + sniffed' + left' = size
           /\ x.err = "EOF" => left' = 0 /\ sniffed' = 0
           /\ x.err = "limit" => skipped + size > max + Slack
           /\ x.err = "broken" => broken' /\ sniffed' = 0
           /\ x.err = "invalid" => x.n = 0 /\ size > max
           /\ size - left' <= max + 1 \/ size - left' = first
           /\ left - left' <= Room
<1> DEFINE want == Want(PartSize - got)
<1>1. /\ read \in Nat /\ max \in Nat /\ read <= max /\ size \in Nat /\ left \in Nat
      /\ sniffed \in Nat /\ first \in Nat /\ got \in Nat /\ PartSize \in Nat
      /\ got < PartSize /\ PartSize - got \in Nat
  BY Bytes DEF IInv, TypeOK
<1>r. Room \in Int /\ Room >= 0
  BY RoomIs DEF IInv, Accounted
<1>2. /\ read + sniffed + left = size
      /\ sniffed > 0 => size - left = first
  BY DEF IInv, Accounted
<1>3. /\ want \in Nat
      /\ read # max => want <= PartSize - got /\ want <= max - read
      /\ read = max => want = 1
  BY <1>1, WantIs DEF IInv
<1> HIDE DEF want
<1>4. /\ raw.n \in Nat /\ raw.n <= want
      /\ raw.err \in {"nil", "EOF", "limit", "broken"}
      /\ left' \in Nat /\ sniffed' \in Nat
      /\ sniffed' + left' + raw.n = sniffed + left
      /\ left' <= left /\ sniffed' <= sniffed
      /\ sniffed > 0 => left' = left /\ raw.err = "nil"
      /\ sniffed = 0 => sniffed' = 0
      /\ raw.err = "EOF" => left' = 0 /\ sniffed' = 0
      /\ raw.err = "limit" => skipped + size > max + Slack
      /\ raw.err = "broken" => sniffed' = 0
      /\ left - left' <= Room
  <2>1. CASE sniffed > 0
    <3>1. raw = Result(AtMost(want, sniffed), "nil")
      BY <2>1 DEF StreamRead, want
    <3>2. /\ AtMost(want, sniffed) \in Nat
          /\ AtMost(want, sniffed) <= want /\ AtMost(want, sniffed) <= sniffed
      BY <1>1, <1>3 DEF AtMost
    <3>3. raw.n = AtMost(want, sniffed) /\ raw.err = "nil"
      BY <3>1 DEF Result
    <3>4. sniffed' = sniffed - raw.n /\ left' = left
      BY <2>1 DEF Take
    <3> QED BY <1>1, <1>r, <2>1, <3>2, <3>3, <3>4
  <2>2. CASE sniffed = 0
    <3>1. raw \in PartRead(want)
      BY <2>2 DEF StreamRead, want
    <3>2. /\ raw.n \in Nat /\ raw.n <= want /\ raw.n <= left /\ raw.n <= Room
          /\ raw.err \in {"nil", "EOF", "limit", "broken"}
          /\ raw.err = "EOF" => raw.n = left
          /\ raw.err = "limit" => skipped + size > max + Slack
      BY <1>3, <1>r, <3>1, PartReadGives DEF IInv
    <3>3. left' = left - raw.n /\ sniffed' = sniffed
      BY <2>2 DEF Take
    <3>4. left' \in Nat /\ left' <= left /\ left - left' <= Room
      <4>1. PICK n \in Nat : n = raw.n
        BY <3>2
      <4>2. PICK l : l = left - n
        OBVIOUS
      <4>3. l \in Nat /\ l <= left /\ left - l <= Room
        BY <1>1, <1>r, <3>2, <4>1, <4>2
      <4> QED BY <3>3, <4>1, <4>2, <4>3
    <3>5. sniffed' + left' + raw.n = sniffed + left
      BY <1>1, <2>2, <3>2, <3>3
    <3>6. raw.err = "EOF" => left' = 0
      BY <1>1, <3>2, <3>3
    <3> QED BY <1>1, <2>2, <3>2, <3>3, <3>4, <3>5, <3>6
  <2> QED BY <1>1, <2>1, <2>2
<1>b. broken' \in BOOLEAN /\ (raw.err = "broken" => broken')
  <2>1. CASE sniffed > 0
    <3>1. broken' = broken
      BY <2>1 DEF Take
    <3> QED BY <3>1, <1>4, <2>1 DEF IInv, TypeOK
  <2>2. CASE ~(sniffed > 0)
    <3>1. broken' = (broken \/ raw.err = "broken")
      BY <2>2 DEF Take
    <3> QED BY <3>1
  <2> QED BY <2>1, <2>2
<1>5. size - left' = read + raw.n \/ size - left' = first
  <2>1. CASE sniffed > 0
    BY <1>1, <1>2, <1>4, <2>1
  <2>2. CASE sniffed = 0
    <3>1. left' + raw.n = left
      BY <1>1, <1>4, <2>2
    <3>2. read + left = size
      BY <1>1, <1>2, <2>2
    <3>3. left' \in Nat /\ raw.n \in Nat
      BY <1>4
    <3>4. size - left' = read + raw.n
      BY <1>1, <3>1, <3>2, <3>3
    <3> QED BY <3>4
  <2> QED BY <1>1, <2>1, <2>2
<1>6. CASE read = max /\ raw.n > 0
  <2>1. Outcome(raw) = Result(0, "invalid")
    BY <1>6 DEF Outcome
  <2>2. Outcome(raw).n = 0 /\ Outcome(raw).err = "invalid"
    BY <2>1 DEF Result
  <2>3. size > max
    BY <1>1, <1>2, <1>4, <1>6
  <2>4. size - left' <= max + 1 \/ size - left' = first
    <3>1. CASE size - left' = first
      BY <3>1
    <3>2. CASE size - left' = read + raw.n
      <4>1. read + raw.n <= max + 1
        BY <1>1, <1>3, <1>4, <1>6
      <4> QED BY <3>2, <4>1
    <3> QED BY <1>5, <3>1, <3>2
  <2>5. sniffed' > 0 => left' = left
    BY <1>1, <1>4
  <2>6. read + Outcome(raw).n <= max /\ got + Outcome(raw).n <= PartSize
    BY <1>1, <2>2
  <2> QED BY <1>4, <1>b, <2>2, <2>3, <2>4, <2>5, <2>6
<1>7. CASE ~(read = max /\ raw.n > 0)
  <2>1. Outcome(raw) = raw
    BY <1>7 DEF Outcome
  <2>2. read + raw.n <= max /\ got + raw.n <= PartSize
    BY <1>1, <1>3, <1>4, <1>7
  <2>3. read + raw.n + sniffed' + left' = size
    BY <1>1, <1>2, <1>4
  <2>4. sniffed' > 0 => left' = left
    BY <1>1, <1>4
  <2>5. size - left' <= max + 1 \/ size - left' = first
    <3>1. CASE size - left' = first
      BY <3>1
    <3>2. CASE size - left' = read + raw.n
      <4>1. read + raw.n <= max + 1
        BY <1>1, <1>4, <2>2
      <4> QED BY <3>2, <4>1
    <3> QED BY <1>5, <3>1, <3>2
  <2> QED BY <1>4, <1>b, <2>1, <2>2, <2>3, <2>4, <2>5
<1> QED BY <1>6, <1>7

-----------------------------------------------------------------------------
(* The inductive invariant                                                 *)

\* As long as nothing is answered, no answer is wrong.
LEMMA NothingAnswered == ASSUME answer = "none" PROVE VerdictIsTrue
BY DEF VerdictIsTrue, AcceptedIsWhole, RefusedWithReason, MissingWithReason,
       FailedWithReason

LEMMA InitEstablishes == Init => IInv
<1> SUFFICES ASSUME Init PROVE IInv
  OBVIOUS
<1> USE DEF Init
<1>1. max \in Nat
  BY Bytes
<1>2. /\ form \in Seq({"other", "file", "unnamed"})
      /\ size \in Nat /\ left \in Nat /\ sniffed \in Nat
      /\ first \in Nat /\ sent \in Nat /\ skipped \in Nat
  OBVIOUS
<1>3. read \in 0..max /\ got \in 0..(PartSize - 1)
  BY <1>1, Bytes
<1>4. TypeOK
  BY <1>2, <1>3 DEF TypeOK
<1>5. Accounted
  BY <1>1, Bytes DEF Accounted, Room, Limit
<1> QED BY <1>4, <1>5, NothingAnswered DEF IInv

LEMMA TypesAre ==
    ASSUME TypeOK
    PROVE  /\ max \in Nat /\ size \in Nat /\ left \in Nat /\ sniffed \in Nat
           /\ first \in Nat /\ sent \in Nat /\ skipped \in Nat
           /\ read \in Nat /\ read <= max /\ got \in Nat /\ got < PartSize
BY Bytes DEF TypeOK

\* The steps of filePart.
LEMMA ArriveStep ==
    ASSUME IInv, NEW f \in Forms, NEW s \in Sizes, NEW i \in BOOLEAN, Arrive(f, s, i)
    PROVE  IInv'
<1>1. f \in Seq({"other", "file", "unnamed"}) /\ s \in Nat /\ max \in Nat /\ max' = max
  BY FormsAreParts, SizesAreLengths, TypesAre DEF Arrive, IInv
<1>2. TypeOK'
  <2>1. read' \in 0..max' /\ got' \in 0..(PartSize - 1) /\ max' \in Maxima
    BY <1>1, Bytes DEF Arrive, IInv, TypeOK
  <2>2. /\ form' \in Seq({"other", "file", "unnamed"})
        /\ size' \in Nat /\ left' \in Nat /\ sniffed' \in Nat
        /\ first' \in Nat /\ sent' \in Nat /\ skipped' \in Nat
        /\ pc' = "parts" /\ answer' = "none"
    BY <1>1 DEF Arrive
  <2>3. image' \in BOOLEAN /\ broken' \in BOOLEAN /\ faulty' \in BOOLEAN
    BY DEF Arrive
  <2> QED BY <2>1, <2>2, <2>3 DEF TypeOK
<1>3. Accounted'
  <2>1. /\ left' = s /\ size' = s /\ skipped' = 0 /\ sniffed' = 0 /\ first' = 0
        /\ read' = 0 /\ got' = 0 /\ sent' = 0 /\ pc' = "parts" /\ answer' = "none"
    BY DEF Arrive
  <2>2. Room' = max + Slack
    BY <1>1, <2>1, Bytes DEF Room, Limit
  <2>3. Room' >= 0
    BY <1>1, <2>2, Bytes
  <2> QED BY <1>1, <2>1, <2>3 DEF Accounted
<1>4. VerdictIsTrue'
  BY NothingAnswered DEF Arrive, VerdictIsTrue, AcceptedIsWhole, RefusedWithReason,
                         MissingWithReason, FailedWithReason
<1> QED BY <1>2, <1>3, <1>4 DEF IInv

LEMMA NextPartStep ==
    ASSUME IInv, NextPart
    PROVE  IInv'
<1>1. /\ pc = "parts" /\ PartIs("other") /\ Room > 0 /\ skipped' = skipped + 1
      /\ UNCHANGED <<body, source, first, object, faulty, answer, pc>>
  BY DEF NextPart
<1>2. max \in Nat /\ size \in Nat /\ left \in Nat /\ skipped \in Nat
  BY TypesAre DEF IInv
<1>3. TypeOK'
  BY <1>1, <1>2 DEF IInv, TypeOK, body, source, object
<1>4. Room' >= 0
  BY <1>1, <1>2, Bytes DEF Room, Limit, body, source
<1>5. ASSUME NEW j \in 1..skipped' PROVE form'[j] = "other"
  <2>1. j \in 1..skipped \/ j = skipped + 1
    BY <1>1, <1>2
  <2> QED BY <1>1, <2>1 DEF IInv, Accounted, PartIs, body
<1>6. Accounted'
  BY <1>1, <1>4, <1>5 DEF IInv, Accounted, body, source, object
<1>7. answer' = "none"
  BY <1>1 DEF IInv, Accounted
<1>8. VerdictIsTrue'
  BY <1>7 DEF VerdictIsTrue, AcceptedIsWhole, RefusedWithReason, MissingWithReason,
              FailedWithReason
<1> QED BY <1>3, <1>6, <1>8 DEF IInv

LEMMA FoundPartStep ==
    ASSUME IInv, FoundPart
    PROVE  IInv'
<1>1. /\ pc = "parts" /\ pc' = "sniff"
      /\ UNCHANGED <<body, skipped, source, first, object, faulty, answer>>
  BY DEF FoundPart
<1>2. TypeOK'
  BY <1>1 DEF IInv, TypeOK, body, source, object
<1>3. Room' = Room
  BY <1>1 DEF Room, Limit, body, source
<1>4. Accounted'
  BY <1>1, <1>3 DEF IInv, Accounted, body, source, object
<1>5. answer' = "none"
  BY <1>1 DEF IInv, Accounted
<1>6. VerdictIsTrue'
  BY <1>5 DEF VerdictIsTrue, AcceptedIsWhole, RefusedWithReason, MissingWithReason,
              FailedWithReason
<1> QED BY <1>2, <1>4, <1>6 DEF IInv

LEMMA NoPartStep ==
    ASSUME IInv, NoPart
    PROVE  IInv'
<1>1. /\ pc = "parts" /\ pc' = "idle" /\ answer' = "missing" /\ broken' \in BOOLEAN
      /\ \/ skipped = Len(form) \/ broken' \/ PartIs("unnamed")
         \/ PartIs("other") /\ Room = 0
      /\ UNCHANGED <<body, skipped, left, sniffed, first, object, faulty>>
  BY DEF NoPart
<1>2. /\ max \in Nat /\ size \in Nat /\ left \in Nat /\ skipped \in Nat /\ left = size
      /\ form \in Seq({"other", "file", "unnamed"})
      /\ \A j \in 1..skipped : form[j] = "other"
  BY <1>1, TypesAre DEF IInv, Accounted, TypeOK
<1>3. TypeOK'
  BY <1>1 DEF IInv, TypeOK, body, object
<1>4. Room' = Room
  BY <1>1 DEF Room, Limit, body
<1>5. Accounted'
  BY <1>1, <1>4 DEF IInv, Accounted, body, object
<1>6. ASSUME ~broken', NEW i \in 1..Len(form), Reachable(i) PROVE FALSE
  <2>1. /\ form[i] = "file" /\ i <= max + Slack + 1
        /\ \A j \in 1..(i - 1) : form[j] = "other"
    BY <1>6 DEF Reachable, Limit
  <2>2. i > skipped
    BY <1>2, <2>1
  <2>3. CASE skipped = Len(form)
    BY <2>2, <2>3
  <2>4. CASE PartIs("unnamed")
    <3>1. form[skipped + 1] = "unnamed"
      BY <2>4 DEF PartIs
    <3>2. skipped + 1 \in 1..(i - 1) \/ skipped + 1 = i
      BY <1>2, <2>2
    <3> QED BY <2>1, <3>1, <3>2
  <2>5. CASE PartIs("other") /\ Room = 0
    <3>1. form[skipped + 1] = "other"
      BY <2>5 DEF PartIs
    <3>2. skipped = max + Slack
      BY <1>2, <2>5, Bytes DEF Room, Limit
    <3>3. i = skipped + 1
      BY <1>2, <2>1, <2>2, <3>2, Bytes
    <3> QED BY <2>1, <3>1, <3>3
  <2> QED BY <1>1, <1>6, <2>3, <2>4, <2>5
<1>7. MissingWithReason'
  <2>1. form' = form /\ max' = max
    BY <1>1 DEF body
  <2>2. \A i : Reachable(i)' = Reachable(i)
    BY <2>1 DEF Reachable, Limit
  <2> QED BY <1>6, <2>1, <2>2 DEF MissingWithReason
<1>8. VerdictIsTrue'
  BY <1>1, <1>7 DEF VerdictIsTrue, AcceptedIsWhole, RefusedWithReason, FailedWithReason
<1> QED BY <1>3, <1>5, <1>8 DEF IInv

LEMMA SniffStep ==
    ASSUME IInv, Sniff
    PROVE  IInv'
<1>1. PICK x \in PartRead(sniffSize) :
        /\ left' = left - x.n /\ broken' = (x.err = "broken")
        /\ sniffed' = x.n /\ first' = x.n
        /\ IF x.err \notin {"nil", "EOF"} THEN Decide("failed")
           ELSE IF x.n < Signature \/ x.n = 0 \/ ~image THEN Decide("invalid")
           ELSE pc' = "put" /\ UNCHANGED answer
  BY Zenon DEF Sniff
<1>2. pc = "sniff" /\ UNCHANGED <<body, skipped, object, faulty>>
  BY DEF Sniff
<1>t. /\ max \in Nat /\ size \in Nat /\ left \in Nat /\ skipped \in Nat
      /\ Room \in Int /\ Room >= 0
  BY TypesAre, RoomIs DEF IInv, Accounted
<1>3. /\ x.n \in Nat /\ x.n <= left /\ x.n <= Room
      /\ x.err \in {"nil", "EOF", "limit", "broken"}
      /\ x.err = "nil" => x.n > 0
      /\ x.err = "EOF" => x.n = left
      /\ x.err = "limit" => skipped + size > max + Slack
  BY <1>t, Bytes, PartReadGives DEF IInv
<1>4. left = size /\ read = 0 /\ got = 0 /\ sent = 0 /\ answer = "none"
  BY <1>2 DEF IInv, Accounted
<1>5. \/ /\ answer' = "failed" /\ pc' = "close" /\ x.err \in {"limit", "broken"}
      \/ /\ answer' = "invalid" /\ pc' = "close" /\ x.err \in {"nil", "EOF"}
         /\ x.n < Signature \/ x.n = 0 \/ ~image
      \/ answer' = "none" /\ pc' = "put" /\ image /\ 1 <= x.n
  <2>1. CASE x.err \notin {"nil", "EOF"}
    BY <1>1, <1>3, <2>1 DEF Decide
  <2>2. CASE x.err \in {"nil", "EOF"} /\ (x.n < Signature \/ x.n = 0 \/ ~image)
    BY <1>1, <2>2 DEF Decide
  <2>3. CASE x.err \in {"nil", "EOF"} /\ ~(x.n < Signature \/ x.n = 0 \/ ~image)
    <3>1. answer' = "none" /\ pc' = "put" /\ image /\ x.n # 0
      BY <1>1, <1>4, <2>3
    <3>2. 1 <= x.n
      BY <1>3, <3>1
    <3> QED BY <3>1, <3>2
  <2> QED BY <2>1, <2>2, <2>3
<1>6. TypeOK'
  <2>1. left' \in Nat /\ sniffed' \in Nat /\ first' \in Nat /\ broken' \in BOOLEAN
    BY <1>t, <1>1, <1>3
  <2>2. answer' \in Answers \cup {"none"} /\ pc' \in {"close", "put"}
    BY <1>5
  <2> QED BY <1>2, <2>1, <2>2 DEF IInv, TypeOK, body, object
<1>7. size' = size /\ max' = max /\ skipped' = skipped /\ image' = image
      /\ read' = 0 /\ got' = 0 /\ sent' = 0
  BY <1>2, <1>4 DEF body, object
<1>8. left' + x.n = size /\ sniffed' = x.n /\ first' = x.n
  BY <1>t, <1>1, <1>3, <1>4
<1>9. Accounted'
  <2>1. PICK l \in Nat, n \in Nat : left' = l /\ n = x.n /\ l + n = size
    BY <1>3, <1>6, <1>8 DEF TypeOK
  <2>2. l <= size /\ size - l = n /\ left - l <= Room
    BY <1>t, <1>3, <1>4, <2>1
  <2>3. Room' >= 0
    BY <1>7, <2>1, <2>2, RoomLeft DEF IInv
  <2>4. /\ left' <= size' /\ size' - left' = first'
        /\ read' + sniffed' + left' = size'
    BY <1>t, <1>7, <1>8, <2>1, <2>2
  <2>5. got' + sent' = read' /\ first' <= read' + sniffed' /\ sent' + got' <= max'
    BY <1>t, <1>7, <1>8, <2>1
  <2>6. sniffed' <= first' /\ (pc' = "put" => 1 <= first')
    BY <1>5, <1>8, <2>1
  <2> QED BY <1>5, <1>7, <2>3, <2>4, <2>5, <2>6 DEF Accounted
<1>10. RefusedWithReason'
  <2> SUFFICES ASSUME answer' = "invalid"
               PROVE  size' \notin 1..max' \/ ~image' \/ first' < Signature
    BY DEF RefusedWithReason
  <2>1. CASE x.n < Signature \/ ~image
    BY <1>7, <1>8, <2>1
  <2>2. CASE x.n = 0
    <3>1. x.err = "EOF"
      BY <1>3, <1>5, <2>2
    <3>2. size' = 0
      BY <1>3, <1>4, <1>7, <2>2, <3>1
    <3> QED BY <3>2
  <2> QED BY <1>5, <2>1, <2>2
<1>11. FailedWithReason'
  <2> SUFFICES ASSUME answer' = "failed"
               PROVE  broken' \/ skipped' + size' > max' + Slack
    BY DEF FailedWithReason
  <2> QED BY <1>1, <1>3, <1>5, <1>7
<1>12. VerdictIsTrue'
  BY <1>5, <1>10, <1>11 DEF VerdictIsTrue, AcceptedIsWhole, MissingWithReason
<1> QED BY <1>6, <1>9, <1>12 DEF IInv

LEMMA FillStep ==
    ASSUME IInv, Fill
    PROVE  IInv'
<1>n. /\ max \in Nat /\ size \in Nat /\ left \in Nat /\ sniffed \in Nat
      /\ first \in Nat /\ sent \in Nat /\ skipped \in Nat
      /\ read \in Nat /\ read <= max /\ got \in Nat /\ got < PartSize
  BY TypesAre DEF IInv
<1>1. PICK raw \in StreamRead(Want(PartSize - got)) :
        LET x    == Outcome(raw)
            full == got + x.n = PartSize IN
        /\ full \/ x.err = "nil"
        /\ Take(raw.n, raw.err)
        /\ read' = read + x.n
        /\ got' = IF full THEN 0 ELSE got + x.n
        /\ sent' = IF full THEN sent + PartSize ELSE sent
  BY Zenon DEF Fill
<1> DEFINE x == Outcome(raw)
<1>2. /\ pc = "put" /\ pc' = "put" /\ answer' = answer /\ first' = first
      /\ skipped' = skipped /\ faulty' = faulty /\ UNCHANGED body
  BY DEF Fill
<1>3. /\ x.n \in Nat /\ read + x.n <= max /\ got + x.n <= PartSize
      /\ left' \in Nat /\ sniffed' \in Nat /\ broken' \in BOOLEAN
      /\ left' <= left /\ sniffed' <= sniffed
      /\ sniffed' > 0 => left' = left
      /\ x.err # "invalid" => read + x.n + sniffed' + left' = size
      /\ x.err = "invalid" => x.n = 0
      /\ left - left' <= Room
  BY <1>1, <1>2, ReadMoves
<1>4. /\ got + x.n = PartSize \/ x.err = "nil"
      /\ read' = read + x.n
      /\ got' = IF got + x.n = PartSize THEN 0 ELSE got + x.n
      /\ sent' = IF got + x.n = PartSize THEN sent + PartSize ELSE sent
  BY <1>1
<1> HIDE DEF x
<1>5. x.err # "invalid"
  BY <1>n, <1>3, <1>4, Bytes
<1>6. PICK n \in Nat : /\ read + n <= max /\ got + n <= PartSize
                       /\ read' = read + n
                       /\ got' = IF got + n = PartSize THEN 0 ELSE got + n
                       /\ sent' = IF got + n = PartSize THEN sent + PartSize ELSE sent
  BY <1>3, <1>4
<1>m. max' = max /\ size' = size /\ image' = image /\ form' = form
  BY <1>2 DEF body
<1>7. TypeOK'
  <2>1. read' \in Nat /\ read' <= max'
    BY <1>n, <1>m, <1>6
  <2>2. got' \in Nat /\ got' < PartSize
    <3>1. CASE got + n = PartSize
      BY <1>6, <3>1, Bytes
    <3>2. CASE got + n # PartSize
      BY <1>n, <1>6, <3>2, Bytes
    <3> QED BY <3>1, <3>2
  <2>3. sent' \in Nat
    BY <1>n, <1>6, Bytes
  <2>4. read' \in 0..max' /\ got' \in 0..(PartSize - 1)
    BY <1>n, <1>m, <2>1, <2>2, Bytes
  <2> QED BY <1>2, <1>3, <1>m, <2>3, <2>4 DEF IInv, TypeOK
<1>8. /\ left <= size /\ sniffed <= first /\ image /\ 1 <= first
      /\ read + sniffed + left = size /\ got + sent = read
      /\ first <= read + sniffed
      /\ sniffed > 0 => size - left = first
      /\ answer = "none"
  BY <1>2 DEF IInv, Accounted
<1>9. Accounted'
  <2>1. left' <= size' /\ sniffed' <= first'
    BY <1>n, <1>m, <1>2, <1>3, <1>8
  <2>2. image' /\ 1 <= first' /\ pc' = "put" /\ answer' = "none"
    BY <1>2, <1>m, <1>8
  <2>3. read' + sniffed' + left' = size'
    BY <1>m, <1>3, <1>4, <1>5
  <2>4. got' + sent' = read'
    <3>1. got + sent = read
      BY <1>8
    <3>2. CASE got + n = PartSize
      BY <1>n, <1>6, <3>1, <3>2, Bytes
    <3>3. CASE got + n # PartSize
      BY <1>n, <1>6, <3>1, <3>3, Bytes
    <3> QED BY <3>2, <3>3
  <2>5. sniffed' > 0 => size' - left' = first'
    BY <1>n, <1>m, <1>2, <1>3, <1>8
  <2>6. first' <= read' + sniffed'
    <3>1. read' + sniffed' + left' = read + sniffed + left
      BY <1>m, <1>8, <2>3
    <3>2. read' \in Nat
      BY <1>n, <1>6
    <3>3. left' \in Nat /\ sniffed' \in Nat /\ left' <= left
      BY <1>3
    <3>4. read' + sniffed' \in Nat
      <4>1. sniffed' \in Nat
        BY <3>3
      <4> QED BY <3>2, <4>1, SumIs
    <3>5. read + sniffed \in Nat
      BY <1>n
    <3>6. read + sniffed <= read' + sniffed'
      BY <1>n, <3>1, <3>3, <3>4, <3>5, MovedOn
    <3> QED BY <1>n, <1>2, <1>8, <3>4, <3>5, <3>6
  <2>7. Room' >= 0
    BY <1>m, <1>2, <1>3, RoomLeft DEF IInv
  <2>8. sent' + got' <= max'
    <3>1. read' <= max' /\ read' = got' + sent' /\ got' \in Nat /\ sent' \in Nat
      BY <1>n, <1>m, <1>6, <1>7, <2>4, TypesAre DEF TypeOK
    <3> QED BY <3>1
  <2> QED BY <2>1, <2>2, <2>3, <2>4, <2>5, <2>6, <2>7, <2>8 DEF Accounted
<1>10. VerdictIsTrue'
  BY <1>2, <1>8 DEF VerdictIsTrue, AcceptedIsWhole, RefusedWithReason,
                    MissingWithReason, FailedWithReason
<1> QED BY <1>7, <1>9, <1>10 DEF IInv

LEMMA FinishStep ==
    ASSUME IInv, Finish
    PROVE  IInv'
<1>n. /\ max \in Nat /\ size \in Nat /\ left \in Nat /\ sniffed \in Nat
      /\ first \in Nat /\ sent \in Nat /\ skipped \in Nat
      /\ read \in Nat /\ read <= max /\ got \in Nat /\ got < PartSize
  BY TypesAre DEF IInv
<1>1. PICK raw \in StreamRead(Want(PartSize - got)) :
        LET x == Outcome(raw) IN
        /\ got + x.n < PartSize /\ x.err # "nil"
        /\ Take(raw.n, raw.err)
        /\ read' = read + x.n
        /\ got' = 0 /\ sent' = sent + got + x.n
        /\ \E end \in Ending(x.err) :
             IF end = "stored" THEN pc' = "record" /\ UNCHANGED answer ELSE Decide(end)
  BY Zenon DEF Finish
<1> DEFINE x == Outcome(raw)
<1>2. /\ pc = "put" /\ first' = first
      /\ skipped' = skipped /\ faulty' = faulty /\ UNCHANGED body
  BY DEF Finish
<1>3. /\ x.n \in Nat /\ read + x.n <= max
      /\ x.err \in {"nil", "EOF", "limit", "broken", "invalid"}
      /\ left' \in Nat /\ sniffed' \in Nat /\ broken' \in BOOLEAN
      /\ left' <= left /\ sniffed' <= sniffed
      /\ x.err # "invalid" => read + x.n + sniffed' + left' = size
      /\ x.err = "EOF" => left' = 0 /\ sniffed' = 0
      /\ x.err = "limit" => skipped + size > max + Slack
      /\ x.err = "broken" => broken' /\ sniffed' = 0
      /\ x.err = "invalid" => x.n = 0 /\ size > max
      /\ left - left' <= Room
  BY <1>1, <1>2, ReadMoves
<1>4. /\ x.err # "nil" /\ read' = read + x.n
      /\ got' = 0 /\ sent' = sent + got + x.n
  BY <1>1
<1>5. \E end \in Ending(x.err) :
        IF end = "stored" THEN pc' = "record" /\ answer' = answer ELSE Decide(end)
  BY <1>1
<1> HIDE DEF x
<1>8. /\ left <= size /\ sniffed <= first /\ image /\ 1 <= first
      /\ read + sniffed + left = size /\ got + sent = read
      /\ first <= read + sniffed /\ answer = "none"
  BY <1>2 DEF IInv, Accounted
<1>6. \/ pc' = "record" /\ answer' = "none" /\ x.err \in {"EOF", "broken"}
      \/ pc' = "close" /\ answer' = "invalid" /\ x.err = "invalid"
      \/ pc' = "close" /\ answer' = "failed" /\ x.err \in {"limit", "broken"}
  <2>1. CASE x.err = "EOF"
    BY <1>5, <1>8, <2>1 DEF Ending, Decide
  <2>2. CASE x.err = "invalid"
    BY <1>5, <2>2 DEF Ending, Decide
  <2>3. CASE x.err = "limit"
    BY <1>5, <2>3 DEF Ending, Decide
  <2>4. CASE x.err = "broken"
    <3>1. Ending(x.err) = {"stored", "failed"}
      BY <2>4 DEF Ending
    <3> QED BY <1>5, <1>8, <2>4, <3>1 DEF Decide
  <2> QED BY <1>3, <1>4, <2>1, <2>2, <2>3, <2>4
<1>7. PICK n \in Nat : /\ read + n <= max
                       /\ read' = read + n /\ sent' = sent + got + n
  BY <1>3, <1>4
<1>m. max' = max /\ size' = size /\ image' = image /\ form' = form
  BY <1>2 DEF body
<1>9. read' \in Nat /\ read' <= max' /\ sent' \in Nat /\ sent' = read'
  BY <1>n, <1>m, <1>7, <1>8
<1>10. TypeOK'
  <2>1. read' \in 0..max' /\ got' \in 0..(PartSize - 1)
    <3>1. read' \in 0..max'
      BY <1>n, <1>m, <1>9
    <3>2. got' = 0 /\ 0 \in 0..(PartSize - 1)
      BY <1>4, Bytes
    <3> QED BY <3>1, <3>2
  <2>2. answer' \in Answers \cup {"none"} /\ pc' \in {"record", "close"}
    BY <1>6
  <2> QED BY <1>2, <1>3, <1>m, <1>9, <2>1, <2>2 DEF IInv, TypeOK
<1>11. x.err \in {"EOF", "broken"} => 1 <= read'
  <2> SUFFICES ASSUME x.err \in {"EOF", "broken"} PROVE 1 <= read'
    OBVIOUS
  <2>1. read' + left' = size /\ left' \in Nat /\ left' <= left
    <3>1. read + x.n + sniffed' + left' = size
      BY <1>3
    <3>2. sniffed' = 0
      BY <1>3
    <3>3. read' + sniffed' + left' = size
      BY <1>4, <3>1
    <3> QED BY <1>3, <1>9, <3>2, <3>3
  <2>2. read + sniffed \in Nat /\ read' + left' = read + sniffed + left
    BY <1>n, <1>8, <2>1
  <2>3. read + sniffed <= read'
    BY <1>n, <1>9, <2>1, <2>2, MovedOn
  <2> QED BY <1>n, <1>8, <1>9, <2>2, <2>3
<1>12. x.err = "EOF" => read' = size'
  <2> SUFFICES ASSUME x.err = "EOF" PROVE read' = size'
    OBVIOUS
  <2>1. read' + sniffed' + left' = size /\ sniffed' = 0 /\ left' = 0
    BY <1>3, <1>4
  <2> QED BY <1>9, <1>m, <2>1
<1>13. Accounted'
  <2>1. left' <= size' /\ sniffed' <= first'
    BY <1>n, <1>m, <1>2, <1>3, <1>8
  <2>2. Room' >= 0
    BY <1>m, <1>2, <1>3, RoomLeft DEF IInv
  <2>3. sent' + got' <= max'
    BY <1>4, <1>9
  <2>4. pc' = "record" => /\ image' /\ sent' = read' /\ read' \in 1..max'
                          /\ sent' = size' \/ broken'
    <3> SUFFICES ASSUME pc' = "record"
                 PROVE  /\ image' /\ sent' = read' /\ read' \in 1..max'
                        /\ sent' = size' \/ broken'
      OBVIOUS
    <3>1. x.err \in {"EOF", "broken"}
      BY <1>6
    <3>2. sent' = size' \/ broken'
      BY <1>3, <1>9, <1>12, <3>1
    <3>3. read' \in 1..max'
      BY <1>n, <1>m, <1>9, <1>11, <3>1
    <3> QED BY <1>8, <1>9, <1>m, <3>2, <3>3
  <2> QED BY <1>6, <2>1, <2>2, <2>3, <2>4 DEF Accounted
<1>14. RefusedWithReason'
  <2> SUFFICES ASSUME answer' = "invalid" PROVE size' \notin 1..max'
    BY DEF RefusedWithReason
  <2>1. size' > max' /\ max' \in Nat /\ size' \in Nat
    BY <1>n, <1>3, <1>6, <1>m
  <2> QED BY <2>1
<1>15. FailedWithReason'
  <2> SUFFICES ASSUME answer' = "failed"
               PROVE  broken' \/ skipped' + size' > max' + Slack
    BY DEF FailedWithReason
  <2> QED BY <1>2, <1>3, <1>6, <1>m
<1>16. VerdictIsTrue'
  BY <1>6, <1>14, <1>15 DEF VerdictIsTrue, AcceptedIsWhole, MissingWithReason
<1> QED BY <1>10, <1>13, <1>16 DEF IInv

\* The steps after the stream.
LEMMA RecordStep ==
    ASSUME IInv, Record
    PROVE  IInv'
<1>1. /\ pc = "record" /\ answer' = "created" /\ pc' = "close"
      /\ UNCHANGED <<body, skipped, source, first, object, faulty>>
  BY DEF Record, Decide
<1>2. TypeOK'
  BY <1>1 DEF IInv, TypeOK, body, source, object
<1>3. Room' = Room
  BY <1>1 DEF Room, Limit, body, source
<1>4. Accounted'
  BY <1>1, <1>3 DEF IInv, Accounted, body, source, object
<1>5. AcceptedIsWhole'
  BY <1>1 DEF IInv, Accounted, AcceptedIsWhole, body, source, object
<1>6. VerdictIsTrue'
  BY <1>1, <1>5 DEF VerdictIsTrue, RefusedWithReason, MissingWithReason, FailedWithReason
<1> QED BY <1>2, <1>4, <1>6 DEF IInv

LEMMA StoreFailsStep ==
    ASSUME IInv, StoreFails
    PROVE  IInv'
<1>1. /\ pc \in {"put", "record"} /\ answer' = "failed" /\ pc' = "close" /\ faulty' = TRUE
      /\ UNCHANGED <<body, skipped, source, first, object>>
  BY DEF StoreFails, Decide
<1>2. TypeOK'
  BY <1>1 DEF IInv, TypeOK, body, source, object
<1>3. Room' = Room
  BY <1>1 DEF Room, Limit, body, source
<1>4. Accounted'
  BY <1>1, <1>3 DEF IInv, Accounted, body, source, object
<1>5. VerdictIsTrue'
  BY <1>1 DEF VerdictIsTrue, AcceptedIsWhole, RefusedWithReason, MissingWithReason,
              FailedWithReason
<1> QED BY <1>2, <1>4, <1>5 DEF IInv

LEMMA CloseStep ==
    ASSUME IInv, Close
    PROVE  IInv'
<1>1. PICK x \in PartRead(left) :
        /\ left' = left - x.n /\ broken' = (broken \/ x.err = "broken")
        /\ pc' = IF x.err = "nil" THEN "close" ELSE "idle"
  BY Zenon DEF Close
<1>2. /\ pc = "close" /\ pc' \in {"close", "idle"}
      /\ UNCHANGED <<body, skipped, sniffed, first, object, faulty, answer>>
  BY <1>1 DEF Close
<1>3. /\ max \in Nat /\ size \in Nat /\ left \in Nat /\ skipped \in Nat
      /\ Room \in Int /\ Room >= 0
  BY TypesAre, RoomIs DEF IInv, Accounted
<1>4. x.n \in Nat /\ x.n <= left /\ x.n <= Room
  BY <1>3, PartReadGives DEF IInv
<1>5. left' \in Nat /\ left' <= left /\ left - left' <= Room
  BY <1>1, <1>3, <1>4
<1>6. broken' \in BOOLEAN /\ (broken => broken')
  BY <1>1
<1>7. TypeOK'
  BY <1>2, <1>5, <1>6 DEF IInv, TypeOK, body, object
<1>8. Room' >= 0
  BY <1>2, <1>5, RoomLeft DEF IInv, body
<1>9. left' <= size'
  BY <1>2, <1>3, <1>5 DEF IInv, Accounted, body
<1>10. Accounted'
  BY <1>2, <1>8, <1>9 DEF IInv, Accounted, body, object
<1>11. AcceptedIsWhole' /\ RefusedWithReason' /\ FailedWithReason'
  BY <1>2, <1>6 DEF IInv, VerdictIsTrue, AcceptedIsWhole, RefusedWithReason,
                    FailedWithReason, body, object
<1>12. MissingWithReason'
  <2>1. form' = form /\ max' = max /\ answer' = answer
    BY <1>2 DEF body
  <2>2. \A i : Reachable(i)' = Reachable(i)
    BY <2>1 DEF Reachable, Limit
  <2> QED BY <1>6, <2>1, <2>2 DEF IInv, VerdictIsTrue, MissingWithReason
<1> QED BY <1>7, <1>10, <1>11, <1>12 DEF IInv, VerdictIsTrue

LEMMA StepPreserves == IInv /\ [Next]_vars => IInv'
<1> SUFFICES ASSUME IInv, [Next]_vars PROVE IInv'
  OBVIOUS
<1>1. CASE Next
  BY <1>1, ArriveStep, NextPartStep, FoundPartStep, NoPartStep, SniffStep, FillStep,
     FinishStep, RecordStep, StoreFailsStep, CloseStep DEF Next, Upload
<1>2. CASE UNCHANGED vars
  <2>1. TypeOK' /\ Room' = Room
    BY <1>2 DEF IInv, TypeOK, Room, Limit, vars, body, source, object
  <2>2. Accounted'
    BY <1>2, <2>1 DEF IInv, Accounted, vars, body, source, object
  <2>3. \A i : Reachable(i)' = Reachable(i)
    BY <1>2 DEF Reachable, Limit, vars, body
  <2>4. VerdictIsTrue'
    BY <1>2, <2>3 DEF IInv, VerdictIsTrue, AcceptedIsWhole, RefusedWithReason,
       MissingWithReason, FailedWithReason, vars, body, source, object
  <2> QED BY <2>1, <2>2, <2>4 DEF IInv
<1> QED BY <1>1, <1>2

\* The inductive invariant holds in every reachable state of the upload.
THEOREM Inductive == Spec => []IInv
BY InitEstablishes, StepPreserves, PTL DEF Spec

\* Every variable of the upload keeps its type.
THEOREM TypeCorrect == Spec => []TypeOK
<1>1. IInv => TypeOK
  BY DEF IInv
<1> QED BY <1>1, Inductive, PTL

\* maxSizeReader, PutObject and repo.Create: 201 means that the object has what
\* was sent, within the maximum, or the connection broke; either 400 has one of
\* its reasons; a 500 means that the connection broke, the body was too long, or
\* MinIO or MongoDB failed.
THEOREM VerdictsAreTrue == Spec => []VerdictIsTrue
<1>1. IInv => VerdictIsTrue
  BY DEF IInv
<1> QED BY <1>1, Inductive, PTL

\* No step of the upload takes the connection more than a byte past the
\* maximum, or past the sniffing buffer, or gives MinIO more than the maximum;
\* with the deferred part.Close, no more is read than the body may hold.
THEOREM ReadsAlwaysStop == Spec => ReadsStopAtMaximum
<1>1. ASSUME IInv, [Next]_vars, Fill \/ Finish
      PROVE  size - left' <= max + 1 \/ size - left' = first
  <2>1. PICK raw \in StreamRead(Want(PartSize - got)) : Take(raw.n, raw.err)
    BY <1>1, Zenon DEF Fill, Finish
  <2>2. pc = "put"
    BY <1>1 DEF Fill, Finish
  <2> QED BY <1>1, <2>1, <2>2, ReadMoves
<1>2. ASSUME IInv' PROVE (sent + got)' <= max' /\ Room' >= 0
  BY <1>2 DEF IInv, Accounted
<1>3. IInv /\ [Next]_vars =>
        [/\ Fill \/ Finish => size - left' <= max + 1 \/ size - left' = first
         /\ (sent + got)' <= max'
         /\ Room' >= 0]_vars
  BY <1>1, <1>2, StepPreserves
<1> QED BY Inductive, <1>3, PTL DEF Spec, ReadsStopAtMaximum
=============================================================================
