---------------------------- MODULE UploadStream ----------------------------
(***************************************************************************)
(* What POST /files accepts: a body is streamed from the connection to     *)
(* MinIO through a chain of readers, and no reader knows its length.       *)
(*                                                                         *)
(*   MaxBytesReader -> multipart.Part -> sniffReader -> maxSizeReader      *)
(*                                          -> PutObject with size -1      *)
(*                                                                         *)
(* A Read may return fewer bytes than were asked for, and the end of the   *)
(* stream with or after the last bytes.  One upload runs at a time: two    *)
(* share nothing but the stores of module FileStore.  A unit is a byte;    *)
(* of the contents only the length and whether it is an image matter.      *)
(* Whatever the answer is, the deferred part.Close then reads what is left *)
(* of the part.                                                            *)
(***************************************************************************)
EXTENDS Naturals, Sequences

CONSTANTS
    Maxima,     \* the values MAX_FILE_SIZE may have
    Slack,      \* what the whole body may be longer than one file
    sniffSize,  \* the buffer that is looked at for the type
    Signature,  \* how many bytes DetectContentType needs to see an image
    PartSize,   \* streamUploadPartSize
    Sizes,      \* the lengths of the files that clients send
    Forms       \* the forms they send: "other", "file" and "unnamed" parts

ASSUME MaximaAreSizes == Maxima \subseteq Nat
ASSUME BuffersHoldBytes == /\ Slack \in Nat /\ Signature \in Nat
                           /\ sniffSize \in Nat \ {0} /\ PartSize \in Nat \ {0}
ASSUME SizesAreLengths == Sizes \subseteq Nat
ASSUME FormsAreParts == Forms \subseteq Seq({"other", "file", "unnamed"})

VARIABLES
    max,      \* maxFileSize of the running process
    form,     \* the parts of the body, in order
    size,     \* the length of the file
    image,    \* whether it is a PNG or a JPEG
    skipped,  \* how many parts were passed over; each takes a byte of the body
    left,     \* bytes of the file that were not read from the connection
    broken,   \* whether the connection was lost before the end
    sniffed,  \* bytes of sniffReader's buffer that were not read again
    first,    \* history: how many bytes there were
    read,     \* maxSizeReader.read, the Size of the metadata
    got,      \* bytes in the buffer for the current part of the object
    sent,     \* bytes in the parts before
    faulty,   \* history: whether MinIO or MongoDB answered an error
    answer,   \* what c.JSON was called with
    pc

body   == <<max, form, size, image>>
source == <<left, broken, sniffed>>
object == <<read, got, sent>>
vars   == <<body, skipped, source, first, object, faulty, answer, pc>>

Answers == {"created", "missing", "invalid", "failed"}   \* 201, 400, 400, 500
AtMost(a, b) == IF a < b THEN a ELSE b

Init ==
    /\ max \in Maxima
    /\ form = <<>> /\ size = 0 /\ image = FALSE /\ skipped = 0
    /\ left = 0 /\ broken = FALSE /\ sniffed = 0 /\ first = 0
    /\ read = 0 /\ got = 0 /\ sent = 0
    /\ faulty = FALSE /\ answer = "none" /\ pc = "idle"

-----------------------------------------------------------------------------
(* The readers                                                             *)

\* http.MaxBytesReader, less what was read.
Limit == max + Slack

Room == Limit - skipped - (size - left)

Result(n, err) == [n |-> n, err |-> err]

\* multipart.Part.Read: at most `want` bytes, and an error with or after them.
PartRead(want) ==
    IF broken THEN {Result(0, "broken")}
    ELSE LET most == AtMost(want, AtMost(left, Room)) IN
         {Result(n, "nil") : n \in 1..most}
         \cup {Result(n, "EOF") : n \in {m \in 0..most : m = left}}
         \cup {Result(n, "limit") : n \in {m \in 0..most : m = Room /\ m < left}}
         \cup {Result(n, "broken") : n \in {m \in 0..most : m < left}}

\* io.MultiReader: first what was sniffed, then the part.
StreamRead(want) ==
    IF sniffed > 0 THEN {Result(AtMost(want, sniffed), "nil")} ELSE PartRead(want)

\* The stream has given n bytes with error err.
Take(n, err) ==
    IF sniffed > 0
    THEN sniffed' = sniffed - n /\ UNCHANGED <<left, broken>>
    ELSE left' = left - n /\ broken' = (broken \/ err = "broken") /\ UNCHANGED sniffed

\* Mutant of Want: the last buffer is not cut to what remains.
WantAll(want) == IF read >= max THEN 1 ELSE want

\* Mutant of Want: the probe uses the caller's buffer.
WantProbeAll(want) == IF read = max THEN want ELSE AtMost(want, max - read)

\* maxSizeReader.Read asks for what remains, or for one byte too many to see
\* whether there is one.
Want(want) == IF read = max THEN 1 ELSE AtMost(want, max - read)

\* Mutant of Outcome: at the maximum the stream just ends.
OutcomeEnds(x) == IF read = max THEN Result(0, "EOF") ELSE x

\* Mutant of Outcome: at the maximum nothing is returned, and no error.
OutcomeNothing(x) ==
    IF read = max THEN Result(0, IF x.n > 0 THEN "invalid" ELSE "nil") ELSE x

\* What it returns of what the stream gave.
Outcome(x) == IF read = max /\ x.n > 0 THEN Result(0, "invalid") ELSE x

-----------------------------------------------------------------------------
(* The handler                                                             *)

\* The service has decided; UploadFile's deferred part.Close is still to run.
Decide(verdict) == answer' = verdict /\ pc' = "close"

\* A request with a form whose file, if any, has s bytes.
Arrive(f, s, isImage) ==
    /\ pc = "idle"
    /\ isImage => s >= Signature
    /\ form' = f /\ size' = s /\ image' = isImage
    /\ skipped' = 0
    /\ left' = s /\ broken' = FALSE /\ sniffed' = 0 /\ first' = 0
    /\ read' = 0 /\ got' = 0 /\ sent' = 0
    /\ faulty' = FALSE /\ answer' = "none" /\ pc' = "parts"
    /\ UNCHANGED max

\* The name of the part that filePart has come to.
PartIs(name) == skipped < Len(form) /\ form[skipped + 1] = name

\* filePart, NextPart: parts of another name are read and dropped.
NextPart ==
    /\ pc = "parts"
    /\ PartIs("other") /\ Room > 0
    /\ skipped' = skipped + 1
    /\ UNCHANGED <<body, source, first, object, faulty, answer, pc>>

FoundPart ==
    /\ pc = "parts"
    /\ PartIs("file")
    /\ pc' = "sniff"
    /\ UNCHANGED <<body, skipped, source, first, object, faulty, answer>>

\* No file, no file name, a body over the limit or a connection that broke: 400,
\* and there is no part to close.
NoPart ==
    /\ pc = "parts"
    /\ answer' = "missing" /\ pc' = "idle"
    /\ broken' \in BOOLEAN
    /\ \/ skipped = Len(form) \/ broken' \/ PartIs("unnamed")
       \/ PartIs("other") /\ Room = 0
    /\ UNCHANGED <<body, skipped, left, sniffed, first, object, faulty>>

\* sniffReader: one Read, whatever it returns, then isAllowedImageMime.
Sniff ==
    /\ pc = "sniff"
    /\ \E x \in PartRead(sniffSize) :
         /\ left' = left - x.n /\ broken' = (x.err = "broken")
         /\ sniffed' = x.n /\ first' = x.n
         /\ IF x.err \notin {"nil", "EOF"} THEN Decide("failed")
            ELSE IF x.n < Signature \/ x.n = 0 \/ ~image THEN Decide("invalid")
            ELSE pc' = "put" /\ UNCHANGED answer
    /\ UNCHANGED <<body, skipped, object, faulty>>

\* PutObject fills the buffer of a part from the reader; a full buffer becomes
\* a part and hides an error that came with its last bytes.
Fill ==
    /\ pc = "put"
    /\ \E raw \in StreamRead(Want(PartSize - got)) :
         LET x    == Outcome(raw)
             full == got + x.n = PartSize IN
         /\ full \/ x.err = "nil"
         /\ Take(raw.n, raw.err)
         /\ read' = read + x.n
         /\ got' = IF full THEN 0 ELSE got + x.n
         /\ sent' = IF full THEN sent + PartSize ELSE sent
    /\ UNCHANGED <<body, skipped, first, faulty, answer, pc>>

\* Where the error that ended the stream leads.  A stream that is cut off ends
\* in io.ErrUnexpectedEOF, which the client library may take for the end.
Ending(err) == CASE err = "EOF"     -> {"stored"}
                 [] err = "invalid" -> {"invalid"}
                 [] err = "limit"   -> {"failed"}
                 [] OTHER           -> {"stored", "failed"}

\* An error before the buffer is full ends the object, or the upload.
Finish ==
    /\ pc = "put"
    /\ \E raw \in StreamRead(Want(PartSize - got)) :
         LET x == Outcome(raw) IN
         /\ got + x.n < PartSize /\ x.err # "nil"
         /\ Take(raw.n, raw.err)
         /\ read' = read + x.n
         /\ got' = 0 /\ sent' = sent + got + x.n
         /\ \E end \in Ending(x.err) :
              IF end = "stored" THEN pc' = "record" /\ UNCHANGED answer ELSE Decide(end)
    /\ UNCHANGED <<body, skipped, first, faulty>>

\* repo.Create of the metadata.
Record ==
    /\ pc = "record"
    /\ Decide("created")
    /\ UNCHANGED <<body, skipped, source, first, object, faulty>>

\* PutObject or repo.Create answers an error; what becomes of the object is the
\* subject of module FileStore.
StoreFails ==
    /\ pc \in {"put", "record"}
    /\ faulty' = TRUE
    /\ Decide("failed")
    /\ UNCHANGED <<body, skipped, source, first, object>>

\* part.Close reads what is left of the part, or of the body, and drops it.
Close ==
    /\ pc = "close"
    /\ \E x \in PartRead(left) :
         /\ left' = left - x.n /\ broken' = (broken \/ x.err = "broken")
         /\ pc' = IF x.err = "nil" THEN "close" ELSE "idle"
    /\ UNCHANGED <<body, skipped, sniffed, first, object, faulty, answer>>

-----------------------------------------------------------------------------
Upload == \/ NextPart \/ FoundPart \/ NoPart \/ Sniff \/ Fill \/ Finish
          \/ Record \/ Close

Next == \/ \E f \in Forms, s \in Sizes, i \in BOOLEAN : Arrive(f, s, i)
        \/ Upload \/ StoreFails

\* The handler runs, and the connection brings bytes or breaks; that a store
\* fails is never what an upload waits for.
Spec == Init /\ [][Next]_vars /\ WF_vars(Upload)

-----------------------------------------------------------------------------
(* Properties                                                              *)

\* Every variable has its type.
TypeOK ==
    /\ max \in Maxima
    /\ form \in Seq({"other", "file", "unnamed"})
    /\ size \in Nat /\ left \in Nat /\ sniffed \in Nat
    /\ first \in Nat /\ sent \in Nat /\ skipped \in Nat
    /\ read \in 0..max /\ got \in 0..(PartSize - 1)
    /\ image \in BOOLEAN /\ broken \in BOOLEAN /\ faulty \in BOOLEAN
    /\ answer \in Answers \cup {"none"}
    /\ pc \in {"idle", "parts", "sniff", "put", "record", "close"}

\* maxSizeReader and sniffReader, over whatever sequence of short reads: 201
\* means that the object has the bytes the metadata counts, at most
\* MAX_FILE_SIZE, and all that the client sent unless the connection broke.
AcceptedIsWhole ==
    answer = "created" => /\ image
                          /\ sent = read /\ read \in 1..max
                          /\ sent = size \/ broken

\* A file is refused with 400 for its length, for its type, or because the
\* first Read returned less than the signature.
RefusedWithReason ==
    answer = "invalid" => \/ size \notin 1..max \/ ~image
                          \/ first < Signature

\* Part i of the form is a named file that filePart can reach: nothing but
\* parts of another name before it, no more of them than the body may hold.
Reachable(i) == /\ form[i] = "file" /\ i <= Limit + 1
                /\ \A j \in 1..(i - 1) : form[j] = "other"

\* "file is required" is answered only to a form without such a file, or when
\* the connection broke.
MissingWithReason ==
    answer = "missing" => broken \/ \A i \in 1..Len(form) : ~Reachable(i)

\* An upload fails with 500 only when the connection broke, the other parts
\* took more of the body than the slack, or MinIO or MongoDB failed.
FailedWithReason ==
    answer = "failed" => broken \/ faulty \/ skipped + size > max + Slack

\* Every answer of an upload is given exactly for its reason.
VerdictIsTrue == /\ AcceptedIsWhole /\ RefusedWithReason
                 /\ MissingWithReason /\ FailedWithReason

\* A file that is too long is refused without reading it: the upload itself
\* takes no more than one byte past the maximum from the connection, or the
\* sniffing buffer, and gives MinIO no more than the maximum.  The deferred
\* part.Close reads on, but never past the limit of the body.
ReadsStopAtMaximum ==
    [][/\ Fill \/ Finish => size - left' <= max + 1 \/ size - left' = first
       /\ (sent + got)' <= max'
       /\ Room' >= 0]_vars

\* Every upload is answered: no reader returns nothing and no error for ever.
EveryUploadIsAnswered == pc = "parts" ~> pc = "idle" /\ answer \in Answers
=============================================================================
