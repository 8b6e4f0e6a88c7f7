------------------------------- MODULE NmsgFile -------------------------------
(***************************************************************************)
(* Reading NMSG containers out of a file descriptor:                       *)
(* _input_nmsg_read_container_file(), read_file() and do_read_file() of    *)
(* nmsg/input_nmsg.c over the buffer of nmsg/buf.c.                        *)
(*                                                                         *)
(* read() returns any number of bytes up to the number asked for, so that  *)
(* a container may be cut anywhere: in its magic, in its length, in its    *)
(* body.  The buffer has no ring: it is filled up to half and the other    *)
(* half takes the rest of a container that was cut.  The bytes themselves  *)
(* are left out, but not their positions.                                  *)
(***************************************************************************)
EXTENDS Integers

CONSTANTS
    BufSz,      \* buf->bufsz, NMSG_RBUFSZ / 2 = NMSG_WBUFSZ_MAX in the code
    Files       \* the files to read

NMSG_HDRSZ == 6
NMSG_LENHDRSZ_V1 == 2
NMSG_LENHDRSZ_V2 == 4
NMSG_RBUFSZ == 2 * BufSz

\* A container's header: its version, and the length of what follows.
Header == [version : {1, 2}, len : Nat \ {0}]

LenHdrSz(h) == IF h.version = 1 THEN NMSG_LENHDRSZ_V1 ELSE NMSG_LENHDRSZ_V2
FrameLen(h) == NMSG_HDRSZ + LenHdrSz(h) + h.len

(***************************************************************************)
(* A file: how long it is, the header of the container that starts at each *)
(* offset in "starts", and where the containers end: they follow each      *)
(* other without a gap.  The last one may have been cut off, by a crash or *)
(* a full disk, or be followed by something else.  "fails" tells whether   *)
(* read() may fail.                                                        *)
(***************************************************************************)
FileOk(f) ==
    /\ f.size \in Nat /\ f.ends \in 0..f.size /\ f.fails \in BOOLEAN
    /\ f.starts \subseteq Nat
    /\ f.head \in [f.starts -> Header]
    /\ f.ends > 0 => 0 \in f.starts
    /\ \A s \in f.starts :
         LET next == s + FrameLen(f.head[s])
         IN  /\ s < f.ends
             /\ f.head[s].len <= BufSz
             /\ next < f.ends => next \in f.starts
             /\ next > f.ends => f.ends = f.size
             /\ \A r \in f.starts : r <= s \/ next <= r

ASSUME BufAssumption == BufSz \in Nat /\ BufSz >= NMSG_HDRSZ
ASSUME FileAssumption == \A f \in Files : FileOk(f)

VARIABLES
    file,       \* the file
    off,        \* the offset of the file descriptor
    pos, end,   \* buf->pos and buf->end, from buf->data
    pc,         \* where the reader is
    ret,        \* where do_read_file() returns to
    needed, max,    \* its arguments, bytes_needed and bytes_max
    reset_buf,  \* whether a header was cut
    start,      \* history: where the container being read starts
    at,         \* history: how many bytes have been consumed
    got         \* history: the containers handed on, by their start

vars == <<file, off, pos, end, pc, ret, needed, max, reset_buf, start, at, got>>

Ends == {"eof", "failure", "mismatch", "abort"}

Init ==
    /\ file \in Files
    /\ off = 0 /\ pos = 0 /\ end = 0
    /\ pc = "header" /\ ret = "magic"
    /\ needed = 0 /\ max = 0
    /\ reset_buf = FALSE
    /\ start = 0 /\ at = 0 /\ got = {}

\* _nmsg_buf_avail()
Avail == end - pos

-----------------------------------------------------------------------------
(***************************************************************************)
(* do_read_file                                                            *)
(***************************************************************************)

\* Call do_read_file() for n bytes and at most m.  An empty buffer is reset.
Call(n, m, label) ==
    /\ pc' = "read" /\ ret' = label
    /\ needed' = n /\ max' = m

\* One read(), of as many bytes as it likes.
Read ==
    /\ pc = "read"
    /\ \E n \in 1..max :
         /\ off + n <= file.size
         /\ off' = off + n
         /\ end' = end + n
         /\ needed' = needed - n
         /\ max' = max - n
         /\ pc' = IF needed <= n THEN ret ELSE "read"
    /\ UNCHANGED <<file, pos, ret, reset_buf, start, at, got>>

\* read() returned 0, or failed.  read_file() ignores that for the length.
ReadEnd ==
    /\ pc = "read"
    /\ \/ off = file.size /\ pc' = IF ret = "size" THEN ret ELSE "eof"
       \/ file.fails /\ pc' = IF ret = "size" THEN ret ELSE "failure"
    /\ UNCHANGED <<file, off, pos, end, ret, needed, max, reset_buf, start, at, got>>

-----------------------------------------------------------------------------
(***************************************************************************)
(* read_file                                                               *)
(***************************************************************************)

\* The magic and the version of the next container are in the buffer.
HeaderAvail ==
    /\ pc = "header" /\ Avail >= NMSG_HDRSZ
    /\ pc' = "magic"
    /\ start' = at
    /\ UNCHANGED <<file, off, pos, end, ret, needed, max, reset_buf, at, got>>

\* Nothing is left: start again at the beginning of the buffer.
HeaderFill ==
    /\ pc = "header" /\ Avail = 0
    /\ pos' = 0 /\ end' = 0
    /\ Call(NMSG_HDRSZ, BufSz, "magic")
    /\ start' = at
    /\ UNCHANGED <<file, off, reset_buf, at, got>>

\* They were cut: fetch the missing bytes and no more.
HeaderSplit ==
    /\ pc = "header" /\ 0 < Avail /\ Avail < NMSG_HDRSZ
    /\ Call(NMSG_HDRSZ - Avail, NMSG_HDRSZ - Avail, "magic")
    /\ reset_buf' = TRUE
    /\ start' = at
    /\ UNCHANGED <<file, off, pos, end, at, got>>

\* What the buffer holds at pos is not the start of a container.
BadMagic ==
    /\ pc = "magic" /\ (off - Avail) \notin file.starts
    /\ pc' = "mismatch"
    /\ UNCHANGED <<file, off, pos, end, ret, needed, max, reset_buf, start, at, got>>

\* Mutant: the buffer is reset whether or not the header was cut.
Magic_AlwaysReset ==
    /\ pc = "magic" /\ (off - Avail) \in file.starts
    /\ at' = at + NMSG_HDRSZ
    /\ pos' = 0 /\ end' = 0
    /\ reset_buf' = FALSE
    /\ pc' = "length"
    /\ UNCHANGED <<file, off, ret, needed, max, start, got>>

\* Consume magic and version; when they were cut they were all there was.
Magic ==
    /\ pc = "magic" /\ (off - Avail) \in file.starts
    /\ at' = at + NMSG_HDRSZ
    /\ pos' = IF reset_buf THEN 0 ELSE pos + NMSG_HDRSZ
    /\ end' = IF reset_buf THEN 0 ELSE end
    /\ reset_buf' = FALSE
    /\ pc' = "length"
    /\ UNCHANGED <<file, off, ret, needed, max, start, got>>

LengthAvail ==
    /\ pc = "length" /\ Avail >= LenHdrSz(file.head[start])
    /\ pc' = "size"
    /\ UNCHANGED <<file, off, pos, end, ret, needed, max, reset_buf, start, at, got>>

LengthFill ==
    /\ pc = "length" /\ Avail = 0
    /\ pos' = 0 /\ end' = 0
    /\ Call(LenHdrSz(file.head[start]), BufSz, "size")
    /\ UNCHANGED <<file, off, reset_buf, start, at, got>>

LengthSplit ==
    LET lenhdrsz == LenHdrSz(file.head[start])
    IN  /\ pc = "length" /\ 0 < Avail /\ Avail < lenhdrsz
        /\ Call(lenhdrsz - Avail, lenhdrsz - Avail, "size")
        /\ reset_buf' = TRUE
        /\ UNCHANGED <<file, off, pos, end, start, at, got>>

\* Load the length; again the buffer is reset if it was cut.
Size ==
    LET lenhdrsz == LenHdrSz(file.head[start])
    IN  /\ pc = "size" /\ Avail >= lenhdrsz
        /\ at' = at + lenhdrsz
        /\ pos' = IF reset_buf THEN 0 ELSE pos + lenhdrsz
        /\ end' = IF reset_buf THEN 0 ELSE end
        /\ reset_buf' = FALSE
        /\ pc' = "body"
        /\ UNCHANGED <<file, off, ret, needed, max, start, got>>

\* assert(bytes_avail >= lenhdrsz) fails: the program aborts.
SizeMissing ==
    /\ pc = "size" /\ Avail < LenHdrSz(file.head[start])
    /\ pc' = "abort"
    /\ UNCHANGED <<file, off, pos, end, ret, needed, max, reset_buf, start, at, got>>

-----------------------------------------------------------------------------
(***************************************************************************)
(* _input_nmsg_read_container_file                                         *)
(***************************************************************************)
BodyAvail ==
    /\ pc = "body" /\ Avail >= file.head[start].len
    /\ pc' = "unpack"
    /\ UNCHANGED <<file, off, pos, end, ret, needed, max, reset_buf, start, at, got>>

\* Mutant: what is already in the buffer is asked for once more.
BodyRead_Whole ==
    LET msgsize == file.head[start].len
    IN  /\ pc = "body" /\ Avail < msgsize
        /\ Call(msgsize, BufSz, "unpack")
        /\ UNCHANGED <<file, off, pos, end, reset_buf, start, at, got>>

\* Fetch the rest of the container behind what is already there.
BodyRead ==
    LET rest == file.head[start].len - Avail
    IN  /\ pc = "body" /\ rest > 0
        /\ Call(rest, rest, "unpack")
        /\ UNCHANGED <<file, off, pos, end, reset_buf, start, at, got>>

\* The container is complete: unpack it and move past it.
Unpack ==
    /\ pc = "unpack"
    /\ got' = got \cup {start}
    /\ at' = at + file.head[start].len
    /\ pos' = pos + file.head[start].len
    /\ pc' = "header"
    /\ UNCHANGED <<file, off, end, ret, needed, max, reset_buf, start>>

read_file ==
    \/ HeaderAvail \/ HeaderFill \/ HeaderSplit \/ BadMagic \/ Magic
    \/ LengthAvail \/ LengthFill \/ LengthSplit \/ Size \/ SizeMissing

read_container_file == read_file \/ BodyAvail \/ BodyRead \/ Unpack
do_read_file == Read \/ ReadEnd

Finished == pc \in Ends /\ UNCHANGED vars

Next == read_container_file \/ do_read_file \/ Finished

Spec == Init /\ [][Next]_vars

-----------------------------------------------------------------------------
(***************************************************************************)
(* Properties                                                              *)
(***************************************************************************)

\* Every variable stays within its type.
TypeOK ==
    /\ file \in Files
    /\ off \in Nat /\ end \in 0..NMSG_RBUFSZ /\ pos \in 0..end
    /\ pc \in {"header", "read", "magic", "length", "size", "body", "unpack"} \cup Ends
    /\ ret \in {"magic", "size", "unpack"}
    /\ needed \in Int /\ max \in Nat
    /\ reset_buf \in BOOLEAN
    /\ start \in Nat /\ at \in Nat
    /\ got \subseteq Nat

\* The asserts of do_read_file(): wherever containers are cut, the bytes that
\* are asked for have room behind those in the buffer, although it is only
\* ever reset when it is empty.
ReadFits == pc = "read" => needed <= max /\ end + max <= NMSG_RBUFSZ

\* No reset of the buffer drops a byte and none is parsed twice: what is left
\* in it is what the file descriptor is ahead of the parser, so every header
\* is looked for where a container starts and nmsg_res_magic_mismatch means
\* that there is none.
BytesInOrder ==
    /\ off - Avail = at
    /\ pc = "mismatch" => at = file.ends

\* The containers handed on are those the parser has passed, in order and, at
\* the end of the file, all that are in it completely.
WholeContainers ==
    /\ got = {s \in file.starts : s < IF pc = "header" THEN at ELSE start}
    /\ pc = "eof" =>
         got = {s \in file.starts : s + FrameLen(file.head[s]) <= file.size}

-----------------------------------------------------------------------------
(***************************************************************************)
(* What an assertion says, and the code does not ensure                    *)
(***************************************************************************)

\* "assert(bytes_avail >= lenhdrsz)" after the length has been read.
LengthIsThere == pc # "abort"
=============================================================================
