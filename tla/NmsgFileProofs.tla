---------------------------- MODULE NmsgFileProofs ----------------------------
(***************************************************************************)
(* The file reader never overruns its buffer, never loses its place and    *)
(* hands on every complete container, for every file, every way read() may *)
(* cut it, and every buffer that holds a header.                           *)
(***************************************************************************)
EXTENDS NmsgFile, TLAPS

FrameEnd(s) == s + FrameLen(file.head[s])

\* Offset n is where a container starts or where they end, and no container
\* reaches across it.
Boundary(n) ==
    /\ n \in file.starts \/ n = file.ends
    /\ \A s \in file.starts : s < n => FrameEnd(s) <= n

\* The bytes the buffer must hold before the reader goes on at a label.
Want(label) ==
    CASE label = "magic"  -> NMSG_HDRSZ
      [] label = "size"   -> LenHdrSz(file.head[start])
      [] label = "unpack" -> file.head[start].len

\* The boundary the parser has passed last.
Mark == IF pc = "header" THEN at ELSE start

Doing(label) == pc = label \/ (pc = "read" /\ ret = label)

(***************************************************************************)
(* The inductive invariant.  Where the parser is: its bytes are those      *)
(* between the descriptor's offset and the buffered ones, counted from the *)
(* start of a container.                                                   *)
(***************************************************************************)
PlaceInv ==
    /\ off <= file.size
    /\ at = off - Avail
    /\ Boundary(Mark)
    /\ Doing("magic") => at = start
    /\ Doing("size") \/ pc \in {"length", "abort"} =>
         start \in file.starts /\ at = start + NMSG_HDRSZ
    /\ Doing("unpack") \/ pc = "body" =>
         /\ start \in file.starts
         /\ at = start + NMSG_HDRSZ + LenHdrSz(file.head[start])
    /\ pc = "mismatch" => at = file.ends
    /\ pc = "eof" /\ start \in file.starts => file.size < FrameEnd(start)
    /\ got = {s \in file.starts : s < Mark}

(***************************************************************************)
(* Where the buffered bytes are: in the lower half, unless they are just   *)
(* what the step that fetched them asked for.                              *)
(***************************************************************************)
LayoutInv ==
    /\ pc \in {"header", "length"} => end <= BufSz \/ pos = end
    /\ pc = "body" => end <= BufSz
    /\ pc \in {"header", "length", "body", "unpack"} => ~reset_buf
    /\ pc \in {"magic", "size"} => IF reset_buf THEN Avail <= Want(pc) ELSE end <= BufSz
    /\ pc \in {"magic", "unpack"} => Avail >= Want(pc)
    /\ pc = "unpack" => end <= BufSz \/ Avail = Want(pc)
    /\ pc = "read" =>
         /\ needed > 0 /\ needed <= max
         /\ Avail + needed = Want(ret)
         /\ end + max <= NMSG_RBUFSZ
         /\ ret = "unpack" \/ reset_buf => needed = max
         /\ ret = "unpack" => ~reset_buf
         /\ ret # "unpack" /\ ~reset_buf => end + max <= BufSz

IInv == TypeOK /\ PlaceInv /\ LayoutInv

-----------------------------------------------------------------------------
\* What is assumed of a file, spelled out for one container.
LEMMA FileFacts ==
    ASSUME file \in Files
    PROVE  /\ file.size \in Nat /\ file.ends \in Nat /\ file.ends <= file.size
           /\ file.starts \subseteq Nat
           /\ file.ends > 0 => 0 \in file.starts
           /\ \A s \in file.starts :
                /\ s \in Nat /\ s < file.ends
                /\ file.head[s].len \in Nat /\ file.head[s].len > 0
                /\ file.head[s].len <= BufSz
                /\ LenHdrSz(file.head[s]) \in {2, 4}
                /\ FrameEnd(s) = s + 6 + LenHdrSz(file.head[s]) + file.head[s].len
                /\ FrameEnd(s) \in Nat
                /\ FrameEnd(s) < file.ends => FrameEnd(s) \in file.starts
                /\ FrameEnd(s) > file.ends => file.ends = file.size
                /\ \A r \in file.starts : r <= s \/ FrameEnd(s) <= r
  <1>1. FileOk(file)
    BY FileAssumption
  <1>2. /\ file.size \in Nat /\ file.ends \in Nat /\ file.ends <= file.size
        /\ file.starts \subseteq Nat
        /\ file.ends > 0 => 0 \in file.starts
    BY <1>1 DEF FileOk
  <1>3. ASSUME NEW s \in file.starts
        PROVE  /\ s \in Nat /\ s < file.ends
               /\ file.head[s].len \in Nat /\ file.head[s].len > 0
               /\ file.head[s].len <= BufSz
               /\ LenHdrSz(file.head[s]) \in {2, 4}
    <2>1. file.head[s] \in Header
      BY <1>1 DEF FileOk
    <2>2. LenHdrSz(file.head[s]) \in {2, 4}
      BY <2>1 DEF Header, LenHdrSz, NMSG_LENHDRSZ_V1, NMSG_LENHDRSZ_V2
    <2> QED
      BY <1>1, <2>1, <2>2 DEF FileOk, Header
  <1>4. ASSUME NEW s \in file.starts
        PROVE  /\ FrameEnd(s) = s + 6 + LenHdrSz(file.head[s]) + file.head[s].len
               /\ FrameEnd(s) \in Nat
    BY <1>3 DEF FrameEnd, FrameLen, NMSG_HDRSZ
  <1>5. ASSUME NEW s \in file.starts
        PROVE  /\ FrameEnd(s) < file.ends => FrameEnd(s) \in file.starts
               /\ FrameEnd(s) > file.ends => file.ends = file.size
               /\ \A r \in file.starts : r <= s \/ FrameEnd(s) <= r
    BY <1>1 DEF FileOk, FrameEnd
  <1> QED
    BY <1>2, <1>3, <1>4, <1>5

\* The next container starts where the one before ends.
LEMMA BoundaryStep ==
    ASSUME file \in Files, Boundary(start), start \in file.starts,
           FrameEnd(start) <= file.size
    PROVE  /\ Boundary(FrameEnd(start))
           /\ \A s \in file.starts : s < FrameEnd(start) <=> s < start \/ s = start
  <1>1. /\ start \in Nat /\ FrameEnd(start) \in Nat /\ FrameEnd(start) > start
        /\ file.ends \in Nat /\ file.size \in Nat
    BY FileFacts
  <1>2. FrameEnd(start) \in file.starts \/ FrameEnd(start) = file.ends
    BY <1>1, FileFacts
  <1>3. ASSUME NEW s \in file.starts, s < FrameEnd(start)
        PROVE  FrameEnd(s) <= FrameEnd(start) /\ s <= start
    BY <1>1, <1>3, FileFacts DEF Boundary
  <1>4. ASSUME NEW s \in file.starts, s < start \/ s = start
        PROVE  s < FrameEnd(start)
    BY <1>1, <1>4, FileFacts
  <1> QED
    BY <1>1, <1>2, <1>3, <1>4, FileFacts DEF Boundary

-----------------------------------------------------------------------------
\* Reading starts with an empty buffer in front of the first container.
LEMMA InitInv == Init => IInv
  <1> SUFFICES ASSUME Init PROVE IInv
    OBVIOUS
  <1>1. file \in Files /\ file.size \in Nat /\ file.ends \in Nat
    BY FileFacts DEF Init
  <1>2. TypeOK
    <2>1. NMSG_RBUFSZ \in Nat
      BY BufAssumption DEF NMSG_RBUFSZ
    <2>2. end \in 0..NMSG_RBUFSZ /\ pos \in 0..end
      BY <2>1 DEF Init
    <2>3. /\ off \in Nat /\ needed \in Int /\ max \in Nat /\ start \in Nat
          /\ at \in Nat /\ got \subseteq Nat
      BY DEF Init
    <2>4. /\ pc \in {"header", "read", "magic", "length", "size", "body", "unpack"} \cup Ends
          /\ ret \in {"magic", "size", "unpack"} /\ reset_buf \in BOOLEAN
      BY DEF Init
    <2> QED
      BY <1>1, <2>2, <2>3, <2>4 DEF TypeOK
  <1>3. Boundary(0)
    BY <1>1, FileFacts DEF Init, Boundary
  <1>4. {s \in file.starts : s < 0} = {}
    BY <1>1, FileFacts DEF Init
  <1>5. PlaceInv
    BY <1>1, <1>3, <1>4 DEF Init, PlaceInv, Avail, Doing, Mark
  <1>6. LayoutInv
    BY BufAssumption DEF Init, LayoutInv
  <1> QED
    BY <1>2, <1>5, <1>6 DEF IInv

-----------------------------------------------------------------------------
\* The numbers a step works with.
LEMMA Numbers ==
    ASSUME IInv
    PROVE  /\ file \in Files /\ file.size \in Nat
           /\ BufSz \in Nat /\ BufSz >= 6 /\ NMSG_RBUFSZ = 2 * BufSz /\ NMSG_HDRSZ = 6
           /\ off \in Nat /\ pos \in Nat /\ end \in Nat /\ pos <= end
           /\ end <= 2 * BufSz /\ needed \in Int /\ max \in Nat
           /\ start \in Nat /\ at \in Nat /\ Avail = end - pos
           /\ start \in file.starts =>
                /\ LenHdrSz(file.head[start]) \in {2, 4}
                /\ file.head[start].len \in Nat /\ file.head[start].len > 0
                /\ file.head[start].len <= BufSz
           /\ Want("magic") = 6
           /\ Want("size") = LenHdrSz(file.head[start])
           /\ Want("unpack") = file.head[start].len
  <1>1. file \in Files /\ NMSG_RBUFSZ = 2 * BufSz /\ NMSG_HDRSZ = 6
    BY DEF IInv, TypeOK, NMSG_RBUFSZ, NMSG_HDRSZ
  <1>2. BufSz \in Nat /\ BufSz >= 6
    BY BufAssumption, <1>1
  <1>3. /\ off \in Nat /\ end \in 0..NMSG_RBUFSZ /\ pos \in 0..end
        /\ needed \in Int /\ max \in Nat /\ start \in Nat /\ at \in Nat
    BY DEF IInv, TypeOK
  <1>4. start \in file.starts =>
            /\ LenHdrSz(file.head[start]) \in {2, 4}
            /\ file.head[start].len \in Nat /\ file.head[start].len > 0
            /\ file.head[start].len <= BufSz
    BY <1>1, FileFacts
  <1>5. file.size \in Nat
    BY <1>1, FileFacts
  <1>6. /\ Want("magic") = 6
        /\ Want("size") = LenHdrSz(file.head[start])
        /\ Want("unpack") = file.head[start].len
    BY <1>1 DEF Want
  <1> QED
    BY <1>1, <1>2, <1>3, <1>4, <1>5, <1>6 DEF Avail

\* Every action keeps the types, and the buffer's bounds with them.
LEMMA TypeStep == IInv /\ [Next]_vars => TypeOK'
  <1> SUFFICES ASSUME IInv, [Next]_vars PROVE TypeOK'
    OBVIOUS
  <1> USE Numbers
  <1>1. CASE Read
    <2>1. PICK n \in 1..max :
            /\ off + n <= file.size /\ off' = off + n /\ end' = end + n
            /\ needed' = needed - n /\ max' = max - n
            /\ pc' = IF needed <= n THEN ret ELSE "read"
      BY <1>1 DEF Read
    <2>2. end + max <= 2 * BufSz
      BY <1>1 DEF Read, IInv, LayoutInv
    <2>3. /\ off' \in Nat /\ end' \in 0..NMSG_RBUFSZ' /\ pos \in 0..end'
          /\ needed' \in Int /\ max' \in Nat
      BY <2>1, <2>2 DEF NMSG_RBUFSZ
    <2> QED
      BY <1>1, <2>1, <2>3 DEF Read, IInv, TypeOK
  <1>2. CASE ReadEnd
    BY <1>2 DEF ReadEnd, IInv, TypeOK, Ends, NMSG_RBUFSZ
  <1>3. CASE HeaderAvail
    BY <1>3 DEF HeaderAvail, IInv, TypeOK, NMSG_RBUFSZ
  <1>4. CASE HeaderFill
    BY <1>4 DEF HeaderFill, Call, IInv, TypeOK, NMSG_RBUFSZ
  <1>5. CASE HeaderSplit
    BY <1>5 DEF HeaderSplit, Call, IInv, TypeOK, NMSG_RBUFSZ
  <1>6. CASE BadMagic
    BY <1>6 DEF BadMagic, IInv, TypeOK, Ends, NMSG_RBUFSZ
  <1>7. CASE Magic
    <2>1. Avail >= 6
      BY <1>7 DEF Magic, IInv, LayoutInv
    <2>2. /\ at' \in Nat /\ end' \in 0..NMSG_RBUFSZ' /\ pos' \in 0..end'
      <3>1. CASE reset_buf
        BY <1>7, <3>1 DEF Magic, NMSG_RBUFSZ
      <3>2. CASE ~reset_buf
        BY <1>7, <2>1, <3>2 DEF Magic, NMSG_RBUFSZ
      <3> QED
        BY <3>1, <3>2
    <2> QED
      BY <1>7, <2>2 DEF Magic, IInv, TypeOK
  <1>8. CASE LengthAvail
    BY <1>8 DEF LengthAvail, IInv, TypeOK, NMSG_RBUFSZ
  <1>9. CASE LengthFill
    <2>1. start \in file.starts
      BY <1>9 DEF LengthFill, IInv, PlaceInv
    <2> QED
      BY <1>9, <2>1 DEF LengthFill, Call, IInv, TypeOK, NMSG_RBUFSZ
  <1>10. CASE LengthSplit
    <2>1. start \in file.starts
      BY <1>10 DEF LengthSplit, IInv, PlaceInv
    <2> QED
      BY <1>10, <2>1 DEF LengthSplit, Call, IInv, TypeOK, NMSG_RBUFSZ
  <1>11. CASE Size
    <2>1. start \in file.starts
      BY <1>11 DEF Size, IInv, PlaceInv, Doing
    <2>2. /\ at' \in Nat /\ end' \in 0..NMSG_RBUFSZ' /\ pos' \in 0..end'
      <3>1. CASE reset_buf
        BY <1>11, <2>1, <3>1 DEF Size, NMSG_RBUFSZ
      <3>2. CASE ~reset_buf
        BY <1>11, <2>1, <3>2 DEF Size, NMSG_RBUFSZ
      <3> QED
        BY <3>1, <3>2
    <2> QED
      BY <1>11, <2>2 DEF Size, IInv, TypeOK
  <1>12. CASE SizeMissing
    BY <1>12 DEF SizeMissing, IInv, TypeOK, Ends, NMSG_RBUFSZ
  <1>13. CASE BodyAvail
    BY <1>13 DEF BodyAvail, IInv, TypeOK, NMSG_RBUFSZ
  <1>14. CASE BodyRead
    <2>1. start \in file.starts
      BY <1>14 DEF BodyRead, IInv, PlaceInv
    <2> QED
      BY <1>14, <2>1 DEF BodyRead, Call, IInv, TypeOK, NMSG_RBUFSZ
  <1>15. CASE Unpack
    <2>1. start \in file.starts /\ Avail >= file.head[start].len
      BY <1>15 DEF Unpack, IInv, PlaceInv, LayoutInv, Doing
    <2>2. /\ at' = at + file.head[start].len /\ at' \in Nat
          /\ pos' = pos + file.head[start].len /\ pos' \in 0..end
      BY <1>15, <2>1 DEF Unpack
    <2>3. got' \subseteq Nat
      BY <1>15 DEF Unpack, IInv, TypeOK
    <2> QED
      BY <1>15, <2>2, <2>3 DEF Unpack, IInv, TypeOK, NMSG_RBUFSZ
  <1>16. CASE Finished \/ UNCHANGED vars
    BY <1>16 DEF Finished, vars, IInv, TypeOK, NMSG_RBUFSZ
  <1> QED
    BY <1>1, <1>2, <1>3, <1>4, <1>5, <1>6, <1>7, <1>8, <1>9, <1>10, <1>11, <1>12,
       <1>13, <1>14, <1>15, <1>16
    DEF Next, read_container_file, read_file, do_read_file

-----------------------------------------------------------------------------
\* Every action leaves the buffered bytes where the next one expects them.
LEMMA LayoutStep == IInv /\ [Next]_vars => LayoutInv'
  <1> SUFFICES ASSUME IInv, [Next]_vars PROVE LayoutInv'
    OBVIOUS
  <1>n. /\ BufSz \in Nat /\ BufSz >= 6 /\ NMSG_RBUFSZ = 2 * BufSz /\ NMSG_HDRSZ = 6
        /\ pos \in Nat /\ end \in Nat /\ pos <= end
        /\ needed \in Int /\ max \in Nat /\ Avail = end - pos
        /\ Want("magic") = 6
        /\ Want("size") = LenHdrSz(file.head[start])
        /\ Want("unpack") = file.head[start].len
    BY Numbers
  <1>w. ASSUME file' = file, start' = start
        PROVE  /\ Want("magic")' = Want("magic") /\ Want("size")' = Want("size")
               /\ Want("unpack")' = Want("unpack")
    BY <1>w DEF Want
  <1>m. Want("magic")' = 6
    BY <1>n DEF Want
  <1>v. Avail' = end' - pos'
    BY DEF Avail
  <1>1. CASE Read
    <2>1. PICK n \in 1..max :
            /\ off + n <= file.size /\ off' = off + n /\ end' = end + n
            /\ needed' = needed - n /\ max' = max - n
            /\ pc' = IF needed <= n THEN ret ELSE "read"
      BY <1>1 DEF Read
    <2>2. /\ needed > 0 /\ needed <= max /\ Avail + needed = Want(ret)
          /\ end + max <= NMSG_RBUFSZ
          /\ ret = "unpack" \/ reset_buf => needed = max
          /\ ret = "unpack" => ~reset_buf
          /\ ret # "unpack" /\ ~reset_buf => end + max <= BufSz
      BY <1>1 DEF Read, IInv, LayoutInv
    <2>3. ret \in {"magic", "size", "unpack"} /\ ret' = ret /\ reset_buf' = reset_buf /\ pos' = pos
      BY <1>1 DEF Read, IInv, TypeOK
    <2>4. Want(ret) \in Int
      BY <2>2, <1>n
    <2>5. Want(ret)' = Want(ret)
      BY <1>1, <2>3, <1>w DEF Read
    <2>6. /\ n \in Int /\ 1 <= n /\ n <= max /\ Avail' = Avail + n
      BY <2>1, <2>3, <1>n, <1>v
    <2>7. CASE needed <= n
      <3>1. pc' = ret /\ Avail' >= Want(ret)'
        BY <2>1, <2>2, <2>4, <2>5, <2>6, <2>7, <1>n
      <3>2. ret = "unpack" \/ reset_buf => Avail' = Want(ret)'
        BY <2>2, <2>4, <2>5, <2>6, <2>7, <1>n
      <3>3. ret # "unpack" /\ ~reset_buf => end' <= BufSz
        BY <2>1, <2>2, <2>6, <1>n
      <3> QED
        BY <3>1, <3>2, <3>3, <2>2, <2>3, <2>4, <2>5, <2>6, <1>n DEF LayoutInv
    <2>8. CASE needed > n
      <3>1. pc' = "read" /\ needed' > 0 /\ needed' <= max' /\ Avail' + needed' = Want(ret)'
        BY <2>1, <2>2, <2>4, <2>5, <2>6, <2>8, <1>n
      <3>2. end' + max' = end + max /\ (needed = max => needed' = max')
        BY <2>1, <2>6, <1>n
      <3> QED
        BY <3>1, <3>2, <2>2, <2>3, <1>n DEF LayoutInv, NMSG_RBUFSZ
    <2> QED
      BY <2>6, <2>7, <2>8, <1>n
  <1>2. CASE ReadEnd
    <2>1. /\ UNCHANGED <<file, start, pos, end, reset_buf>> /\ pc = "read"
          /\ (pc' = "size" /\ ret = "size") \/ pc' \in {"eof", "failure"}
      BY <1>2 DEF ReadEnd
    <2>2. /\ needed > 0 /\ needed <= max /\ Avail + needed = Want(ret)
          /\ ret # "unpack" /\ ~reset_buf => end + max <= BufSz
      BY <2>1 DEF IInv, LayoutInv
    <2>3. Want("size")' = Want("size") /\ Avail' = Avail
      BY <2>1, <1>w, <1>v, <1>n
    <2>4. CASE pc' = "size" /\ ret = "size"
      <3>1. Avail' <= Want("size")' /\ (~reset_buf' => end' <= BufSz)
        BY <2>1, <2>2, <2>3, <2>4, <1>n
      <3> QED
        BY <2>4, <3>1 DEF LayoutInv
    <2>5. CASE pc' \in {"eof", "failure"}
      BY <2>5 DEF LayoutInv
    <2> QED
      BY <2>1, <2>4, <2>5
  <1>3. CASE HeaderAvail
    BY <1>3, <1>n, <1>m, <1>v DEF HeaderAvail, IInv, LayoutInv
  <1>4. CASE HeaderFill
    BY <1>4, <1>n, <1>m, <1>v DEF HeaderFill, Call, IInv, LayoutInv, NMSG_RBUFSZ
  <1>5. CASE HeaderSplit
    BY <1>5, <1>n, <1>m, <1>v DEF HeaderSplit, Call, IInv, LayoutInv, NMSG_RBUFSZ
  <1>6. CASE BadMagic
    BY <1>6 DEF BadMagic, LayoutInv
  <1>7. CASE Magic
    BY <1>7, <1>n, <1>v DEF Magic, IInv, LayoutInv
  <1>8. CASE LengthAvail
    <2>1. start \in file.starts
      BY <1>8 DEF LengthAvail, IInv, PlaceInv
    <2>2. LenHdrSz(file.head[start]) \in {2, 4}
      BY <2>1, Numbers
    <2> QED
      BY <1>8, <2>2, <1>n, <1>w, <1>v DEF LengthAvail, IInv, LayoutInv
  <1>9. CASE LengthFill
    <2>1. start \in file.starts
      BY <1>9 DEF LengthFill, IInv, PlaceInv
    <2>2. LenHdrSz(file.head[start]) \in {2, 4}
      BY <2>1, Numbers
    <2> QED
      BY <1>9, <2>2, <1>n, <1>w, <1>v DEF LengthFill, Call, IInv, LayoutInv, NMSG_RBUFSZ
  <1>10. CASE LengthSplit
    <2>1. start \in file.starts
      BY <1>10 DEF LengthSplit, IInv, PlaceInv
    <2>2. LenHdrSz(file.head[start]) \in {2, 4}
      BY <2>1, Numbers
    <2> QED
      BY <1>10, <2>2, <1>n, <1>w, <1>v DEF LengthSplit, Call, IInv, LayoutInv, NMSG_RBUFSZ
  <1>11. CASE Size
    <2>1. start \in file.starts
      BY <1>11 DEF Size, IInv, PlaceInv, Doing
    <2>2. LenHdrSz(file.head[start]) \in {2, 4}
      BY <2>1, Numbers
    <2> QED
      BY <1>11, <2>2, <1>n, <1>v DEF Size, IInv, LayoutInv
  <1>12. CASE SizeMissing
    BY <1>12 DEF SizeMissing, LayoutInv
  <1>13. CASE BodyAvail
    BY <1>13, <1>n, <1>w, <1>v DEF BodyAvail, IInv, LayoutInv
  <1>14. CASE BodyRead
    <2>1. start \in file.starts
      BY <1>14 DEF BodyRead, IInv, PlaceInv
    <2>2. file.head[start].len \in Nat /\ file.head[start].len <= BufSz
      BY <2>1, Numbers
    <2> QED
      BY <1>14, <2>2, <1>n, <1>w, <1>v DEF BodyRead, Call, IInv, LayoutInv, NMSG_RBUFSZ
  <1>15. CASE Unpack
    <2>1. start \in file.starts
      BY <1>15 DEF Unpack, IInv, PlaceInv, Doing
    <2>2. file.head[start].len \in Nat
      BY <2>1, Numbers
    <2> QED
      BY <1>15, <2>2, <1>n, <1>v DEF Unpack, IInv, LayoutInv
  <1>16. CASE Finished \/ UNCHANGED vars
    <2>1. UNCHANGED vars
      BY <1>16 DEF Finished
    <2>2. Avail' = Avail /\ Want(pc)' = Want(pc) /\ Want(ret)' = Want(ret)
      BY <2>1 DEF vars, Avail, Want
    <2> QED
      BY <2>1, <2>2 DEF vars, IInv, LayoutInv, NMSG_RBUFSZ
  <1> QED
    BY <1>1, <1>2, <1>3, <1>4, <1>5, <1>6, <1>7, <1>8, <1>9, <1>10, <1>11, <1>12,
       <1>13, <1>14, <1>15, <1>16
    DEF Next, read_container_file, read_file, do_read_file

-----------------------------------------------------------------------------
\* Every action but the last keeps the boundary; Unpack moves it on.
LEMMA PlaceStep == IInv /\ [Next]_vars => PlaceInv'
  <1> SUFFICES ASSUME IInv, [Next]_vars PROVE PlaceInv'
    OBVIOUS
  <1>n. /\ file \in Files /\ file.size \in Nat /\ NMSG_HDRSZ = 6
        /\ off \in Nat /\ pos \in Nat /\ end \in Nat /\ pos <= end
        /\ start \in Nat /\ at \in Nat /\ Avail = end - pos
        /\ start \in file.starts =>
             /\ LenHdrSz(file.head[start]) \in {2, 4}
             /\ file.head[start].len \in Nat
    BY Numbers
  <1>p. /\ off <= file.size /\ at = off - Avail /\ Boundary(Mark)
        /\ got = {s \in file.starts : s < Mark}
    BY DEF IInv, PlaceInv
  <1>v. Avail' = end' - pos'
    BY DEF Avail
  <1>k. ASSUME file' = file, Mark' = Mark, got' = got
        PROVE  Boundary(Mark)' /\ got' = {s \in file'.starts : s < Mark'}
    BY <1>k, <1>p DEF Boundary, FrameEnd
  <1>1. CASE Read
    <2>1. PICK n \in 1..max :
            /\ off + n <= file.size /\ off' = off + n /\ end' = end + n
            /\ pc' = IF needed <= n THEN ret ELSE "read"
      BY <1>1 DEF Read
    <2>2. /\ UNCHANGED <<file, pos, start, at, got, ret>> /\ pc = "read"
          /\ pc' \in {ret, "read"} /\ ret \in {"magic", "size", "unpack"}
      BY <1>1, <2>1 DEF Read, IInv, TypeOK
    <2>3. off' <= file'.size /\ at' = off' - Avail'
      BY <2>1, <2>2, <1>n, <1>p, <1>v
    <2>4. Boundary(Mark)' /\ got' = {s \in file'.starts : s < Mark'}
      BY <2>2, <1>k DEF Mark
    <2> QED
      BY <2>2, <2>3, <2>4 DEF IInv, PlaceInv, Doing
  <1>2. CASE ReadEnd
    <2>1. /\ UNCHANGED <<file, off, pos, end, start, at, got, ret>> /\ pc = "read"
          /\ \/ pc' = "size" /\ ret = "size"
             \/ pc' = "eof" /\ ret # "size" /\ off = file.size
             \/ pc' = "failure"
          /\ ret \in {"magic", "size", "unpack"}
      BY <1>2 DEF ReadEnd, IInv, TypeOK
    <2>2. Boundary(Mark)' /\ got' = {s \in file'.starts : s < Mark'}
      BY <2>1, <1>k DEF Mark
    <2>3. off' <= file'.size /\ at' = off' - Avail'
      BY <2>1, <1>n, <1>p, <1>v
    <2>4. ASSUME pc' = "eof", start \in file.starts
          PROVE  file.size < FrameEnd(start)
      <3>1. needed > 0 /\ Avail + needed = Want(ret) /\ needed \in Int
        BY <2>1 DEF IInv, LayoutInv, TypeOK
      <3>2. FrameEnd(start) = start + 6 + LenHdrSz(file.head[start]) + file.head[start].len
        BY <2>4, <1>n, FileFacts
      <3>3. CASE ret = "magic"
        <4>1. at = start /\ Want("magic") = 6
          BY <2>1, <3>3, Numbers DEF IInv, PlaceInv, Doing
        <4> QED
          BY <4>1, <3>1, <3>2, <3>3, <2>1, <2>4, <1>n, <1>p
      <3>4. CASE ret = "unpack"
        <4>1. /\ at = start + 6 + LenHdrSz(file.head[start])
              /\ Want("unpack") = file.head[start].len
          BY <2>1, <3>4, Numbers DEF IInv, PlaceInv, Doing
        <4> QED
          BY <4>1, <3>1, <3>2, <3>4, <2>1, <2>4, <1>n, <1>p
      <3> QED
        BY <3>3, <3>4, <2>1, <2>4
    <2>5. FrameEnd(start)' = FrameEnd(start)
      BY <2>1 DEF FrameEnd
    <2> QED
      BY <2>1, <2>2, <2>3, <2>4, <2>5 DEF IInv, PlaceInv, Doing
  <1>3. CASE HeaderAvail \/ HeaderSplit \/ HeaderFill
    <2>1. /\ UNCHANGED <<file, off, at, got>> /\ pc = "header" /\ start' = at
          /\ pc' = "magic" \/ (pc' = "read" /\ ret' = "magic")
          /\ Avail' = Avail
      BY <1>3, <1>n, <1>v DEF HeaderAvail, HeaderSplit, HeaderFill, Call
    <2>2. Boundary(Mark)' /\ got' = {s \in file'.starts : s < Mark'}
      BY <2>1, <1>k DEF Mark
    <2> QED
      BY <2>1, <2>2, <1>p DEF PlaceInv, Doing
  <1>4. CASE BadMagic
    <2>1. /\ UNCHANGED <<file, off, pos, end, start, at, got>> /\ pc = "magic"
          /\ pc' = "mismatch" /\ (off - Avail) \notin file.starts
      BY <1>4 DEF BadMagic
    <2>2. at = start /\ Mark = start
      BY <2>1 DEF IInv, PlaceInv, Doing, Mark
    <2>3. at = file.ends
      BY <2>1, <2>2, <1>p DEF Boundary
    <2>4. Boundary(Mark)' /\ got' = {s \in file'.starts : s < Mark'}
      BY <2>1, <1>k DEF Mark
    <2> QED
      BY <2>1, <2>3, <2>4, <1>p, <1>n, <1>v DEF PlaceInv, Doing
  <1>5. CASE Magic
    <2>1. /\ UNCHANGED <<file, off, start, got>> /\ pc = "magic" /\ pc' = "length"
          /\ (off - Avail) \in file.starts /\ at' = at + 6
      BY <1>5, <1>n DEF Magic
    <2>2. at = start
      BY <2>1 DEF IInv, PlaceInv, Doing
    <2>3. Avail' = Avail - 6
      <3>1. Avail >= 6 /\ (reset_buf => Avail <= 6)
        BY <2>1, Numbers DEF IInv, LayoutInv
      <3>2. CASE reset_buf
        BY <3>1, <3>2, <1>5, <1>n, <1>v DEF Magic
      <3>3. CASE ~reset_buf
        BY <3>3, <1>5, <1>n, <1>v DEF Magic
      <3> QED
        BY <3>2, <3>3
    <2>4. Boundary(Mark)' /\ got' = {s \in file'.starts : s < Mark'}
      BY <2>1, <1>k DEF Mark
    <2>5. at' = off' - Avail'
      BY <2>1, <2>3, <1>n, <1>p
    <2> QED
      BY <2>1, <2>2, <2>4, <2>5, <1>p, <1>n DEF PlaceInv, Doing
  <1>6. CASE LengthAvail \/ LengthFill \/ LengthSplit
    <2>1. /\ UNCHANGED <<file, off, at, start, got>> /\ pc = "length"
          /\ pc' = "size" \/ (pc' = "read" /\ ret' = "size")
          /\ Avail' = Avail
      BY <1>6, <1>n, <1>v DEF LengthAvail, LengthFill, LengthSplit, Call
    <2>2. Boundary(Mark)' /\ got' = {s \in file'.starts : s < Mark'}
      BY <2>1, <1>k DEF Mark
    <2> QED
      BY <2>1, <2>2, <1>p DEF IInv, PlaceInv, Doing
  <1>7. CASE Size
    <2>1. /\ UNCHANGED <<file, off, start, got>> /\ pc = "size" /\ pc' = "body"
          /\ Avail >= LenHdrSz(file.head[start])
          /\ at' = at + LenHdrSz(file.head[start])
      BY <1>7 DEF Size
    <2>2. start \in file.starts /\ at = start + 6
      BY <2>1, <1>n DEF IInv, PlaceInv, Doing
    <2>3. Avail' = Avail - LenHdrSz(file.head[start])
      <3>1. reset_buf => Avail <= LenHdrSz(file.head[start])
        BY <2>1, Numbers DEF IInv, LayoutInv
      <3>2. CASE reset_buf
        BY <3>1, <3>2, <2>1, <2>2, <1>7, <1>n, <1>v DEF Size
      <3>3. CASE ~reset_buf
        BY <3>3, <2>2, <1>7, <1>n, <1>v DEF Size
      <3> QED
        BY <3>2, <3>3
    <2>4. Boundary(Mark)' /\ got' = {s \in file'.starts : s < Mark'}
      BY <2>1, <1>k DEF Mark
    <2>5. at' = off' - Avail'
      BY <2>1, <2>2, <2>3, <1>n, <1>p
    <2> QED
      BY <2>1, <2>2, <2>4, <2>5, <1>p, <1>n DEF PlaceInv, Doing
  <1>8. CASE SizeMissing \/ BodyAvail \/ BodyRead
    <2>1. /\ UNCHANGED <<file, off, at, start, got, pos, end>>
          /\ \/ pc = "size" /\ pc' = "abort"
             \/ pc = "body" /\ pc' = "unpack"
             \/ pc = "body" /\ pc' = "read" /\ ret' = "unpack"
          /\ Avail' = Avail
      BY <1>8 DEF SizeMissing, BodyAvail, BodyRead, Call, Avail
    <2>2. Boundary(Mark)' /\ got' = {s \in file'.starts : s < Mark'}
      BY <2>1, <1>k DEF Mark
    <2> QED
      BY <2>1, <2>2, <1>p DEF IInv, PlaceInv, Doing
  <1>9. CASE Unpack
    <2>1. /\ UNCHANGED <<file, off, start, end>> /\ pc = "unpack" /\ pc' = "header"
          /\ got' = got \cup {start} /\ at' = at + file.head[start].len
          /\ pos' = pos + file.head[start].len
      BY <1>9 DEF Unpack
    <2>2. /\ start \in file.starts /\ at = start + 6 + LenHdrSz(file.head[start])
          /\ Avail >= file.head[start].len
      BY <2>1, Numbers DEF IInv, PlaceInv, LayoutInv, Doing
    <2>3. at' = off' - Avail' /\ at' <= file.size
      BY <2>1, <2>2, <1>n, <1>p, <1>v
    <2>4. at' = FrameEnd(start)
      BY <2>1, <2>2, <1>n, FileFacts
    <2>5. Mark = start /\ Mark' = FrameEnd(start)
      BY <2>1, <2>4 DEF Mark
    <2>6. /\ Boundary(FrameEnd(start))
          /\ \A s \in file.starts : s < FrameEnd(start) <=> s < start \/ s = start
      BY <2>2, <2>3, <2>4, <2>5, <1>n, <1>p, BoundaryStep
    <2>7. Boundary(Mark)'
      BY <2>1, <2>5, <2>6 DEF Boundary, FrameEnd
    <2>8. got' = {s \in file'.starts : s < Mark'}
      BY <2>1, <2>2, <2>5, <2>6, <1>p
    <2> QED
      BY <2>1, <2>3, <2>7, <2>8, <1>p DEF PlaceInv, Doing
  <1>10. CASE Finished \/ UNCHANGED vars
    BY <1>10 DEF Finished, vars, IInv, PlaceInv, Boundary, FrameEnd, Mark, Doing, Avail
  <1> QED
    BY <1>1, <1>2, <1>3, <1>4, <1>5, <1>6, <1>7, <1>8, <1>9, <1>10
    DEF Next, read_container_file, read_file, do_read_file

-----------------------------------------------------------------------------
\* The inductive invariant of the file reader holds in every reachable state.
THEOREM Invariance == Spec => []IInv
  <1>1. IInv /\ [Next]_vars => IInv'
    BY TypeStep, LayoutStep, PlaceStep DEF IInv
  <1> QED
    BY <1>1, InitInv, PTL DEF Spec

\* do_read_file() always finds room for the bytes it is asked for.
THEOREM BufferNeverOverruns == Spec => []ReadFits
  <1>1. IInv => ReadFits
    BY DEF IInv, LayoutInv, ReadFits
  <1> QED
    BY <1>1, Invariance, PTL

\* Resetting the buffer loses no byte and repeats none.
THEOREM ParserKeepsItsPlace == Spec => []BytesInOrder
  <1>1. IInv => BytesInOrder
    BY DEF IInv, PlaceInv, BytesInOrder
  <1> QED
    BY <1>1, Invariance, PTL

\* Every complete container of a file is handed on, also of one that was cut
\* off.
THEOREM CompleteContainersAreRead == Spec => []WholeContainers
  <1>1. ASSUME IInv PROVE WholeContainers
    <2>1. /\ file \in Files /\ Boundary(Mark) /\ got = {s \in file.starts : s < Mark}
          /\ pc = "eof" /\ start \in file.starts => file.size < FrameEnd(start)
          /\ start \in Nat
      BY <1>1 DEF IInv, TypeOK, PlaceInv
    <2>2. ASSUME pc = "eof", NEW s \in file.starts
          PROVE  s < start <=> FrameEnd(s) <= file.size
      <3>1. Mark = start /\ file.ends \in Nat /\ file.size \in Nat
        BY <2>1, <2>2, FileFacts DEF Mark
      <3>2. s \in Nat /\ FrameEnd(s) \in Nat /\ s < file.ends /\ s < FrameEnd(s)
        BY <2>1, FileFacts
      <3>3. ASSUME s < start PROVE FrameEnd(s) <= file.size
        <4>1. FrameEnd(s) <= start /\ start <= file.size
          BY <2>1, <3>1, <3>3, FileFacts DEF Boundary
        <4> QED
          BY <2>1, <3>1, <3>2, <4>1
      <3>4. ASSUME ~(s < start) PROVE ~(FrameEnd(s) <= file.size)
        <4>1. start \in file.starts
          BY <2>1, <3>1, <3>2, <3>4 DEF Boundary
        <4>2. file.size < FrameEnd(start) /\ FrameEnd(start) \in Nat
          BY <2>1, <2>2, <4>1, FileFacts
        <4>3. s = start \/ FrameEnd(start) <= s
          BY <2>1, <3>2, <3>4, <4>1, FileFacts
        <4> QED
          BY <3>1, <3>2, <4>2, <4>3, FileFacts, <2>1
      <3> QED
        BY <3>3, <3>4
    <2> QED
      BY <2>1, <2>2 DEF WholeContainers, Mark, FrameEnd
  <1> QED
    BY <1>1, Invariance, PTL
=============================================================================
