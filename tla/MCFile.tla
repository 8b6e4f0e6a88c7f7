-------------------------------- MODULE MCFile --------------------------------
(***************************************************************************)
(* Small files and a buffer of 12 + 12 bytes, so that every container can  *)
(* be cut anywhere by a read() or by the end of the buffer.                *)
(***************************************************************************)
EXTENDS NmsgFile, Sequences, FiniteSetsExt

V1(n) == [version |-> 1, len |-> n]
V2(n) == [version |-> 2, len |-> n]

\* Containers one after the other, "cut" bytes of the last one missing, or
\* "more" bytes after it that are no container.
MkFile(hs, cut, more, fails) ==
    LET startOf(i) == MapThenSumSet(LAMBDA j : FrameLen(hs[j]), 1..(i - 1))
        all == {startOf(i) : i \in 1..Len(hs)}
        headAt(s) == hs[CHOOSE i \in 1..Len(hs) : startOf(i) = s]
        ends == startOf(Len(hs) + 1) - cut
    IN  [size |-> ends + more, ends |-> ends, fails |-> fails, starts |-> all,
         head |-> [s \in all |-> headAt(s)]]

\* Containers as long as the buffer, that end at its end or one byte before,
\* of both versions; read errors; something else at the end.
Complete ==
    { MkFile(<<V2(2), V2(12), V1(5), V2(1)>>, 0, 0, FALSE),
      MkFile(<<V2(1), V2(3), V2(12), V1(12), V1(1)>>, 0, 0, FALSE),
      MkFile(<<V1(3), V2(12), V2(7)>>, 0, 0, TRUE),
      MkFile(<<V2(2), V2(3)>>, 0, 9, FALSE),
      MkFile(<<>>, 0, 0, FALSE) }

\* The same file, cut off at every place of its last container.
Truncated == {MkFile(<<V2(4), V2(9)>>, cut, 0, FALSE) : cut \in 1..18}

MCFiles == Complete \cup Truncated

\* Cut off within the length of its second container.
CutLength == {MkFile(<<V2(4), V2(9)>>, 11, 0, FALSE)}
=============================================================================
