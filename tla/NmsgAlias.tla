------------------------------ MODULE NmsgAlias ------------------------------
(***************************************************************************)
(* Names for operators and groups (nmsg/alias.c), and channels             *)
(* (nmsg/chalias.c).                                                       *)
(*                                                                         *)
(* An alias file has lines "key name".  They are read into an array that   *)
(* grows with the largest key; a line that does not parse ends the         *)
(* reading.  A table is [ready, max, value]: the array has the indices     *)
(* 0..max, and is there at all when ready.  Keys are unsigned; UIntMax     *)
(* stands for 2^32 - 1.                                                    *)
(***************************************************************************)
EXTENDS Integers, SequencesExt

CONSTANTS
    SizeInit,   \* ALIAS_SZ_INIT
    UIntMax     \* largest unsigned

ASSUME AliasAssumption ==
    /\ SizeInit \in Nat \ {0} /\ UIntMax \in Nat /\ SizeInit < UIntMax
    /\ UIntMax % 2 = 1     \* 2^w - 1

NoName == "none"
NoTable == [ready |-> FALSE, max |-> 0, value |-> [k \in {} |-> NoName]]
NewTable == [ready |-> TRUE, max |-> SizeInit, value |-> [k \in 0..SizeInit |-> NoName]]

\* Mutant: doubles the array, however large the key is.
Resized_Double(al, key) ==
    [al EXCEPT !.max = 2 * al.max,
               !.value = [k \in 0..(2 * al.max) |-> IF k <= al.max THEN al.value[k] ELSE NoName]]

\* alias_resize(): at least doubles the array.  n, max_idx and the number of
\* elements max_idx + 1 are unsigned.  When that wraps to 0 realloc() frees the
\* array and returns NULL, and free(tmp) frees it again: no array is left.
Resized(al, key) ==
    LET n == (key + 1) % (UIntMax + 1)
        twice == (2 * al.max) % (UIntMax + 1)
        max == IF n > twice THEN (n + 1) % (UIntMax + 1) ELSE twice
        size == (max + 1) % (UIntMax + 1)
    IN  IF n <= al.max THEN al
        ELSE IF size = 0 THEN NoTable
        ELSE [al EXCEPT !.max = max,
                        !.value = [k \in 0..max |-> IF k <= al.max THEN al.value[k] ELSE NoName]]

Grown(al, key) == IF key > al.max THEN Resized(al, key) ELSE al

\* A line of the file, or one that has no name or no number.
AliasLine == [key : 0..UIntMax, name : STRING]
BadLine == [key |-> 0, name |-> NoName]

\* alias_init() for one line: "ok"; "failed" at a bad line; "crash" when the array
\* was freed twice, or a key is outside of it even after it has grown.
ReadLine(r, l) ==
    LET al == Grown(r.al, l.key)
    IN  IF r.res # "ok" THEN r
        ELSE IF l = BadLine THEN [r EXCEPT !.res = "failed"]
        ELSE IF ~al.ready \/ l.key > al.max THEN [r EXCEPT !.res = "crash"]
        ELSE [r EXCEPT !.al = [al EXCEPT !.value[l.key] = l.name]]

AliasInit(lines) ==
    LET read[i \in 0..Len(lines)] ==
          IF i = 0 THEN [al |-> NewTable, res |-> "ok"] ELSE ReadLine(read[i - 1], lines[i])
    IN  read[Len(lines)]

\* _nmsg_alias_init(): the groups are read only if the operators were.
AliasTables(opLines, grLines) ==
    LET op == AliasInit(opLines)
        gr == AliasInit(grLines)
    IN  [operator |-> op.al,
         group |-> IF op.res = "ok" THEN gr.al ELSE NoTable,
         res |-> IF op.res = "ok" THEN gr.res ELSE op.res]

\* nmsg_alias_by_value(): the first key of the name, 0 for none.  {} when there
\* is no array: the program crashes.
ByValue(al, name) ==
    IF ~al.ready THEN {}
    ELSE LET keys == {k \in 0..al.max : al.value[k] = name}
         IN  {IF keys = {} THEN 0 ELSE Min(keys)}

\* nmsg_alias_by_key(): the name of a key, if it has one.
ByKey(al, key) == IF key <= al.max THEN al.value[key] ELSE NoName

\* nmsg_chalias_lookup(): the addresses of every line for the channel, in
\* nmsg.chalias or, if that is not there, in nmsgtool.chalias.  A file is {} or
\* {lines}, a line [channel, addrs]; {} without any file.
ChaliasLookup(file, file2, ch) ==
    LET addrs(line) == IF line.channel = ch THEN line.addrs ELSE <<>>
    IN  {FlattenSeq([i \in DOMAIN lines |-> addrs(lines[i])]) :
             lines \in IF file # {} THEN file ELSE file2}
=============================================================================
