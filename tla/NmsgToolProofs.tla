---------------------------- MODULE NmsgToolProofs ----------------------------
(***************************************************************************)
(* Proofs about nmsgtool: the order of its set-up (RunsAsAsked), the       *)
(* settings of its outputs (SettingsKept), the files it hands over         *)
(* (HandedOver) and its aliases (AliasesUsable).                           *)
(***************************************************************************)
EXTENDS NmsgTool, TLAPS, WellFoundedInduction

-----------------------------------------------------------------------------
(***************************************************************************)
(* Induction and recursion up to a number                                  *)
(***************************************************************************)
\* A set of numbers has a least one.
LEMMA LeastNat ==
    ASSUME NEW T, T \subseteq Nat, T # {}
    PROVE  \E x \in T : \A y \in T : x <= y
<1>1. T \subseteq Nat /\ T # {}
  OBVIOUS
<1>2. PICK R : /\ IsWellFoundedOn(R, Nat)
               /\ \A y, x \in Nat : y < x => <<y, x>> \in R
  <2>1. IsWellFoundedOn(OpToRel(<, Nat), Nat)
    BY NatLessThanWellFounded
  <2>2. \A y, x \in Nat : y < x => <<y, x>> \in OpToRel(<, Nat)
    BY DEF OpToRel
  <2> QED
    BY <2>1, <2>2
<1>3. \E x \in T : \A y \in T : ~(<<y, x>> \in R)
  <2>1. IsWellFoundedOn(R, Nat)
    BY <1>2
  <2> QED
    BY ONLY <1>1, <2>1, WFMin, ZenonT(30)
<1>4. PICK x \in T : \A y \in T : ~(<<y, x>> \in R)
  BY <1>3
<1>5. x \in Nat /\ \A y \in T : y \in Nat
  BY <1>1
<1>6. ASSUME NEW y \in T PROVE x <= y
  <2>1. ~(y < x)
    BY <1>2, <1>4, <1>5
  <2> QED
    BY <2>1, <1>5
<1> QED
  BY <1>6

\* Induction up to n, for a set of numbers.
LEMMA Induction ==
    ASSUME NEW n \in Nat, NEW A, 0 \in A,
           \A i \in 1..n : i - 1 \in A => i \in A
    PROVE  \A i \in 0..n : i \in A
<1> DEFINE B == {i \in 0..n : i \notin A}
<1>1. SUFFICES ASSUME B # {} PROVE FALSE
  OBVIOUS
<1>2. PICK x \in B : \A y \in B : x <= y
  <2>1. B \subseteq Nat
    OBVIOUS
  <2> HIDE DEF B
  <2> QED
    BY <1>1, <2>1, LeastNat
<1>3. x # 0 /\ x \in 1..n /\ x - 1 \in 0..n /\ x - 1 < x
  BY <1>2
<1>4. x - 1 \notin B
  BY <1>2, <1>3
<1> QED
  BY <1>2, <1>3, <1>4

\* A function can be defined by recursion.
\* f is what step makes of base, and of each value the next.
Recurs(f, base, step, n) == f[0] = base /\ \A i \in 1..n : f[i] = step[<<f[i - 1], i>>]

LEMMA Recursion ==
    ASSUME NEW n \in Nat, NEW V, NEW base \in V, NEW step \in [V \X (1..n) -> V]
    PROVE  \E f \in [0..n -> V] : Recurs(f, base, step, n)
<1> DEFINE Upto(m, f) == f[0] = base /\ \A i \in 1..m : f[i] = step[<<f[i - 1], i>>]
<1> DEFINE A == {m \in 0..n : \E f \in [0..m -> V] : Upto(m, f)}
<1>1. 0 \in A
  <2> DEFINE f == [i \in 0..0 |-> base]
  <2>1. f \in [0..0 -> V]
    OBVIOUS
  <2>2. f[0] = base
    OBVIOUS
  <2>3. Upto(0, f)
    BY <2>2
  <2> HIDE DEF f
  <2> QED
    BY <2>1, <2>3
<1>2. ASSUME NEW m \in 1..n, m - 1 \in A PROVE m \in A
  <2>1. PICK f \in [0..(m - 1) -> V] : Upto(m - 1, f)
    BY <1>2
  <2> DEFINE g == [i \in 0..m |-> IF i = m THEN step[<<f[m - 1], m>>] ELSE f[i]]
  <2>2. g \in [0..m -> V]
    <3>1. m - 1 \in 0..(m - 1) /\ m \in 1..n
      OBVIOUS
    <3>2. f[m - 1] \in V
      BY <3>1
    <3>3. <<f[m - 1], m>> \in V \X (1..n)
      BY <3>1, <3>2
    <3>4. step[<<f[m - 1], m>>] \in V
      BY <3>3
    <3>5. \A i \in 0..m : i # m => i \in 0..(m - 1)
      OBVIOUS
    <3> QED
      BY <3>4, <3>5
  <2>3. Upto(m, g)
    <3>1. \A i \in 0..(m - 1) : g[i] = f[i]
      OBVIOUS
    <3>2. g[m] = step[<<f[m - 1], m>>]
      OBVIOUS
    <3>3. g[m - 1] = f[m - 1] /\ g[0] = f[0]
      BY <3>1
    <3>4. ASSUME NEW i \in 1..m PROVE g[i] = step[<<g[i - 1], i>>]
      <4>1. CASE i = m
        BY <4>1, <3>2, <3>3
      <4>2. CASE i # m
        <5>1. i \in 1..(m - 1) /\ i \in 0..(m - 1) /\ i - 1 \in 0..(m - 1)
          BY <4>2
        <5> QED
          BY <5>1, <3>1, <2>1
      <4> QED
        BY <4>1, <4>2
    <3> QED
      BY <3>3, <3>4, <2>1
  <2> HIDE DEF g
  <2> QED
    BY <2>2, <2>3
<1> HIDE DEF A
<1>3. n \in A
  BY <1>1, <1>2, Induction
<1> QED
  BY <1>3 DEF A, Recurs

-----------------------------------------------------------------------------
(***************************************************************************)
(* The script of process_args()                                            *)
(***************************************************************************)
\* FlattenSeq() makes a sequence of what its sequences are made of.
LEMMA FlattenType ==
    ASSUME NEW S, NEW seqs \in Seq(Seq(S))
    PROVE  FlattenSeq(seqs) \in Seq(S)
<1> DEFINE n == Len(seqs)
           V == Seq(S)
           D(f) == [i \in 1..n |-> IF i = 1 THEN seqs[i] ELSE f[i - 1] \o seqs[i]]
           g == CHOOSE x : x = D(x)
           step == [p \in V \X (1..n) |-> p[1] \o seqs[p[2]]]
<1>1. CASE n = 0
  BY <1>1 DEF FlattenSeq
<1>2. CASE n # 0
  <2>1. n \in Nat \ {0} /\ <<>> \in V /\ \A i \in 1..n : seqs[i] \in V
    BY <1>2
  <2>2. \A v \in V, i \in 1..n : v \o seqs[i] \in V
    OBVIOUS
  <2>a. <<>> \o seqs[1] = seqs[1]
    BY <2>1
  <2>3. FlattenSeq(seqs) = g[n]
    BY <1>2 DEF FlattenSeq
  <2> HIDE DEF n, V
  <2>4. step \in [V \X (1..n) -> V]
    BY <2>2
  <2>5. \A v \in V, i \in 1..n : step[<<v, i>>] = v \o seqs[i]
    OBVIOUS
  <2> HIDE DEF step
  <2>6. PICK h \in [0..n -> V] : Recurs(h, <<>>, step, n)
    <3>1. PICK b : b = <<>>
      OBVIOUS
    <3>2. b \in V
      BY <2>1, <3>1
    <3>3. \E f \in [0..n -> V] : Recurs(f, b, step, n)
      BY <2>1, <3>2, <2>4, Recursion
    <3> QED BY <3>1, <3>3
  <2>7. ASSUME NEW i \in 1..n PROVE h[i] = h[i - 1] \o seqs[i]
    <3>1. i - 1 \in 0..n
      BY <2>1
    <3> QED BY <3>1, <2>5, <2>6 DEF Recurs
  <2> DEFINE f == [i \in 1..n |-> h[i]]
  <2>8. f = D(f)
    <3>1. \A i \in 1..n : i # 1 => i - 1 \in 1..n
      BY <2>1
    <3>2. h[1] = seqs[1]
      <4>1. h[1 - 1] = <<>> /\ 1 \in 1..n
        BY <2>1, <2>6 DEF Recurs
      <4> QED BY <4>1, <2>7, <2>a
    <3>3. \A i \in 1..n : h[i] = IF i = 1 THEN seqs[i] ELSE f[i - 1] \o seqs[i]
      BY <3>1, <3>2, <2>7
    <3> QED BY <3>3
  <2> HIDE DEF f
  <2>9. g = D(g)
    BY <2>8, Zenon
  <2> HIDE DEF g
  <2>10. \A i \in 1..n : g[i] = IF i = 1 THEN seqs[i] ELSE g[i - 1] \o seqs[i]
    BY <2>9
  <2> DEFINE A == {i \in 0..n : i = 0 \/ g[i] \in V}
  <2>11. 0 \in A
    BY <2>1
  <2>12. ASSUME NEW i \in 1..n, i - 1 \in A PROVE i \in A
    <3>1. CASE i = 1
      BY <3>1, <2>1, <2>10
    <3>2. CASE i # 1
      <4>1. i \in 0..n /\ g[i - 1] \in V
        BY <3>2, <2>1, <2>12
      <4>2. g[i - 1] \o seqs[i] \in V
        BY <4>1, <2>2
      <4> QED BY <3>2, <4>1, <4>2, <2>10
    <3> QED BY <3>1, <3>2
  <2> HIDE DEF A
  <2>13. \A i \in 0..n : i \in A
    BY <2>1, <2>11, <2>12, Induction
  <2>14. g[n] \in V
    BY <2>1, <2>13 DEF A
  <2> QED
    BY <2>3, <2>14 DEF V
<1> QED BY <1>1, <1>2

\* The stage of an item in process_args().
Rank(op) ==
    CASE op = "if" -> 1 [] op = "pidfile" -> 2 [] op = "droproot" -> 3
      [] op = "validate" -> 5 [] op = "daemonize" -> 6 [] op = "pid" -> 7
      [] op = "signals" -> 8 [] OTHER -> 4

\* The items of the fourth stage, and all.
MidItem ==
    [op : {"usage", "xs_init"}]
    \cup [op : {"sock_in", "sock_out"}, port : Int, rate : SUBSET (Nat \cup {DefaultFreq})]
    \cup {XsItem(op, opts) : op \in {"xs_in", "xs_out"}, opts \in Seq(STRING)}
    \cup [op : {"pcap", "file_in", "file_out", "pres_in", "pres_out"}, file : File]
ScriptItem ==
    MidItem \cup [op : {"if"}, file : File]
    \cup [op : {"pidfile", "droproot", "validate", "daemonize", "pid", "signals"}]

Ranks(s) == {Rank(s[i].op) : i \in DOMAIN s}

\* The stages are in order.
InOrder(s) ==
    /\ s \in Seq(ScriptItem)
    /\ \A i, j \in DOMAIN s : i < j => Rank(s[i].op) <= Rank(s[j].op)

LEMMA RankFacts ==
    /\ Rank("if") = 1 /\ Rank("pidfile") = 2 /\ Rank("droproot") = 3
    /\ Rank("validate") = 5 /\ Rank("daemonize") = 6 /\ Rank("pid") = 7
    /\ Rank("signals") = 8 /\ Rank("usage") = 4 /\ Rank("xs_init") = 4 /\ Rank("fail") = 4
    /\ Rank("sock_in") = 4 /\ Rank("sock_out") = 4 /\ Rank("xs_in") = 4 /\ Rank("xs_out") = 4
    /\ Rank("pcap") = 4 /\ Rank("file_in") = 4 /\ Rank("file_out") = 4
    /\ Rank("pres_in") = 4 /\ Rank("pres_out") = 4
  BY DEF Rank

LEMMA RankInt == \A op : Rank(op) \in 1..8
  BY DEF Rank

LEMMA MidRank == ASSUME NEW x \in MidItem PROVE Rank(x.op) = 4
<1>1. CASE x \in [op : {"usage", "xs_init"}]
  BY <1>1, RankFacts
<1>2. CASE x \in [op : {"sock_in", "sock_out"}, port : Int, rate : SUBSET (Nat \cup {DefaultFreq})]
  BY <1>2, RankFacts
<1>3. CASE x \in {XsItem(op, opts) : op \in {"xs_in", "xs_out"}, opts \in Seq(STRING)}
  <2>1. PICK op \in {"xs_in", "xs_out"}, opts \in Seq(STRING) : x = XsItem(op, opts)
    BY <1>3
  <2>2. x.op = op \/ x.op = "fail"
    BY <2>1 DEF XsItem
  <2> QED BY <2>2, RankFacts
<1>4. CASE x \in [op : {"pcap", "file_in", "file_out", "pres_in", "pres_out"}, file : File]
  BY <1>4, RankFacts
<1> QED BY <1>1, <1>2, <1>3, <1>4 DEF MidItem

\* Parts of the script.
LEMMA MidOrder ==
    ASSUME NEW s \in Seq(MidItem) PROVE InOrder(s) /\ Ranks(s) \subseteq {4}
<1>1. s \in Seq(ScriptItem)
  <2>1. MidItem \subseteq ScriptItem
    BY DEF ScriptItem
  <2> HIDE DEF ScriptItem
  <2> QED BY <2>1
<1>2. \A i \in DOMAIN s : s[i] \in MidItem
  OBVIOUS
<1>3. \A i \in DOMAIN s : Rank(s[i].op) = 4
  BY <1>2, MidRank
<1> QED BY <1>1, <1>3 DEF InOrder, Ranks

LEMMA JoinOrder ==
    ASSUME NEW s, NEW t, InOrder(s), InOrder(t),
           \A a \in Ranks(s), b \in Ranks(t) : a <= b
    PROVE  InOrder(s \o t) /\ Ranks(s \o t) = Ranks(s) \cup Ranks(t)
<1> DEFINE S == ScriptItem
           u == s \o t
<1>1. s \in Seq(S) /\ t \in Seq(S)
  BY DEF InOrder
<1> HIDE DEF S
<1>2. u \in Seq(S) /\ Len(s) \in Nat /\ Len(t) \in Nat /\ Len(u) = Len(s) + Len(t)
      /\ DOMAIN s = 1..Len(s) /\ DOMAIN t = 1..Len(t) /\ DOMAIN u = 1..(Len(s) + Len(t))
  BY <1>1
<1>3. \A i \in 1..Len(s) : u[i] = s[i]
  BY <1>1
<1>4. \A i \in 1..Len(t) : u[Len(s) + i] = t[i]
  BY <1>1
<1>5. \A i \in DOMAIN u : i \in 1..Len(s) \/ (i - Len(s) \in 1..Len(t) /\ i = Len(s) + (i - Len(s)))
  BY <1>2
<1>6. \A i \in 1..Len(s) : i \in DOMAIN u
  BY <1>2
<1>7. \A i \in 1..Len(t) : Len(s) + i \in DOMAIN u
  BY <1>2
<1> HIDE DEF u
<1>8. Ranks(u) = Ranks(s) \cup Ranks(t)
  <2>1. ASSUME NEW i \in DOMAIN u PROVE Rank(u[i].op) \in Ranks(s) \cup Ranks(t)
    BY <2>1, <1>2, <1>3, <1>4, <1>5 DEF Ranks
  <2>2. ASSUME NEW i \in DOMAIN s PROVE Rank(s[i].op) \in Ranks(u)
    BY <2>2, <1>2, <1>3, <1>6 DEF Ranks
  <2>3. ASSUME NEW i \in DOMAIN t PROVE Rank(t[i].op) \in Ranks(u)
    BY <2>3, <1>2, <1>4, <1>7 DEF Ranks
  <2> QED BY <2>1, <2>2, <2>3 DEF Ranks
<1>9. ASSUME NEW i \in DOMAIN u, NEW j \in DOMAIN u, i < j
      PROVE  Rank(u[i].op) <= Rank(u[j].op)
  <2>1. CASE i \in 1..Len(s) /\ j \in 1..Len(s)
    BY <2>1, <1>9, <1>2, <1>3 DEF InOrder
  <2>2. CASE i \in 1..Len(s) /\ j \notin 1..Len(s)
    <3>1. Rank(u[i].op) \in Ranks(s)
      BY <2>2, <1>2, <1>3 DEF Ranks
    <3>2. Rank(u[j].op) \in Ranks(t)
      BY <2>2, <1>2, <1>4, <1>5 DEF Ranks
    <3> QED BY <3>1, <3>2
  <2>3. CASE i \notin 1..Len(s)
    <3>1. j \notin 1..Len(s)
      BY <2>3, <1>9, <1>2
    <3>2. PICK a \in 1..Len(t), b \in 1..Len(t) : i = Len(s) + a /\ j = Len(s) + b
      BY <2>3, <3>1, <1>5
    <3>3. a < b
      BY <3>2, <1>9, <1>2
    <3>4. u[i] = t[a] /\ u[j] = t[b]
      BY <3>2, <1>4
    <3> QED BY <3>3, <3>4, <1>2 DEF InOrder
  <2> QED BY <2>1, <2>2, <2>3
<1>10. InOrder(u)
  BY <1>2, <1>9 DEF InOrder, S
<1> QED BY <1>8, <1>10 DEF u

LEMMA OnlyOrder ==
    ASSUME NEW cond \in BOOLEAN,
           NEW op \in {"pidfile", "droproot", "validate", "daemonize", "pid", "signals"}
    PROVE  /\ InOrder(Only(cond, op))
           /\ Ranks(Only(cond, op)) = IF cond THEN {Rank(op)} ELSE {}
<1> DEFINE s == Only(cond, op)
<1>1. [op |-> op] \in ScriptItem
  BY DEF ScriptItem
<1>2. CASE cond
  <2>1. s = <<[op |-> op]>>
    BY <1>2 DEF Only
  <2>2. s \in Seq(ScriptItem)
    BY <1>1, <2>1
  <2>3. DOMAIN s = {1} /\ s[1].op = op
    BY <2>1
  <2> HIDE DEF s
  <2>4. InOrder(s)
    BY <2>2, <2>3 DEF InOrder
  <2>5. Ranks(s) = {Rank(op)}
    BY <2>3 DEF Ranks
  <2> QED BY <1>2, <2>4, <2>5 DEF s
<1>3. CASE ~cond
  <2>1. s = <<>>
    BY <1>3 DEF Only
  <2>2. s \in Seq(ScriptItem) /\ DOMAIN s = {}
    BY <2>1
  <2> HIDE DEF s
  <2>4. InOrder(s) /\ Ranks(s) = {}
    BY <2>2 DEF InOrder, Ranks
  <2> QED BY <1>3, <2>4 DEF s
<1> QED BY <1>2, <1>3

LEMMA MapMid ==
    ASSUME NEW files \in Seq(File),
           NEW op \in {"pcap", "file_in", "file_out", "pres_in", "pres_out"}
    PROVE  Map(op, files) \in Seq(MidItem)
<1> DEFINE m == [i \in 1..Len(files) |-> [op |-> op, file |-> files[i]]]
<1>1. Map(op, files) = m
  BY DEF Map
<1>2. \A i \in 1..Len(files) : files[i] \in File
  OBVIOUS
<1>3. \A f \in File : [op |-> op, file |-> f] \in MidItem
  BY DEF MidItem
<1>4. \A i \in 1..Len(files) : [op |-> op, file |-> files[i]] \in MidItem
  BY <1>2, <1>3
<1>5. Len(files) \in Nat
  OBVIOUS
<1> HIDE DEF MidItem
<1>6. m \in Seq(MidItem)
  BY <1>4, <1>5
<1> QED BY <1>1, <1>6

LEMMA MapIf ==
    ASSUME NEW files \in Seq(File)
    PROVE  InOrder(Map("if", files)) /\ Ranks(Map("if", files)) \subseteq {1}
<1> DEFINE m == [i \in 1..Len(files) |-> [op |-> "if", file |-> files[i]]]
<1>1. Map("if", files) = m
  BY DEF Map
<1>2. \A i \in 1..Len(files) : files[i] \in File
  OBVIOUS
<1>3. \A f \in File : [op |-> "if", file |-> f] \in ScriptItem
  BY DEF ScriptItem
<1>4. \A i \in 1..Len(files) : [op |-> "if", file |-> files[i]] \in ScriptItem
  BY <1>2, <1>3
<1>5. Len(files) \in Nat
  OBVIOUS
<1>6. m \in Seq(ScriptItem)
  BY <1>4, <1>5
<1>7. \A i \in DOMAIN m : m[i].op = "if"
  OBVIOUS
<1> HIDE DEF m
<1>8. \A i \in DOMAIN m : Rank(m[i].op) = 1
  BY <1>7, RankFacts
<1>9. InOrder(m) /\ Ranks(m) \subseteq {1}
  BY <1>6, <1>8 DEF InOrder, Ranks
<1> QED BY <1>1, <1>9

LEMMA UsageMid == Usage \in MidItem
  BY DEF Usage, MidItem

\* getsock()
LEMMA SockMid ==
    ASSUME NEW a \in Address, NEW op \in {"sock_in", "sock_out"}
    PROVE  SockItems(op, a) \in Seq(MidItem)
<1>1. a.lo \in Nat /\ a.hi \in Nat /\ a.freq \in Nat
  BY DEF Address
<1>2. CASE a.form # "ok" \/ a.lo > a.hi \/ a.hi - a.lo > MaxSpan
  <2>1. SockItems(op, a) = <<Usage>>
    BY <1>2 DEF SockItems
  <2> QED BY <2>1, UsageMid
<1>3. CASE ~(a.form # "ok" \/ a.lo > a.hi \/ a.hi - a.lo > MaxSpan)
  <2> DEFINE n == a.hi - a.lo + 1
             rate == IF op = "sock_in" \/ a.rate = "none" THEN {}
                     ELSE {IF a.freq = 0 THEN DefaultFreq ELSE a.freq}
             item(i) == IF a.addr = "bad" \/ (op = "sock_out" /\ a.rate = "bad") \/ a.lo + i - 1 = 0 THEN Usage
                        ELSE [op |-> op, port |-> (a.lo + i - 1) % (MaxPort + 1), rate |-> rate]
  <2>1. SockItems(op, a) = [i \in 1..n |-> item(i)]
    BY <1>3 DEF SockItems
  <2>2. n \in Nat
    BY <1>1, <1>3
  <2>3. rate \in SUBSET (Nat \cup {DefaultFreq})
    BY <1>1
  <2>4. ASSUME NEW i \in 1..n PROVE item(i) \in MidItem
    <3>1. (a.lo + i - 1) % (MaxPort + 1) \in Int
      <4>1. a.lo + i - 1 \in Int /\ MaxPort + 1 \in Nat \ {0}
        BY <1>1, <2>2, ToolAssumption
      <4> QED BY <4>1
    <3> HIDE DEF rate
    <3>2. \A p \in Int : [op |-> op, port |-> p, rate |-> rate] \in MidItem
      BY <2>3 DEF MidItem
    <3> QED BY <3>1, <3>2, UsageMid
  <2> HIDE DEF n, item
  <2>5. [i \in 1..n |-> item(i)] \in Seq(MidItem)
    BY <2>2, <2>4
  <2> QED BY <2>1, <2>5
<1> QED BY <1>2, <1>3

LEMMA XsMid ==
    ASSUME NEW opts \in Seq(STRING), NEW op \in {"xs_in", "xs_out"}
    PROVE  XsItem(op, opts) \in MidItem
  BY DEF MidItem

\* One sequence for each element, and all of them.
LEMMA EachMid ==
    ASSUME NEW n \in Nat, NEW f, DOMAIN f = 1..n, f = [i \in 1..n |-> f[i]],
           \A i \in 1..n : f[i] \in Seq(MidItem)
    PROVE  FlattenSeq(f) \in Seq(MidItem)
<1> DEFINE V == Seq(MidItem)
<1>1. f \in Seq(V)
  <2> HIDE DEF V
  <2>1. \A i \in 1..n : f[i] \in V
    BY DEF V
  <2> QED BY <2>1
<1> QED BY <1>1, FlattenType

\* What nmsg_chalias_lookup() finds is addresses.
LEMMA ChaliasType ==
    ASSUME env \in Envs, NEW ch,
           NEW found \in ChaliasLookup(env.chalias, env.chalias2, ch)
    PROVE  found \in Seq(Address)
<1> DEFINE addrs(line) == IF line.channel = ch THEN line.addrs ELSE <<>>
<1>1. PICK lines \in env.chalias \cup env.chalias2 :
          found = FlattenSeq([i \in DOMAIN lines |-> addrs(lines[i])])
  <2>1. PICK lines \in (IF env.chalias # {} THEN env.chalias ELSE env.chalias2) :
            found = FlattenSeq([i \in DOMAIN lines |-> addrs(lines[i])])
    BY DEF ChaliasLookup
  <2> QED BY <2>1
<1>2. lines \in Seq(Channel)
  BY <1>1, EnvAssumption
<1> DEFINE n == Len(lines)
           V == Seq(Address)
<1>3. n \in Nat /\ DOMAIN lines = 1..n /\ \A i \in 1..n : lines[i] \in Channel
  BY <1>2
<1>4. \A line \in Channel : addrs(line) \in V
  BY DEF Channel
<1>5. \A i \in 1..n : addrs(lines[i]) \in V
  BY <1>3, <1>4
<1> HIDE DEF n, V, addrs
<1>6. [i \in 1..n |-> addrs(lines[i])] \in Seq(V)
  BY <1>3, <1>5
<1>7. FlattenSeq([i \in 1..n |-> addrs(lines[i])]) \in Seq(Address)
  BY <1>6, FlattenType DEF V
<1> QED BY <1>1, <1>3, <1>7

LEMMA ChanMid ==
    ASSUME env \in Envs, NEW ch
    PROVE  ChanItems(ch) \in Seq(MidItem) /\ XchanItems(ch) \in Seq(MidItem)
<1> DEFINE found == ChaliasLookup(env.chalias, env.chalias2, ch)
           one(a) == IF a.form = "xs" THEN <<Usage>> ELSE SockItems("sock_in", a)
<1>1. CASE found \in {{}, {<<>>}}
  <2>1. ChanItems(ch) = <<Usage>> /\ XchanItems(ch) = <<Usage>>
    BY <1>1 DEF ChanItems, XchanItems
  <2> QED BY <2>1, UsageMid
<1>2. CASE ~(found \in {{}, {<<>>}})
  <2> DEFINE s == The(found)
             n == Len(s)
  <2>1. s \in found
    BY <1>2 DEF The
  <2>2. s \in Seq(Address)
    BY <2>1, ChaliasType
  <2>3. n \in Nat /\ DOMAIN s = 1..n /\ \A i \in 1..n : s[i] \in Address
    BY <2>2
  <2>4. ChanItems(ch) = FlattenSeq([i \in 1..n |-> one(s[i])])
    BY <1>2, <2>3 DEF ChanItems
  <2>5. XchanItems(ch) = [i \in 1..n |-> XsItem("xs_in", s[i].opts)]
    BY <1>2, <2>3 DEF XchanItems
  <2>6. \A a \in Address : one(a) \in Seq(MidItem) /\ a.opts \in Seq(STRING)
    <3>1. ASSUME NEW a \in Address PROVE one(a) \in Seq(MidItem)
      <4>1. <<Usage>> \in Seq(MidItem)
        BY UsageMid
      <4>2. SockItems("sock_in", a) \in Seq(MidItem)
        BY SockMid
      <4> QED BY <4>1, <4>2
    <3>2. \A a \in Address : a.opts \in Seq(STRING)
      BY DEF Address
    <3> QED BY <3>1, <3>2
  <2>7. \A i \in 1..n : one(s[i]) \in Seq(MidItem)
    BY <2>3, <2>6
  <2>8. \A i \in 1..n : XsItem("xs_in", s[i].opts) \in MidItem
    BY <2>3, <2>6, XsMid
  <2> HIDE DEF one, n, s
  <2>9. FlattenSeq([i \in 1..n |-> one(s[i])]) \in Seq(MidItem)
    <3>1. PICK f : f = [i \in 1..n |-> one(s[i])]
      OBVIOUS
    <3>2. DOMAIN f = 1..n /\ f = [i \in 1..n |-> f[i]]
      BY <3>1
    <3>3. \A i \in 1..n : f[i] \in Seq(MidItem)
      BY <3>1, <2>7
    <3>4. FlattenSeq(f) \in Seq(MidItem)
      BY <2>3, <3>2, <3>3, EachMid
    <3> QED BY <3>1, <3>4
  <2>10. [i \in 1..n |-> XsItem("xs_in", s[i].opts)] \in Seq(MidItem)
    BY <2>3, <2>8
  <2> QED BY <2>4, <2>5, <2>9, <2>10
<1> QED BY <1>1, <1>2

\* The stages of the script, in order; which of them a command line has.
LEMMA ScriptOrder ==
    ASSUME env \in Envs, NEW c \in Commands
    PROVE  /\ InOrder(Script(c))
           /\ c.user # "none" <=> 3 \in Ranks(Script(c))
           /\ 2 \in Ranks(Script(c)) => 7 \in Ranks(Script(c))
           /\ ~c.daemon => 6 \notin Ranks(Script(c))
<1>1. /\ c.rIf \in Seq(File) /\ c.rPcap \in Seq(File) /\ c.rNmsg \in Seq(File)
      /\ c.wNmsg \in Seq(File) /\ c.rPres \in Seq(File) /\ c.wPres \in Seq(File)
      /\ c.rSock \in Seq(Address) /\ c.wSock \in Seq(Address)
      /\ c.rXs \in Seq(Seq(STRING)) /\ c.wXs \in Seq(Seq(STRING))
      /\ c.rChan \in Seq(STRING) /\ c.rXchan \in Seq(STRING)
      /\ c.pidfile \in BOOLEAN /\ c.daemon \in BOOLEAN
  BY ToolAssumption DEF Command
<1> DEFINE sIn == FlattenSeq([i \in DOMAIN c.rSock |-> SockItems("sock_in", c.rSock[i])])
           sOut == FlattenSeq([i \in DOMAIN c.wSock |-> SockItems("sock_out", c.wSock[i])])
           xIn == FlattenSeq([i \in DOMAIN c.rXs |-> <<XsItem("xs_in", c.rXs[i])>>])
           xOut == FlattenSeq([i \in DOMAIN c.wXs |-> <<XsItem("xs_out", c.wXs[i])>>])
           chan == FlattenSeq([i \in DOMAIN c.rChan |-> ChanItems(c.rChan[i])])
           xchan == FlattenSeq([i \in DOMAIN c.rXchan |-> XchanItems(c.rXchan[i])])
           xsInit == Only(c.rXs \o c.wXs \o c.rXchan # <<>>, "xs_init")
<1>2. sIn \in Seq(MidItem)
  <2> DEFINE f == [i \in DOMAIN c.rSock |-> SockItems("sock_in", c.rSock[i])]
             n == Len(c.rSock)
  <2>1. n \in Nat /\ DOMAIN f = 1..n /\ f = [i \in 1..n |-> f[i]]
    BY <1>1
  <2>2. \A i \in 1..n : c.rSock[i] \in Address
    BY <1>1
  <2>3. \A i \in 1..n : f[i] \in Seq(MidItem)
    BY <2>1, <2>2, SockMid
  <2> HIDE DEF f, n
  <2>4. FlattenSeq(f) \in Seq(MidItem)
    BY <2>1, <2>3, EachMid
  <2> QED BY <2>4 DEF f
<1>3. sOut \in Seq(MidItem)
  <2> DEFINE f == [i \in DOMAIN c.wSock |-> SockItems("sock_out", c.wSock[i])]
             n == Len(c.wSock)
  <2>1. n \in Nat /\ DOMAIN f = 1..n /\ f = [i \in 1..n |-> f[i]]
    BY <1>1
  <2>2. \A i \in 1..n : c.wSock[i] \in Address
    BY <1>1
  <2>3. \A i \in 1..n : f[i] \in Seq(MidItem)
    BY <2>1, <2>2, SockMid
  <2> HIDE DEF f, n
  <2>4. FlattenSeq(f) \in Seq(MidItem)
    BY <2>1, <2>3, EachMid
  <2> QED BY <2>4 DEF f
<1>4. ASSUME NEW xs \in Seq(Seq(STRING)), NEW op \in {"xs_in", "xs_out"}
      PROVE  FlattenSeq([i \in DOMAIN xs |-> <<XsItem(op, xs[i])>>]) \in Seq(MidItem)
  <2> DEFINE f == [i \in DOMAIN xs |-> <<XsItem(op, xs[i])>>]
             n == Len(xs)
  <2>1. n \in Nat /\ DOMAIN f = 1..n /\ f = [i \in 1..n |-> f[i]]
    OBVIOUS
  <2>2. \A i \in 1..n : xs[i] \in Seq(STRING)
    OBVIOUS
  <2>3. ASSUME NEW i \in 1..n PROVE f[i] \in Seq(MidItem)
    <3>1. XsItem(op, xs[i]) \in MidItem
      BY <2>2, XsMid
    <3>2. <<XsItem(op, xs[i])>> \in Seq(MidItem)
      BY <3>1
    <3> QED BY <3>2, <2>1
  <2> HIDE DEF f, n
  <2>4. FlattenSeq(f) \in Seq(MidItem)
    BY <2>1, <2>3, EachMid
  <2> QED BY <2>4 DEF f
<1>5. xIn \in Seq(MidItem) /\ xOut \in Seq(MidItem)
  BY <1>1, <1>4
<1>6. chan \in Seq(MidItem)
  <2> DEFINE f == [i \in DOMAIN c.rChan |-> ChanItems(c.rChan[i])]
             n == Len(c.rChan)
  <2>1. n \in Nat /\ DOMAIN f = 1..n /\ f = [i \in 1..n |-> f[i]]
    BY <1>1
  <2>3. \A i \in 1..n : f[i] \in Seq(MidItem)
    BY <2>1, ChanMid
  <2> HIDE DEF f, n
  <2>4. FlattenSeq(f) \in Seq(MidItem)
    BY <2>1, <2>3, EachMid
  <2> QED BY <2>4 DEF f
<1>7. xchan \in Seq(MidItem)
  <2> DEFINE f == [i \in DOMAIN c.rXchan |-> XchanItems(c.rXchan[i])]
             n == Len(c.rXchan)
  <2>1. n \in Nat /\ DOMAIN f = 1..n /\ f = [i \in 1..n |-> f[i]]
    BY <1>1
  <2>3. \A i \in 1..n : f[i] \in Seq(MidItem)
    BY <2>1, ChanMid
  <2> HIDE DEF f, n
  <2>4. FlattenSeq(f) \in Seq(MidItem)
    BY <2>1, <2>3, EachMid
  <2> QED BY <2>4 DEF f
<1>8. xsInit \in Seq(MidItem)
  <2>1. [op |-> "xs_init"] \in MidItem
    BY DEF MidItem
  <2>2. <<[op |-> "xs_init"]>> \in Seq(MidItem) /\ <<>> \in Seq(MidItem)
    BY <2>1
  <2> QED BY <2>2 DEF Only
<1> DEFINE s2 == Map("if", c.rIf) \o Only(c.pidfile, "pidfile")
           s3 == s2 \o Only(c.user # "none", "droproot")
           s4 == s3 \o Map("pcap", c.rPcap)
           s5 == s4 \o xsInit
           s6 == s5 \o sIn
           s7 == s6 \o sOut
           s8 == s7 \o xIn
           s9 == s8 \o xOut
           s10 == s9 \o Map("file_in", c.rNmsg)
           s11 == s10 \o Map("file_out", c.wNmsg)
           s12 == s11 \o chan
           s13 == s12 \o xchan
           s14 == s13 \o Map("pres_in", c.rPres)
           s15 == s14 \o Map("pres_out", c.wPres)
           s16 == s15 \o <<[op |-> "validate"]>>
           s17 == s16 \o Only(c.daemon, "daemonize")
           s18 == s17 \o Only(c.pidfile, "pid")
           s19 == s18 \o <<[op |-> "signals"]>>
           R3 == (IF c.pidfile THEN {2} ELSE {}) \cup (IF c.user # "none" THEN {3} ELSE {})
<1>9. Script(c) = s19
  BY DEF Script, Each
<1>10. InOrder(s3) /\ Ranks(s3) \subseteq 1..3
       /\ (2 \in Ranks(s3) <=> c.pidfile) /\ (3 \in Ranks(s3) <=> c.user # "none")
  <2>1. InOrder(Map("if", c.rIf)) /\ Ranks(Map("if", c.rIf)) \subseteq {1}
    BY <1>1, MapIf
  <2>2. /\ InOrder(Only(c.pidfile, "pidfile"))
        /\ Ranks(Only(c.pidfile, "pidfile")) = IF c.pidfile THEN {2} ELSE {}
    BY <1>1, OnlyOrder, RankFacts
  <2>3. InOrder(s2) /\ Ranks(s2) = Ranks(Map("if", c.rIf)) \cup Ranks(Only(c.pidfile, "pidfile"))
    <3>1. \A a \in Ranks(Map("if", c.rIf)), b \in Ranks(Only(c.pidfile, "pidfile")) : a <= b
      BY <2>1, <2>2
    <3> QED BY <3>1, <2>1, <2>2, JoinOrder
  <2>4. Ranks(s2) \subseteq 1..2 /\ (2 \in Ranks(s2) <=> c.pidfile)
    BY <2>1, <2>2, <2>3
  <2>5. /\ InOrder(Only(c.user # "none", "droproot"))
        /\ Ranks(Only(c.user # "none", "droproot")) = IF c.user # "none" THEN {3} ELSE {}
    <3>1. PICK b \in BOOLEAN : b = (c.user # "none")
      OBVIOUS
    <3>2. InOrder(Only(b, "droproot")) /\ Ranks(Only(b, "droproot")) = IF b THEN {3} ELSE {}
      BY OnlyOrder, RankFacts
    <3> QED BY <3>1, <3>2
  <2> HIDE DEF s2
  <2>6. InOrder(s3) /\ Ranks(s3) = Ranks(s2) \cup Ranks(Only(c.user # "none", "droproot"))
    <3>1. \A a \in Ranks(s2), b \in Ranks(Only(c.user # "none", "droproot")) : a <= b
      BY <2>4, <2>5
    <3> QED BY <3>1, <2>3, <2>5, JoinOrder
  <2> HIDE DEF s3
  <2> QED BY <2>4, <2>5, <2>6
<1>11. ASSUME NEW s, InOrder(s), Ranks(s) \subseteq 1..4, NEW t \in Seq(MidItem)
       PROVE  /\ InOrder(s \o t) /\ Ranks(s \o t) \subseteq 1..4
              /\ \A r \in 1..3 : r \in Ranks(s \o t) <=> r \in Ranks(s)
  <2>1. InOrder(t) /\ Ranks(t) \subseteq {4}
    BY MidOrder
  <2>2. \A a \in Ranks(s), b \in Ranks(t) : a <= b
    BY <1>11, <2>1
  <2>3. InOrder(s \o t) /\ Ranks(s \o t) = Ranks(s) \cup Ranks(t)
    BY <1>11, <2>1, <2>2, JoinOrder
  <2> QED BY <1>11, <2>1, <2>3
<1> DEFINE Mid(s) == /\ InOrder(s) /\ Ranks(s) \subseteq 1..4
                     /\ \A r \in 1..3 : r \in Ranks(s) <=> r \in Ranks(s3)
<1>12. ASSUME NEW s, Mid(s), NEW t \in Seq(MidItem) PROVE Mid(s \o t)
  BY <1>11, <1>12
<1>13. Mid(s3)
  BY <1>10
<1> HIDE DEF Mid, s3
<1>14. Mid(s15)
  <2> HIDE DEF xsInit, sIn, sOut, xIn, xOut, chan, xchan
  <2>1. /\ Map("pcap", c.rPcap) \in Seq(MidItem)
        /\ Map("file_in", c.rNmsg) \in Seq(MidItem) /\ Map("file_out", c.wNmsg) \in Seq(MidItem)
        /\ Map("pres_in", c.rPres) \in Seq(MidItem) /\ Map("pres_out", c.wPres) \in Seq(MidItem)
    BY <1>1, MapMid
  <2>2. Mid(s4)
    BY <1>12, <1>13, <2>1
  <2> HIDE DEF s4
  <2>3. Mid(s5)
    BY <1>12, <2>2, <1>8
  <2> HIDE DEF s5
  <2>4. Mid(s6)
    BY <1>12, <2>3, <1>2
  <2> HIDE DEF s6
  <2>5. Mid(s7)
    BY <1>12, <2>4, <1>3
  <2> HIDE DEF s7
  <2>6. Mid(s8)
    BY <1>12, <2>5, <1>5
  <2> HIDE DEF s8
  <2>7. Mid(s9)
    BY <1>12, <2>6, <1>5
  <2> HIDE DEF s9
  <2>8. Mid(s10)
    BY <1>12, <2>7, <2>1
  <2> HIDE DEF s10
  <2>9. Mid(s11)
    BY <1>12, <2>8, <2>1
  <2> HIDE DEF s11
  <2>10. Mid(s12)
    BY <1>12, <2>9, <1>6
  <2> HIDE DEF s12
  <2>11. Mid(s13)
    BY <1>12, <2>10, <1>7
  <2> HIDE DEF s13
  <2>12. Mid(s14)
    BY <1>12, <2>11, <2>1
  <2> HIDE DEF s14
  <2> QED BY <1>12, <2>12, <2>1
<1> HIDE DEF s15
<1>15. ASSUME NEW s, InOrder(s), NEW b \in BOOLEAN,
              NEW op \in {"validate", "daemonize", "pid", "signals"},
              \A r \in Ranks(s) : r <= Rank(op)
       PROVE  /\ InOrder(s \o Only(b, op))
              /\ Ranks(s \o Only(b, op)) = Ranks(s) \cup IF b THEN {Rank(op)} ELSE {}
  <2>1. InOrder(Only(b, op)) /\ Ranks(Only(b, op)) = IF b THEN {Rank(op)} ELSE {}
    BY <1>15, OnlyOrder
  <2>2. \A x \in Ranks(s), y \in Ranks(Only(b, op)) : x <= y
    BY <1>15, <2>1
  <2>3. InOrder(s \o Only(b, op)) /\ Ranks(s \o Only(b, op)) = Ranks(s) \cup Ranks(Only(b, op))
    BY <1>15, <2>1, <2>2, JoinOrder
  <2> QED BY <2>1, <2>3
<1>16. <<[op |-> "validate"]>> = Only(TRUE, "validate") /\ <<[op |-> "signals"]>> = Only(TRUE, "signals")
  BY DEF Only
<1>17. InOrder(s16) /\ Ranks(s16) = Ranks(s15) \cup {5} /\ Ranks(s16) \subseteq 1..5
  <2>1. InOrder(s15) /\ Ranks(s15) \subseteq 1..4
    BY <1>14 DEF Mid
  <2>2. \A r \in Ranks(s15) : r <= Rank("validate")
    BY <2>1, RankFacts
  <2>3. InOrder(s16) /\ Ranks(s16) = Ranks(s15) \cup {5}
    BY <2>1, <2>2, <1>15, <1>16, RankFacts
  <2> HIDE DEF s16
  <2> QED BY <2>1, <2>3
<1> HIDE DEF s16
<1>18. /\ InOrder(s17) /\ Ranks(s17) \subseteq 1..6
       /\ Ranks(s17) = Ranks(s16) \cup IF c.daemon THEN {6} ELSE {}
  <2>2. \A r \in Ranks(s16) : r <= Rank("daemonize")
    BY <1>17, RankFacts
  <2>3. InOrder(s17) /\ Ranks(s17) = Ranks(s16) \cup IF c.daemon THEN {6} ELSE {}
    BY <1>1, <1>17, <2>2, <1>15, RankFacts
  <2> HIDE DEF s17
  <2> QED BY <1>17, <2>3
<1> HIDE DEF s17
<1>19. /\ InOrder(s18) /\ Ranks(s18) \subseteq 1..7
       /\ Ranks(s18) = Ranks(s17) \cup IF c.pidfile THEN {7} ELSE {}
  <2>2. \A r \in Ranks(s17) : r <= Rank("pid")
    BY <1>18, RankFacts
  <2>3. InOrder(s18) /\ Ranks(s18) = Ranks(s17) \cup IF c.pidfile THEN {7} ELSE {}
    BY <1>1, <1>18, <2>2, <1>15, RankFacts
  <2> HIDE DEF s18
  <2> QED BY <1>18, <2>3
<1> HIDE DEF s18
<1>20. InOrder(s19) /\ Ranks(s19) = Ranks(s18) \cup {8}
  <2>2. \A r \in Ranks(s18) : r <= Rank("signals")
    BY <1>19, RankFacts
  <2> QED BY <1>19, <2>2, <1>15, <1>16, RankFacts
<1> HIDE DEF s19
<1>21. Ranks(s15) \subseteq 1..4 /\ \A r \in 1..3 : r \in Ranks(s15) <=> r \in Ranks(s3)
  BY <1>14 DEF Mid
<1>22. \A r \in 1..3 : r \in Ranks(s19) <=> r \in Ranks(s3)
  BY <1>17, <1>18, <1>19, <1>20, <1>21
<1>23. (3 \in Ranks(s19) <=> c.user # "none") /\ (2 \in Ranks(s19) <=> c.pidfile)
  BY <1>10, <1>22
<1>24. (c.pidfile => 7 \in Ranks(s19)) /\ (~c.daemon => 6 \notin Ranks(s19))
  BY <1>17, <1>18, <1>19, <1>20, <1>21
<1> QED BY <1>9, <1>20, <1>23, <1>24

LEMMA TailOrder ==
    ASSUME NEW s, InOrder(s), s # <<>>
    PROVE  /\ InOrder(Tail(s))
           /\ Ranks(s) = {Rank(Head(s).op)} \cup Ranks(Tail(s))
           /\ \A r \in Ranks(s) : Rank(Head(s).op) <= r
<1> DEFINE S == ScriptItem
           t == Tail(s)
<1>1. s \in Seq(S)
  BY DEF InOrder
<1> HIDE DEF S
<1>2. /\ t \in Seq(S) /\ Len(s) \in Nat \ {0} /\ DOMAIN s = 1..Len(s)
      /\ DOMAIN t = 1..(Len(s) - 1) /\ Head(s) = s[1]
      /\ \A i \in 1..(Len(s) - 1) : t[i] = s[i + 1]
  BY <1>1
<1> HIDE DEF t
<1>3. InOrder(t)
  <2>1. ASSUME NEW i \in DOMAIN t, NEW j \in DOMAIN t, i < j
        PROVE  Rank(t[i].op) <= Rank(t[j].op)
    <3>1. i + 1 \in DOMAIN s /\ j + 1 \in DOMAIN s /\ i + 1 < j + 1
      BY <1>2, <2>1
    <3> QED BY <3>1, <1>2 DEF InOrder
  <2> QED BY <1>2, <2>1 DEF InOrder, S
<1>4. Ranks(s) = {Rank(Head(s).op)} \cup Ranks(t)
  <2>1. ASSUME NEW i \in DOMAIN s PROVE Rank(s[i].op) \in {Rank(Head(s).op)} \cup Ranks(t)
    <3>1. CASE i = 1
      BY <3>1, <1>2
    <3>2. CASE i # 1
      <4>1. i - 1 \in DOMAIN t /\ t[i - 1] = s[i]
        BY <3>2, <1>2
      <4> QED BY <4>1 DEF Ranks
    <3> QED BY <3>1, <3>2
  <2>2. Rank(Head(s).op) \in Ranks(s)
    BY <1>2 DEF Ranks
  <2>3. ASSUME NEW i \in DOMAIN t PROVE Rank(t[i].op) \in Ranks(s)
    <3>1. i + 1 \in DOMAIN s /\ t[i] = s[i + 1]
      BY <1>2
    <3> QED BY <3>1 DEF Ranks
  <2> QED BY <2>1, <2>2, <2>3 DEF Ranks
<1>5. ASSUME NEW i \in DOMAIN s PROVE Rank(Head(s).op) <= Rank(s[i].op)
  <2>1. CASE i = 1
    <3>1. Rank(s[1].op) \in Int
      BY RankInt
    <3> QED BY <2>1, <3>1, <1>2
  <2>2. CASE i # 1
    BY <2>2, <1>2 DEF InOrder
  <2> QED BY <2>1, <2>2
<1> QED BY <1>3, <1>4, <1>5 DEF t, Ranks

\* open() takes the lowest descriptor that is free.
LEMMA FreeFdIs ==
    ASSUME FreeFds # {}
    PROVE  FreeFd \in FreeFds /\ FreeFd \in 0..MaxFd /\ \A d \in FreeFds : FreeFd <= d
<1>1. FreeFds \subseteq 0..MaxFd /\ MaxFd \in Nat
  BY ToolAssumption DEF FreeFds
<1>2. FreeFds \subseteq Nat
  BY <1>1
<1>3. \E x \in FreeFds : \A y \in FreeFds : x <= y
  BY <1>2, LeastNat
<1>4. FreeFd \in FreeFds /\ \A d \in FreeFds : FreeFd <= d
  BY <1>3 DEF FreeFd, Min
<1> QED BY <1>1, <1>4

-----------------------------------------------------------------------------
(***************************************************************************)
(* The order of the set-up                                                 *)
(***************************************************************************)
Maker == {"shell", "pidfile", "interface", "input", "output"}
Made == [by : Maker, uid : {"root", "user"}]

AskedTypes ==
    /\ cmd \in Commands /\ env \in Envs
    /\ pidfile \in [state : {"none", "open", "parent", "child"}, fd : Int]
    /\ process \in {"parent", "child"} /\ uid \in {"root", "user"}
    /\ made \in Seq(Made)

\* What process_args() has still to do.
Planned ==
    /\ InOrder(todo)
    /\ IF cmd.user = "none" THEN uid = "root" /\ 3 \notin Ranks(todo)
       ELSE uid = "user" \/ 3 \in Ranks(todo)
    /\ 2 \in Ranks(todo) => 7 \in Ranks(todo)
    /\ pidfile.state = "open" => 7 \in Ranks(todo)
    /\ pidfile.state \in {"parent", "child"} =>
         pidfile.state = process /\ \A r \in Ranks(todo) : r >= 7

\* Who opened what.
OpenedBy ==
    \A b \in DOMAIN made :
        made[b].uid = "user" \/ made[b].by \in {"shell", "pidfile", "interface"}

\* The inductive invariant of RunsAsAsked.
AskedInv ==
    /\ AskedTypes
    /\ phase \in {"start", "args"} => uid = "root" /\ pidfile.state = "none" /\ OpenedBy
    /\ phase = "setup" => Planned
    /\ cmd.user # "none" /\ phase \in {"setup", "running"} => OpenedBy
    /\ phase = "running" => /\ uid = (IF cmd.user = "none" THEN "root" ELSE "user")
                            /\ pidfile.state \in {"none", process}

LEMMA AskedInit == Init => AskedInv
<1> SUFFICES ASSUME Init PROVE AskedInv
  OBVIOUS
<1>1. made = [i \in 1..3 |-> [by |-> "shell", uid |-> "root"]]
  BY DEF Init
<1>2. made \in Seq(Made)
  <2> DEFINE r == [by |-> "shell", uid |-> "root"]
             S == Made
  <2>1. r \in S
    BY DEF Made, Maker
  <2>2. made = [i \in 1..3 |-> r]
    BY <1>1
  <2> HIDE DEF r, S
  <2>3. [i \in 1..3 |-> r] \in Seq(S)
    BY <2>1
  <2> QED BY <2>2, <2>3 DEF S
<1>3. OpenedBy
  BY <1>1 DEF OpenedBy
<1> QED BY <1>2, <1>3 DEF Init, AskedInv, AskedTypes

\* The next item is done: nothing before its stage is left.
LEMMA ItemDone ==
    ASSUME AskedInv, phase = "setup", todo # <<>>
    PROVE  /\ InOrder(Tail(todo)) /\ Ranks(Tail(todo)) \subseteq Ranks(todo)
           /\ \A r \in Ranks(todo) : r = Rank(Head(todo).op) \/ r \in Ranks(Tail(todo))
           /\ \A r \in Ranks(todo) : Rank(Head(todo).op) <= r
           /\ Rank(Head(todo).op) \in 1..8
           /\ Rank(Head(todo).op) \in Ranks(todo)
           /\ Ranks(todo) \subseteq 1..8
           /\ Rank(Head(todo).op) >= 4 => uid = (IF cmd.user = "none" THEN "root" ELSE "user")
<1>1. InOrder(todo)
  BY DEF AskedInv, Planned
<1>2. /\ InOrder(Tail(todo)) /\ Ranks(todo) = {Rank(Head(todo).op)} \cup Ranks(Tail(todo))
      /\ \A r \in Ranks(todo) : Rank(Head(todo).op) <= r
  BY <1>1, TailOrder
<1>3. Rank(Head(todo).op) \in 1..8 /\ Ranks(todo) \subseteq 1..8
  BY RankInt DEF Ranks
<1>4. Rank(Head(todo).op) >= 4 => 3 \notin Ranks(todo)
  BY <1>2, <1>3
<1> QED BY <1>2, <1>3, <1>4 DEF AskedInv, Planned

\* A step of the set-up that leaves the process as it is.
LEMMA PlainItem ==
    ASSUME AskedInv, phase = "setup", todo # <<>>, Rank(Head(todo).op) \in {1, 4, 5},
           todo' = Tail(todo), phase' = phase, UNCHANGED <<envVars, uid, process, pidfile>>,
           made' \in Seq(Made),
           cmd.user # "none" => OpenedBy'
    PROVE  AskedInv'
<1>1. AskedTypes'
  BY DEF AskedInv, AskedTypes, envVars
<1>2. Planned'
  BY ItemDone DEF AskedInv, Planned, envVars
<1> QED BY <1>1, <1>2 DEF AskedInv, envVars

\* An object that process_args() opens.
LEMMA MadeMore ==
    ASSUME AskedInv, NEW by \in Maker,
           made' = Append(made, [by |-> by, uid |-> uid]) \/ made' = made
    PROVE  /\ made' \in Seq(Made)
           /\ OpenedBy /\ (uid = "user" \/ by \in {"pidfile", "interface"}) => OpenedBy'
<1> DEFINE new == [by |-> by, uid |-> uid]
           S == Made
<1>1. made \in Seq(S) /\ new \in S
  BY DEF AskedInv, AskedTypes, Made
<1>2. new.by = by /\ new.uid = uid
  OBVIOUS
<1>3. CASE made' = made
  BY <1>1, <1>3 DEF OpenedBy
<1>4. CASE made' = Append(made, new)
  <2> HIDE DEF new, S
  <2>1. /\ made' \in Seq(S) /\ DOMAIN made' = 1..(Len(made) + 1) /\ Len(made) \in Nat
        /\ DOMAIN made = 1..Len(made)
        /\ \A i \in 1..Len(made) : made'[i] = made[i]
        /\ made'[Len(made) + 1] = new
    BY <1>1, <1>4
  <2>2. \A i \in DOMAIN made' : i \in DOMAIN made \/ i = Len(made) + 1
    BY <2>1
  <2>3. ASSUME OpenedBy, uid = "user" \/ by \in {"pidfile", "interface"} PROVE OpenedBy'
    BY <2>1, <2>2, <2>3, <1>2 DEF OpenedBy
  <2> QED BY <2>1, <2>3 DEF S
<1> QED BY <1>3, <1>4

\* The same when the step only passes over its item.
LEMMA QuietItem ==
    ASSUME AskedInv, phase = "setup", todo # <<>>, Rank(Head(todo).op) \in {1, 4, 5},
           todo' = Tail(todo), phase' = phase, UNCHANGED <<envVars, uid, process, pidfile, made>>
    PROVE  AskedInv'
<1>1. made' \in Seq(Made) /\ (cmd.user # "none" => OpenedBy')
  BY DEF AskedInv, AskedTypes, OpenedBy, Made
<1> QED BY <1>1, PlainItem

\* An item that opens something.
LEMMA OpenItem ==
    ASSUME AskedInv, phase = "setup", todo # <<>>, Rank(Head(todo).op) \in {1, 4, 5},
           todo' = Tail(todo), phase' = phase, UNCHANGED <<envVars, uid, process, pidfile>>,
           NEW by \in Maker, Rank(Head(todo).op) = 1 => by = "interface",
           made' = Append(made, [by |-> by, uid |-> uid]) \/ made' = made
    PROVE  AskedInv'
<1>1. made' \in Seq(Made)
      /\ (OpenedBy /\ (uid = "user" \/ by \in {"pidfile", "interface"}) => OpenedBy')
  BY MadeMore
<1>2. ASSUME cmd.user # "none" PROVE OpenedBy'
  <2>1. OpenedBy
    BY <1>2 DEF AskedInv
  <2>2. Rank(Head(todo).op) >= 4 => uid = "user"
    BY ItemDone, <1>2
  <2>3. Rank(Head(todo).op) = 1 \/ Rank(Head(todo).op) >= 4
    OBVIOUS
  <2> QED BY <1>1, <2>1, <2>2, <2>3
<1> QED BY <1>1, <1>2, PlainItem

\* A step that leaves the process as it is, or ends it.
LEMMA AskedQuiet ==
    ASSUME AskedInv, UNCHANGED <<envVars, uid, process, made, todo>>,
           phase' \notin {"start", "args"},
           \/ phase' \in {"setup", "running"} /\ UNCHANGED <<phase, pidfile>>
           \/ phase' \notin {"setup", "running"} /\ pidfile' = pidfile
           \/ phase' \notin {"setup", "running"} /\ pidfile' = [pidfile EXCEPT !.state = "none"]
    PROVE  AskedInv'
<1>1. AskedTypes'
  BY DEF AskedInv, AskedTypes, envVars
<1>2. phase' = "setup" => Planned'
  BY DEF AskedInv, Planned, envVars
<1>3. cmd'.user # "none" /\ phase' \in {"setup", "running"} => OpenedBy'
  BY DEF AskedInv, OpenedBy, envVars
<1>4. phase' = "running" => UNCHANGED <<phase, pidfile>>
  OBVIOUS
<1> QED BY <1>1, <1>2, <1>3, <1>4 DEF AskedInv, envVars

LEMMA AskedStep == ASSUME AskedInv, [Next]_vars PROVE AskedInv'
<1> USE DEF Item, Next1, envVars, procVars, fileVars, ioVars, histVars
<1>1. CASE Start
  BY <1>1 DEF Start, AskedInv, AskedTypes, OpenedBy, Planned
<1>2. CASE Settings
  <2>1. env \in Envs /\ cmd \in Commands /\ uid = "root" /\ pidfile.state = "none" /\ OpenedBy
        /\ UNCHANGED <<envVars, uid, process, pidfile, made>>
    BY <1>2 DEF Settings, AskedInv, AskedTypes
  <2>2. AskedTypes' /\ OpenedBy'
    BY <2>1 DEF AskedInv, AskedTypes, OpenedBy
  <2>3. CASE phase' = "setup" /\ todo' = Script(cmd)
    <3>1. /\ InOrder(todo')
          /\ cmd.user # "none" <=> 3 \in Ranks(todo')
          /\ 2 \in Ranks(todo') => 7 \in Ranks(todo')
      BY <2>1, <2>3, ScriptOrder
    <3>2. Planned'
      BY <3>1, <2>1 DEF Planned
    <3> QED BY <2>1, <2>2, <2>3, <3>2 DEF AskedInv
  <2>4. CASE phase' \in {"ending", "crashed"}
    BY <2>2, <2>4 DEF AskedInv
  <2>5. phase' \in {"ending", "crashed"} \/ (phase' = "setup" /\ todo' = Script(cmd))
    BY <1>2 DEF Settings, UsageExit
  <2> QED BY <2>3, <2>4, <2>5
<1>3. CASE AddPcapifInput \/ AddPcapfileInput \/ AddSockInput \/ AddXsockInput
           \/ AddFileInput \/ AddPresInput
  <2>1. /\ phase = "setup" /\ todo # <<>> /\ todo' = Tail(todo) /\ phase' = phase
        /\ UNCHANGED <<envVars, uid, process, pidfile>>
        /\ Head(todo).op \in {"if", "pcap", "sock_in", "xs_in", "file_in", "pres_in"}
        /\ \E by \in {"interface", "input"} :
             /\ Head(todo).op = "if" => by = "interface"
             /\ made' = Append(made, [by |-> by, uid |-> uid]) \/ made' = made
    BY <1>3 DEF AddPcapifInput, AddPcapfileInput, AddSockInput, AddXsockInput,
                AddFileInput, AddPresInput, OpenRfile, NewInput, NewObject
  <2>2. Rank(Head(todo).op) \in {1, 4, 5} /\ (Rank(Head(todo).op) = 1 => Head(todo).op = "if")
    BY <2>1, RankFacts
  <2>3. PICK by \in {"interface", "input"} :
             /\ Head(todo).op = "if" => by = "interface"
             /\ made' = Append(made, [by |-> by, uid |-> uid]) \/ made' = made
    BY <2>1
  <2>4. by \in Maker
    BY <2>3 DEF Maker
  <2> QED BY <2>1, <2>2, <2>3, <2>4, OpenItem
<1>4. CASE AddSockOutput \/ AddXsockOutput \/ AddFileOutput \/ AddPresOutput
           \/ (Validate /\ phase' = phase) \/ XsInit
  <2>1. /\ phase = "setup" /\ todo # <<>> /\ todo' = Tail(todo) /\ phase' = phase
        /\ UNCHANGED <<envVars, uid, process, pidfile>>
        /\ Head(todo).op \in {"sock_out", "xs_out", "file_out", "pres_out", "validate", "xs_init"}
        /\ made' = Append(made, [by |-> "output", uid |-> uid]) \/ made' = made
    BY <1>4 DEF AddSockOutput, AddXsockOutput, AddFileOutput, AddPresOutput, Validate, XsInit,
                AddWfile, OpenWfile, NewObject, UsageExit
  <2>2. Rank(Head(todo).op) \in {4, 5}
    BY <2>1, RankFacts
  <2>3. PICK by \in Maker : by = "output"
    BY DEF Maker
  <2>4. made' = Append(made, [by |-> by, uid |-> uid]) \/ made' = made
    BY <2>1, <2>3
  <2>5. Rank(Head(todo).op) \in {1, 4, 5} /\ (Rank(Head(todo).op) = 1 => by = "interface")
    BY <2>2
  <2> QED BY <2>1, <2>4, <2>5, OpenItem
<1>5. CASE PidfileOpen
  <2>1. /\ phase = "setup" /\ todo # <<>> /\ todo' = Tail(todo) /\ phase' = phase
        /\ UNCHANGED <<envVars, uid, process>> /\ Head(todo).op = "pidfile"
        /\ \/ made' = Append(made, [by |-> "pidfile", uid |-> uid])
              /\ pidfile' = [state |-> "open", fd |-> FreeFd] /\ FreeFds # {}
           \/ made' = made /\ pidfile' = pidfile
    BY <1>5 DEF PidfileOpen, NewObject
  <2>2. PICK by \in Maker : by = "pidfile"
    BY DEF Maker
  <2>3. made' = Append(made, [by |-> by, uid |-> uid]) \/ made' = made
    BY <2>1, <2>2
  <2>4. made' \in Seq(Made) /\ (OpenedBy => OpenedBy')
    BY <2>2, <2>3, MadeMore
  <2>5. FreeFds # {} => FreeFd \in Int
    BY FreeFdIs, ToolAssumption
  <2>6. pidfile' \in [state : {"none", "open", "parent", "child"}, fd : Int]
        /\ (pidfile' = pidfile \/ pidfile'.state = "open")
    BY <2>1, <2>5 DEF AskedInv, AskedTypes
  <2>7. Rank(Head(todo).op) = 2
    BY <2>1, RankFacts
  <2>8. 2 \in Ranks(todo) /\ 7 \in Ranks(Tail(todo))
    BY <2>7, <2>1, ItemDone DEF AskedInv, Planned
  <2>9. AskedTypes'
    BY <2>1, <2>4, <2>6 DEF AskedInv, AskedTypes
  <2>10. Planned'
    BY <2>1, <2>6, <2>7, <2>8, ItemDone DEF AskedInv, Planned
  <2> QED BY <2>1, <2>4, <2>9, <2>10 DEF AskedInv
<1>6. CASE DropRoot
  <2>1. /\ phase = "setup" /\ todo # <<>> /\ todo' = Tail(todo) /\ phase' = phase /\ uid' = "user"
        /\ UNCHANGED <<envVars, made, pidfile, process>> /\ Head(todo).op = "droproot"
    BY <1>6 DEF DropRoot
  <2>2. Rank(Head(todo).op) = 3
    BY <2>1, RankFacts
  <2>3. Planned'
    BY <2>1, <2>2, ItemDone DEF AskedInv, Planned
  <2> QED BY <2>1, <2>3 DEF AskedInv, AskedTypes, OpenedBy
<1>7. CASE Daemonize
  <2>1. /\ phase = "setup" /\ todo # <<>> /\ todo' = Tail(todo) /\ phase' = phase
        /\ process' = "child"
        /\ UNCHANGED <<envVars, made, pidfile, uid>> /\ Head(todo).op = "daemonize"
    BY <1>7 DEF Daemonize
  <2>2. Rank(Head(todo).op) = 6
    BY <2>1, RankFacts
  <2>3. Planned'
    BY <2>1, <2>2, ItemDone DEF AskedInv, Planned
  <2> QED BY <2>1, <2>3 DEF AskedInv, AskedTypes, OpenedBy
<1>8. CASE PidfileWrite
  <2>1. /\ phase = "setup" /\ todo # <<>> /\ todo' = Tail(todo) /\ phase' = phase
        /\ UNCHANGED <<envVars, made, process, uid>> /\ Head(todo).op = "pid"
        /\ IF pidfile.state = "open" THEN pidfile' = [state |-> process, fd |-> -1]
           ELSE pidfile' = pidfile
    BY <1>8 DEF PidfileWrite
  <2>2. Rank(Head(todo).op) = 7
    BY <2>1, RankFacts
  <2>3. pidfile' \in [state : {"none", "open", "parent", "child"}, fd : Int]
        /\ pidfile'.state # "open" /\ (pidfile'.state = "none" \/ pidfile'.state = process
                                        \/ pidfile' = pidfile)
    BY <2>1 DEF AskedInv, AskedTypes
  <2>4. Planned'
    BY <2>1, <2>2, <2>3, ItemDone DEF AskedInv, Planned
  <2> QED BY <2>1, <2>3, <2>4 DEF AskedInv, AskedTypes, OpenedBy
<1>9. CASE Signals
  <2>1. /\ phase = "setup" /\ todo # <<>> /\ todo' = <<>> /\ phase' = "running"
        /\ UNCHANGED <<envVars, made, process, uid, pidfile>> /\ Head(todo).op = "signals"
    BY <1>9 DEF Signals
  <2>2. Rank(Head(todo).op) = 8
    BY <2>1, RankFacts
  <2>3. uid = (IF cmd.user = "none" THEN "root" ELSE "user")
    BY <2>1, <2>2, ItemDone
  <2>4. pidfile.state \in {"none", process}
    BY <2>1, <2>2, ItemDone DEF AskedInv, Planned, AskedTypes
  <2> QED BY <2>1, <2>3, <2>4 DEF AskedInv, AskedTypes, OpenedBy
<1>10. CASE (Validate /\ phase' # phase) \/ UsageItem \/ ItemFails \/ Exit
  BY <1>10, AskedQuiet DEF Validate, UsageItem, ItemFails, Exit, UsageExit
<1>11. CASE LoopEnds
  BY <1>11, AskedQuiet DEF LoopEnds
<1>12. ASSUME NEW i \in DOMAIN inputs, InputEof(i) PROVE AskedInv'
  BY <1>12, AskedQuiet DEF InputEof
<1>13. ASSUME NEW o \in DOMAIN outputs, Write(o) \/ CloseOutput(o) \/ EndOutput(o) PROVE AskedInv'
  BY <1>13, AskedQuiet DEF Write, CloseOutput, EndOutput
<1>14. ASSUME NEW o \in DOMAIN outputs, phase \in {"running", "ending"}, Exec(o) PROVE AskedInv'
  BY <1>14, AskedQuiet DEF Exec
<1>15. ASSUME NEW o \in DOMAIN outputs, phase \in {"running", "ending"}, Reopen(o) PROVE AskedInv'
  <2>1. /\ phase' = phase \/ phase' = "exited"
        /\ UNCHANGED <<envVars, process, uid, pidfile, todo>>
        /\ made' = Append(made, [by |-> "output", uid |-> uid]) \/ made' = made
    BY <1>15 DEF Reopen, OpenWfile
  <2>2. PICK by \in Maker : by = "output"
    BY DEF Maker
  <2>3. made' = Append(made, [by |-> by, uid |-> uid]) \/ made' = made
    BY <2>1, <2>2
  <2>4. made' \in Seq(Made) /\ (OpenedBy /\ uid = "user" => OpenedBy')
    BY <2>2, <2>3, MadeMore
  <2> QED BY <1>15, <2>1, <2>4 DEF AskedInv, AskedTypes
<1>16. CASE EndInputs \/ Terminated
  BY <1>16, AskedQuiet DEF EndInputs, Terminated, vars
<1>17. CASE UNCHANGED vars
  BY <1>17 DEF vars, AskedInv, AskedTypes, Planned, OpenedBy
<1> QED
  BY <1>1, <1>2, <1>3, <1>4, <1>5, <1>6, <1>7, <1>8, <1>9, <1>10, <1>11, <1>12, <1>13, <1>14,
     <1>15, <1>16, <1>17 DEF Next

\* With -U nothing but interfaces and the pidfile is opened as root, however the
\* command line is put together, and the pidfile holds the pid of the process that
\* runs: process_args() keeps its order.
THEOREM RunsAsAskedAlways == Spec => []RunsAsAsked
<1>1. Init => AskedInv
  BY AskedInit
<1>2. AskedInv /\ [Next]_vars => AskedInv'
  BY AskedStep
<1>3. AskedInv => RunsAsAsked
  BY DEF AskedInv, RunsAsAsked, OpenedBy
<1> QED BY <1>1, <1>2, <1>3, PTL DEF Spec

-----------------------------------------------------------------------------
(***************************************************************************)
(* The alias files                                                         *)
(***************************************************************************)
Name == STRING \cup {NoName}
Table == {t \in [ready : {TRUE}, max : Nat, value : UNION {[0..m -> Name] : m \in Nat}] :
            t.value \in [0..t.max -> Name]}
Reading == [al : Table, res : {"ok", "failed", "crash"}]

\* A key so large that the size of the array wraps.
Huge(lines) == \E i \in DOMAIN lines : lines[i].key + 3 > UIntMax

\* Up to line i none is bad.
AllGood(lines, i) == \A j \in 1..i : lines[j] # BadLine

\* The first i lines are in the table, but for those that are behind a bad one and
\* those whose key is there again.
Stored(al, lines, i) ==
    \A j \in 1..i :
        AllGood(lines, j) /\ (\A k \in 1..i : AllGood(lines, k) /\ k > j => lines[k].key # lines[j].key)
        => lines[j].key <= al.max /\ al.value[lines[j].key] = lines[j].name

LEMMA NewTableType == NewTable \in Table
<1>1. SizeInit \in Nat
  BY AliasAssumption
<1>2. [k \in 0..SizeInit |-> NoName] \in [0..SizeInit -> Name]
  BY DEF Name
<1> QED BY <1>1, <1>2 DEF NewTable, Table

\* An unsigned number that wraps once at most.
LEMMA Wrapped ==
    ASSUME NEW a \in Nat, NEW b \in Nat \ {0}, a < 2 * b
    PROVE  a % b \in 0..(b - 1) /\ (a % b = a \/ a % b = a - b)
<1>1. CASE a < b
  BY <1>1
<1>2. CASE a >= b
  <2>1. a % b = a - b
    BY <1>2, Z3
  <2> QED BY <2>1
<1> QED BY <1>1, <1>2

\* The array after alias_resize(), and what it holds.
LEMMA GrownIs ==
    ASSUME NEW al \in Table, NEW key \in 0..UIntMax
    PROVE  /\ Grown(al, key) \in Table \/ Grown(al, key) = NoTable
           /\ key + 3 <= UIntMax =>
                /\ Grown(al, key) \in Table
                /\ key <= Grown(al, key).max /\ al.max <= Grown(al, key).max
                /\ \A k \in 0..al.max : Grown(al, key).value[k] = al.value[k]
<1> DEFINE n == (key + 1) % (UIntMax + 1)
           twice == (2 * al.max) % (UIntMax + 1)
           max == IF n > twice THEN (n + 1) % (UIntMax + 1) ELSE twice
           size == (max + 1) % (UIntMax + 1)
           value == [k \in 0..max |-> IF k <= al.max THEN al.value[k] ELSE NoName]
<1>1. al.max \in Nat /\ al.value \in [0..al.max -> Name] /\ al.ready = TRUE
      /\ al \in [ready : {TRUE}, max : Nat, value : UNION {[0..m -> Name] : m \in Nat}]
  BY DEF Table
<1>2. UIntMax \in Nat /\ UIntMax + 1 \in Nat \ {0} /\ key \in Nat /\ key + 1 \in Nat /\ 2 * al.max \in Nat
  BY <1>1, AliasAssumption
<1>3. \A a \in Nat, b \in Nat \ {0} : a % b \in 0..(b - 1) /\ (a < b => a % b = a)
  OBVIOUS
<1>4. n \in Nat /\ twice \in Nat
  BY <1>2, <1>3
<1>5. key + 2 <= UIntMax => n = key + 1 /\ (n + 1) % (UIntMax + 1) = n + 1
  <2>1. ASSUME key + 2 <= UIntMax PROVE n = key + 1
    <3>1. key + 1 \in Nat /\ key + 1 < UIntMax + 1
      BY <2>1, <1>2
    <3> QED BY <3>1, <1>2, <1>3
  <2>2. ASSUME key + 2 <= UIntMax PROVE (n + 1) % (UIntMax + 1) = n + 1
    <3>1. n + 1 \in Nat /\ n + 1 < UIntMax + 1
      BY <2>1, <2>2, <1>2
    <3> QED BY <3>1, <1>2, <1>3
  <2> QED BY <2>1, <2>2
<1>6. (n + 1) % (UIntMax + 1) \in Nat
  BY <1>2, <1>3, <1>4
<1> HIDE DEF n, twice
<1>7. max \in Nat /\ (key + 2 <= UIntMax => max >= n)
  BY <1>4, <1>5, <1>6
<1>13. key + 3 <= UIntMax /\ n > al.max => max < UIntMax
  <2> SUFFICES ASSUME key + 3 <= UIntMax, n > al.max PROVE max < UIntMax
    OBVIOUS
  <2>1. CASE n > twice
    BY <2>1, <1>2, <1>5
  <2>2. CASE ~(n > twice)
    <3>1. twice \in 0..(UIntMax + 1 - 1) /\ (twice = 2 * al.max \/ twice = 2 * al.max - (UIntMax + 1))
      <4>1. 2 * al.max < 2 * (UIntMax + 1)
        BY <1>1, <1>2, <1>5
      <4> QED BY <4>1, <1>2, Wrapped DEF twice
    <3>2. UIntMax % 2 = 1 /\ twice \in 0..UIntMax
      BY <3>1, <1>2, AliasAssumption
    <3>3. twice # UIntMax
      BY <3>1, <3>2, <1>1, <1>2
    <3> QED BY <2>2, <3>2, <3>3, <1>2
  <2> QED BY <2>1, <2>2
<1>8. Resized(al, key) = IF n <= al.max THEN al
                         ELSE IF size = 0 THEN NoTable
                         ELSE [al EXCEPT !.max = max, !.value = value]
  BY DEF Resized, n, twice
<1>14. max < UIntMax => size # 0
  BY <1>2, <1>3, <1>7
<1> HIDE DEF max, size
<1>9. value \in [0..max -> Name] /\ \A k \in 0..max : k <= al.max => value[k] = al.value[k]
  BY <1>1, <1>7 DEF Name
<1> HIDE DEF value
<1> DEFINE re == [al EXCEPT !.max = max, !.value = value]
<1>10. re \in Table /\ re.max = max /\ re.value = value
  BY <1>1, <1>7, <1>9 DEF Table
<1> HIDE DEF re
<1>11. CASE key > al.max /\ n > al.max
  <2>1. Grown(al, key) = IF size = 0 THEN NoTable ELSE re
    BY <1>11, <1>1, <1>4, <1>8 DEF Grown, re
  <2>2. ASSUME key + 3 <= UIntMax
        PROVE  size # 0 /\ key <= max /\ al.max <= max /\ \A k \in 0..al.max : value[k] = al.value[k]
    <3>1. size # 0
      BY <2>2, <1>11, <1>13, <1>14
    <3>2. key <= max /\ al.max <= max
      BY <2>2, <1>11, <1>1, <1>2, <1>4, <1>5, <1>7
    <3> QED BY <3>1, <3>2, <1>1, <1>7, <1>9
  <2> QED BY <2>1, <2>2, <1>10
<1>12. CASE key > al.max /\ ~(n > al.max)
  <2>1. Grown(al, key) = al
    BY <1>12, <1>1, <1>4, <1>8 DEF Grown
  <2>2. ~(key + 3 <= UIntMax)
    BY <1>12, <1>1, <1>2, <1>5
  <2> QED BY <2>1, <2>2
<1>15. CASE ~(key > al.max)
  <2>1. Grown(al, key) = al
    BY <1>15 DEF Grown
  <2> QED BY <2>1, <1>15, <1>1, <1>2
<1> QED BY <1>11, <1>12, <1>15

LEMMA ReadLineType ==
    ASSUME NEW r \in Reading, NEW l \in AliasLine PROVE ReadLine(r, l) \in Reading
<1> DEFINE al == Grown(r.al, l.key)
           new == [al EXCEPT !.value[l.key] = l.name]
<1>1. l.key \in 0..UIntMax /\ l.name \in STRING /\ r.al \in Table
      /\ r.res \in {"ok", "failed", "crash"}
  BY DEF AliasLine, Reading
<1>2. al \in Table \/ al = NoTable
  BY <1>1, GrownIs
<1>3. ReadLine(r, l) = IF r.res # "ok" THEN r
                       ELSE IF l = BadLine THEN [r EXCEPT !.res = "failed"]
                       ELSE IF ~al.ready \/ l.key > al.max THEN [r EXCEPT !.res = "crash"]
                       ELSE [r EXCEPT !.al = new]
  BY DEF ReadLine
<1> HIDE DEF al
<1>4. al.ready => new \in Table
  <2> SUFFICES ASSUME al.ready PROVE new \in Table
    OBVIOUS
  <2>0. al \in Table
    BY <1>2 DEF NoTable
  <2>1. al \in [ready : {TRUE}, max : Nat, value : UNION {[0..m -> Name] : m \in Nat}]
        /\ al.max \in Nat /\ al.value \in [0..al.max -> Name]
    BY <2>0 DEF Table
  <2>2. PICK v : v = [al.value EXCEPT ![l.key] = l.name]
    OBVIOUS
  <2>3. l.name \in Name
    BY <1>1 DEF Name
  <2>4. v \in [0..al.max -> Name]
    BY <2>1, <2>2, <2>3
  <2>5. new = [al EXCEPT !.value = v]
    BY <2>2
  <2> HIDE DEF new
  <2> QED BY <2>1, <2>4, <2>5 DEF Table
<1> HIDE DEF new
<1> QED BY <1>1, <1>3, <1>4 DEF Reading

\* One more line.
LEMMA ReadLineIs ==
    ASSUME NEW lines \in Seq(AliasLine), ~Huge(lines), NEW i \in 1..Len(lines), NEW r \in Reading,
           r.res # "crash", r.res = "ok" <=> AllGood(lines, i - 1), Stored(r.al, lines, i - 1)
    PROVE  LET q == ReadLine(r, lines[i])
           IN  /\ q.res # "crash" /\ (q.res = "ok" <=> AllGood(lines, i))
               /\ Stored(q.al, lines, i)
<1> DEFINE l == lines[i]
           q == ReadLine(r, l)
           al == Grown(r.al, l.key)
           v == [al.value EXCEPT ![l.key] = l.name]
           new == [al EXCEPT !.value = v]
<1>1. /\ l \in AliasLine /\ l.key \in 0..UIntMax /\ r.al \in Table /\ l.key + 3 <= UIntMax
      /\ r.res \in {"ok", "failed", "crash"} /\ i \in Nat /\ i \in DOMAIN lines
      /\ \A j \in 1..Len(lines) : lines[j] \in AliasLine /\ lines[j].key \in Nat
  <2>1. l \in AliasLine /\ i \in DOMAIN lines
        /\ \A j \in 1..Len(lines) : lines[j] \in AliasLine
    OBVIOUS
  <2>2. \A x \in AliasLine : x.key \in 0..UIntMax /\ x.key \in Nat
    BY AliasAssumption DEF AliasLine
  <2>3. ~(l.key + 3 > UIntMax)
    BY <2>1 DEF Huge
  <2> QED BY <2>1, <2>2, <2>3, AliasAssumption DEF Reading
<1>2. /\ al \in Table /\ al.ready = TRUE /\ l.key <= al.max /\ r.al.max <= al.max
      /\ \A k \in 0..r.al.max : al.value[k] = r.al.value[k]
  BY <1>1, GrownIs DEF Table
<1>3. q = IF r.res # "ok" THEN r
          ELSE IF l = BadLine THEN [r EXCEPT !.res = "failed"]
          ELSE IF ~al.ready \/ l.key > al.max THEN [r EXCEPT !.res = "crash"]
          ELSE [r EXCEPT !.al = new]
  BY DEF ReadLine
<1>4. AllGood(lines, i) <=> AllGood(lines, i - 1) /\ l # BadLine
  <2>1. \A j : j \in 1..i <=> j \in 1..(i - 1) \/ j = i
    BY <1>1
  <2> QED BY <2>1 DEF AllGood
<1> HIDE DEF q, al
<1>5. CASE r.res # "ok" \/ l = BadLine
  <2>1. ~AllGood(lines, i) /\ q.res \in {"failed", r.res} /\ q.res # "ok" /\ q.al = r.al
    BY <1>5, <1>3, <1>4, <1>1 DEF Reading
  <2>2. ASSUME NEW j \in 1..i, AllGood(lines, j) PROVE j \in 1..(i - 1)
    BY <2>1, <2>2
  <2>3. Stored(r.al, lines, i)
    <3>1. \A k \in 1..(i - 1) : k \in 1..i
      BY <1>1
    <3> QED BY <2>2, <3>1 DEF Stored
  <2> QED BY <2>1, <2>3 DEF q
<1>6. CASE r.res = "ok" /\ l # BadLine
  <2>1. q.al = new /\ q.res = "ok" /\ AllGood(lines, i) /\ al.max \in Nat
        /\ al.value \in [0..al.max -> Name] /\ r.al.max \in Nat
    BY <1>6, <1>3, <1>4, <1>1, <1>2 DEF Reading, Table
  <2>2. new.max = al.max /\ new.value = v
    BY <1>2 DEF Table
  <2>3. v[l.key] = l.name /\ \A k \in 0..al.max : k # l.key => v[k] = al.value[k]
    BY <2>1, <1>1, <1>2
  <2> HIDE DEF new, v
  <2>4. ASSUME NEW j \in 1..i, AllGood(lines, j),
               \A k \in 1..i : AllGood(lines, k) /\ k > j => lines[k].key # lines[j].key
        PROVE  lines[j].key <= al.max /\ v[lines[j].key] = lines[j].name
    <3>1. CASE j = i
      BY <3>1, <1>2, <2>3
    <3>2. CASE j # i
      <4>1. j \in 1..(i - 1) /\ i > j /\ i \in 1..i /\ \A k \in 1..(i - 1) : k \in 1..i
        BY <3>2, <1>1
      <4>2. lines[j].key # l.key
        BY <4>1, <2>1, <2>4
      <4>3. lines[j].key <= r.al.max /\ r.al.value[lines[j].key] = lines[j].name
        BY <4>1, <2>4 DEF Stored
      <4>4. lines[j].key \in Nat
        <5>1. j \in 1..Len(lines)
          BY <4>1
        <5> QED BY <5>1, <1>1
      <4>5. lines[j].key \in 0..r.al.max /\ lines[j].key \in 0..al.max
        BY <4>3, <4>4, <2>1, <1>2
      <4> QED BY <4>2, <4>3, <4>5, <1>2, <2>3
    <3> QED BY <3>1, <3>2
  <2>5. Stored(new, lines, i)
    BY <2>2, <2>4 DEF Stored
  <2> QED BY <2>1, <2>5 DEF q
<1>7. r.res = "ok" \/ r.res # "ok"
  OBVIOUS
<1> QED BY <1>5, <1>6

\* What alias_init() reads.
LEMMA AliasInitIs ==
    ASSUME NEW lines \in Seq(AliasLine)
    PROVE  LET r == AliasInit(lines)
           IN  /\ r \in Reading
               /\ ~Huge(lines) => /\ r.res # "crash"
                                  /\ r.res = "ok" <=> AllGood(lines, Len(lines))
                                  /\ Stored(r.al, lines, Len(lines))
<1> DEFINE n == Len(lines)
           V == Reading
           base == [al |-> NewTable, res |-> "ok"]
           D(f) == [i \in 0..n |-> IF i = 0 THEN base ELSE ReadLine(f[i - 1], lines[i])]
           g == CHOOSE x : x = D(x)
           step == [p \in V \X (1..n) |-> ReadLine(p[1], lines[p[2]])]
<1>1. AliasInit(lines) = g[n]
  BY DEF AliasInit
<1>2. n \in Nat /\ \A i \in 1..n : lines[i] \in AliasLine
  OBVIOUS
<1>3. base \in V /\ base.res = "ok" /\ base.al = NewTable
  BY NewTableType DEF Reading
<1>4. \A v \in V, i \in 1..n : ReadLine(v, lines[i]) \in V
  BY <1>2, ReadLineType
<1> HIDE DEF n, V, base
<1>5. step \in [V \X (1..n) -> V] /\ \A v \in V, i \in 1..n : step[<<v, i>>] = ReadLine(v, lines[i])
  BY <1>4
<1> HIDE DEF step
<1>6. PICK f \in [0..n -> V] : Recurs(f, base, step, n)
  BY <1>2, <1>3, <1>5, Recursion
<1>7. f = D(f)
  <2>1. ASSUME NEW i \in 0..n, i # 0 PROVE f[i] = ReadLine(f[i - 1], lines[i])
    <3>1. i \in 1..n /\ i - 1 \in 0..n
      BY <2>1, <1>2
    <3> QED BY <3>1, <1>5, <1>6 DEF Recurs
  <2>2. f[0] = base
    BY <1>6 DEF Recurs
  <2> QED BY <2>1, <2>2
<1>8. g = D(g)
  BY <1>7, Zenon
<1> HIDE DEF g
<1>9. g[0] = base /\ \A i \in 1..n : g[i] = ReadLine(g[i - 1], lines[i])
  <2>1. 0 \in 0..n /\ \A i \in 1..n : i \in 0..n /\ i # 0
    BY <1>2
  <2> QED BY <2>1, <1>8
<1> DEFINE P(i) == /\ g[i] \in V
                   /\ ~Huge(lines) => /\ g[i].res # "crash"
                                      /\ g[i].res = "ok" <=> AllGood(lines, i)
                                      /\ Stored(g[i].al, lines, i)
           A == {i \in 0..n : P(i)}
<1>10. 0 \in A
  <2>1. AllGood(lines, 0) /\ Stored(base.al, lines, 0)
    BY DEF AllGood, Stored
  <2> QED BY <1>2, <1>3, <1>9, <2>1
<1>11. ASSUME NEW i \in 1..n, i - 1 \in A PROVE i \in A
  <2>1. g[i - 1] \in V /\ g[i] = ReadLine(g[i - 1], lines[i])
    BY <1>9, <1>11
  <2>2. g[i] \in V
    BY <2>1, <1>4
  <2>3. ASSUME ~Huge(lines)
        PROVE  /\ g[i].res # "crash" /\ (g[i].res = "ok" <=> AllGood(lines, i))
               /\ Stored(g[i].al, lines, i)
    <3>1. /\ g[i - 1].res # "crash" /\ (g[i - 1].res = "ok" <=> AllGood(lines, i - 1))
          /\ Stored(g[i - 1].al, lines, i - 1)
      BY <1>11, <2>3
    <3> QED BY <3>1, <2>1, <2>3, ReadLineIs DEF n, V
  <2>4. i \in 0..n
    BY <1>2
  <2> QED BY <2>2, <2>3, <2>4
<1> HIDE DEF A
<1>12. n \in A
  <2>1. \A i \in 0..n : i \in A
    BY <1>2, <1>10, <1>11, Induction
  <2> QED BY <2>1, <1>2
<1>13. P(n)
  BY <1>12 DEF A
<1> QED BY <1>1, <1>13 DEF n, V

\* The tables that nmsg_init() leaves behind.
Tables == [operator |-> AliasTables(env.opLines, env.grLines).operator,
           group |-> AliasTables(env.opLines, env.grLines).group]

\* What a crash needs.
CrashCause ==
    ~AllGood(env.opLines, Len(env.opLines)) \/ Huge(env.opLines) \/ Huge(env.grLines)

\* The inductive invariant of AliasesUsable.
AliasInv ==
    /\ cmd \in Commands /\ env \in Envs
    /\ phase \notin {"start", "exited"} => aliases = Tables
    /\ phase = "crashed" => CrashCause

LEMMA TablesAre ==
    ASSUME env \in Envs
    PROVE  /\ env.opLines \in Seq(AliasLine) /\ env.grLines \in Seq(AliasLine)
           /\ Tables.operator = AliasInit(env.opLines).al
           /\ AliasInit(env.opLines).res = "ok" => Tables.group = AliasInit(env.grLines).al
           /\ AliasInit(env.opLines).res # "ok" => Tables.group = NoTable
           /\ AliasTables(env.opLines, env.grLines).res = "crash" => CrashCause
           /\ AliasInit(env.opLines).res # "ok" => CrashCause
<1>1. env.opLines \in Seq(AliasLine) /\ env.grLines \in Seq(AliasLine)
  BY EnvAssumption
<1> DEFINE op == AliasInit(env.opLines)
           gr == AliasInit(env.grLines)
<1>2. /\ Tables.operator = op.al /\ Tables.group = (IF op.res = "ok" THEN gr.al ELSE NoTable)
      /\ AliasTables(env.opLines, env.grLines).res = IF op.res = "ok" THEN gr.res ELSE op.res
  BY DEF Tables, AliasTables
<1>3. /\ op.res # "ok" => ~AllGood(env.opLines, Len(env.opLines)) \/ Huge(env.opLines)
      /\ op.res = "crash" => Huge(env.opLines)
      /\ gr.res = "crash" => Huge(env.grLines)
  BY <1>1, AliasInitIs
<1> QED BY <1>1, <1>2, <1>3 DEF CrashCause

\* The first id that process_args() cannot resolve.
LEMMA MinOfSix == ASSUME NEW W \in SUBSET (1..6), W # {} PROVE Min(W) \in W
<1>1. W \subseteq Nat
  OBVIOUS
<1>2. \E x \in W : \A y \in W : x <= y
  BY <1>1, LeastNat
<1> QED BY <1>2 DEF Min

\* A name is looked up without an array only if the operator file was not read.
LEMMA ResolveCrash ==
    ASSUME env \in Envs, aliases = Tables,
           NEW kind \in {"source", "operator", "group"}, NEW s, Resolve(kind, s) = {}
    PROVE  CrashCause
<1> DEFINE k == ByValue(aliases[kind], s)
<1>1. kind # "source" /\ k = {}
  BY DEF Resolve
<1>2. ~aliases[kind].ready
  BY <1>1 DEF ByValue
<1>3. \A t \in Table : t.ready
  BY DEF Table
<1>4. AliasInit(env.opLines).al \in Table /\ AliasInit(env.grLines).al \in Table
  BY TablesAre, AliasInitIs DEF Reading
<1>5. kind # "operator"
  BY <1>2, <1>3, <1>4, TablesAre
<1>6. kind = "group"
  BY <1>1, <1>5
<1>7. AliasInit(env.opLines).res # "ok"
  BY <1>2, <1>3, <1>4, <1>6, TablesAre
<1> QED BY <1>7, TablesAre

LEMMA AliasStep == ASSUME AliasInv, [Next]_vars PROVE AliasInv'
<1> USE DEF envVars, procVars, fileVars, ioVars, histVars
<1>1. CASE Start
  <2>1. /\ UNCHANGED envVars
        /\ \/ aliases' = Tables
              /\ phase' = IF AliasTables(env.opLines, env.grLines).res = "crash" THEN "crashed" ELSE "args"
           \/ phase' = "exited"
    BY <1>1 DEF Start, Tables
  <2>2. Tables' = Tables /\ CrashCause' = CrashCause
    BY <2>1 DEF Tables, CrashCause
  <2>3. phase' = "crashed" => CrashCause
    BY <2>1, TablesAre DEF AliasInv
  <2> QED BY <2>1, <2>2, <2>3 DEF AliasInv
<1>2. CASE Settings
  <2> DEFINE all == [i \in 1..6 |-> IF i <= 3 THEN Resolve(Kinds[i], cmd.set[i])
                                    ELSE Resolve(Kinds[i - 3], cmd.get[i - 3])]
             wrong == {i \in 1..6 : all[i] \in {{}, {-1}}}
  <2>1. /\ UNCHANGED <<envVars, aliases>> /\ phase = "args"
        /\ phase' \in {"ending", "crashed", "setup"}
        /\ phase' = "crashed" => wrong # {} /\ all[Min(wrong)] = {}
    BY <1>2 DEF Settings, UsageExit
  <2>2. Tables' = Tables /\ CrashCause' = CrashCause
    BY <2>1 DEF Tables, CrashCause
  <2>3. aliases = Tables /\ env \in Envs
    BY <2>1 DEF AliasInv
  <2>4. ASSUME phase' = "crashed" PROVE CrashCause
    <3>1. Min(wrong) \in 1..6 /\ all[Min(wrong)] = {}
      <4>1. wrong \in SUBSET (1..6) /\ wrong # {}
        BY <2>1, <2>4
      <4> HIDE DEF wrong
      <4>2. Min(wrong) \in wrong
        BY <4>1, MinOfSix
      <4> QED BY <2>1, <2>4, <4>1, <4>2
    <3>2. PICK i \in 1..6 : all[i] = {}
      BY <3>1
    <3>3. CASE i <= 3
      <4>1. i \in 1..3
        BY <3>3
      <4>2. Kinds[i] \in {"source", "operator", "group"}
        BY <4>1 DEF Kinds
      <4>3. Resolve(Kinds[i], cmd.set[i]) = {}
        BY <3>2, <3>3
      <4> QED BY <4>2, <4>3, <2>3, ResolveCrash
    <3>4. CASE ~(i <= 3)
      <4>1. i - 3 \in 1..3
        BY <3>4
      <4>2. Kinds[i - 3] \in {"source", "operator", "group"}
        BY <4>1 DEF Kinds
      <4>3. Resolve(Kinds[i - 3], cmd.get[i - 3]) = {}
        BY <3>2, <3>4
      <4> QED BY <4>2, <4>3, <2>3, ResolveCrash
    <3> QED BY <3>3, <3>4
  <2> HIDE DEF all, wrong
  <2> QED BY <2>1, <2>2, <2>3, <2>4 DEF AliasInv
<1>3. CASE /\ UNCHANGED <<envVars, aliases>>
           /\ \/ phase \notin {"start", "exited"} /\ phase' # "crashed"
              \/ phase' = phase
  <2>1. Tables' = Tables /\ CrashCause' = CrashCause
    BY <1>3 DEF Tables, CrashCause
  <2> QED BY <1>3, <2>1 DEF AliasInv
<1>4. CASE AddPcapifInput \/ AddPcapfileInput \/ AddSockInput \/ AddXsockInput
           \/ AddFileInput \/ AddPresInput
  BY <1>3, <1>4 DEF AddPcapifInput, AddPcapfileInput, AddSockInput, AddXsockInput, Next1,
                    AddFileInput, AddPresInput, OpenRfile, NewInput
<1>5. CASE AddSockOutput \/ AddXsockOutput \/ AddFileOutput \/ AddPresOutput \/ Validate
           \/ UsageItem \/ ItemFails \/ PidfileOpen \/ DropRoot \/ XsInit \/ Daemonize
           \/ PidfileWrite \/ Signals
  BY <1>3, <1>5 DEF AddSockOutput, AddXsockOutput, AddFileOutput, AddPresOutput, Validate, Item, Next1,
                    UsageItem, ItemFails, PidfileOpen, DropRoot, XsInit, Daemonize, PidfileWrite,
                    Signals, UsageExit
<1>6. ASSUME NEW i \in DOMAIN inputs, InputEof(i) PROVE AliasInv'
  BY <1>3, <1>6 DEF InputEof
<1>7. ASSUME NEW o \in DOMAIN outputs,
             \/ Write(o) \/ CloseOutput(o) \/ EndOutput(o)
             \/ phase \in {"running", "ending"} /\ (Exec(o) \/ Reopen(o))
      PROVE  AliasInv'
  BY <1>3, <1>7 DEF Write, CloseOutput, EndOutput, Exec, Reopen
<1>8. CASE LoopEnds \/ EndInputs \/ Exit \/ Terminated \/ UNCHANGED vars
  BY <1>3, <1>8 DEF LoopEnds, EndInputs, Exit, Terminated, vars
<1> QED BY <1>1, <1>2, <1>4, <1>5, <1>6, <1>7, <1>8 DEF Next

\* Whatever the alias files hold, no name up to the first bad line is lost when the
\* array grows, and nmsgtool crashes on them only if the operator file has a bad
\* line or a key makes the size of the array wrap.
THEOREM AliasesUsableAlways == Spec => []AliasesUsable
<1>1. Init => AliasInv
  BY DEF Init, AliasInv
<1>2. AliasInv /\ [Next]_vars => AliasInv'
  BY AliasStep
<1>3. AliasInv => AliasesUsable
  <2> SUFFICES ASSUME AliasInv PROVE AliasesUsable
    OBVIOUS
  <2> DEFINE good(lines) == {i \in DOMAIN lines : \A j \in 1..i : lines[j] # BadLine}
             kept(al, lines) ==
               \A i \in good(lines) :
                   (\A j \in good(lines) : j > i => lines[j].key # lines[i].key)
                   => ByKey(al, lines[i].key) = lines[i].name
             op == env.opLines
             gr == env.grLines
  <2>1. op \in Seq(AliasLine) /\ gr \in Seq(AliasLine)
    BY TablesAre DEF AliasInv
  <2>2. ASSUME NEW lines \in Seq(AliasLine), ~Huge(lines)
        PROVE  kept(AliasInit(lines).al, lines)
    <3>1. DOMAIN lines = 1..Len(lines) /\ Len(lines) \in Nat
      BY <2>2
    <3>2. Stored(AliasInit(lines).al, lines, Len(lines))
      BY <2>2, AliasInitIs
    <3>3. ASSUME NEW i \in good(lines), \A j \in good(lines) : j > i => lines[j].key # lines[i].key
          PROVE  lines[i].key <= AliasInit(lines).al.max
                 /\ AliasInit(lines).al.value[lines[i].key] = lines[i].name
      BY <3>1, <3>2, <3>3 DEF Stored, AllGood
    <3> QED BY <3>3 DEF ByKey
  <2>3. good(op) = DOMAIN op <=> AllGood(op, Len(op))
    <3>1. DOMAIN op = 1..Len(op) /\ Len(op) \in Nat
      BY <2>1
    <3>2. ASSUME AllGood(op, Len(op)), NEW i \in DOMAIN op PROVE i \in good(op)
      <4>1. \A j \in 1..i : j \in 1..Len(op)
        BY <3>1
      <4> QED BY <4>1, <3>2 DEF AllGood
    <3>3. ASSUME good(op) = DOMAIN op PROVE AllGood(op, Len(op))
      <4>1. \A i \in DOMAIN op : i \in 1..i
        BY <3>1
      <4>2. \A i \in DOMAIN op : op[i] # BadLine
        BY <3>3, <4>1
      <4> QED BY <3>1, <4>2 DEF AllGood
    <3> QED BY <3>2, <3>3
  <2>4. phase = "crashed" => ~(good(op) = DOMAIN op) \/ Huge(op) \/ Huge(gr)
    BY <2>3 DEF AliasInv, CrashCause
  <2>5. ASSUME phase \in {"setup", "running"}, ~Huge(op), ~Huge(gr)
        PROVE  kept(aliases.operator, op) /\ (good(op) = DOMAIN op => kept(aliases.group, gr))
    <3>1. aliases.operator = AliasInit(op).al
          /\ (AliasInit(op).res = "ok" => aliases.group = AliasInit(gr).al)
      BY <2>5, TablesAre DEF AliasInv
    <3>2. good(op) = DOMAIN op => AliasInit(op).res = "ok"
      BY <2>1, <2>3, <2>5, AliasInitIs
    <3>3. kept(AliasInit(op).al, op) /\ kept(AliasInit(gr).al, gr)
      BY <2>1, <2>2, <2>5
    <3> HIDE DEF kept, good
    <3> QED BY <3>1, <3>2, <3>3
  <2> QED BY <2>4, <2>5 DEF AliasesUsable, Huge
<1> QED BY <1>1, <1>2, <1>3, PTL DEF Spec

-----------------------------------------------------------------------------
(***************************************************************************)
(* Inputs and outputs                                                      *)
(***************************************************************************)
\* A sequence with one more element, or with one element replaced.
LEMMA AppendIs ==
    ASSUME NEW S, NEW s \in Seq(S), NEW x \in S
    PROVE  /\ Append(s, x) \in Seq(S) /\ Len(s) \in Nat /\ DOMAIN s = 1..Len(s)
           /\ DOMAIN Append(s, x) = DOMAIN s \cup {Len(s) + 1} /\ Len(s) + 1 \notin DOMAIN s
           /\ Len(Append(s, x)) = Len(s) + 1
           /\ Append(s, x)[Len(s) + 1] = x
           /\ \A i \in DOMAIN s : Append(s, x)[i] = s[i]
<1>1. Len(s) \in Nat /\ DOMAIN s = 1..Len(s)
  OBVIOUS
<1>2. Append(s, x) \in Seq(S) /\ Len(Append(s, x)) = Len(s) + 1
      /\ DOMAIN Append(s, x) = 1..(Len(s) + 1)
      /\ Append(s, x)[Len(s) + 1] = x
      /\ \A i \in 1..Len(s) : Append(s, x)[i] = s[i]
  OBVIOUS
<1>3. 1..(Len(s) + 1) = 1..Len(s) \cup {Len(s) + 1} /\ Len(s) + 1 \notin 1..Len(s)
  BY <1>1
<1> QED BY <1>1, <1>2, <1>3

LEMMA ReplaceIs ==
    ASSUME NEW S, NEW s \in Seq(S), NEW o \in DOMAIN s, NEW x \in S
    PROVE  /\ [s EXCEPT ![o] = x] \in Seq(S) /\ DOMAIN [s EXCEPT ![o] = x] = DOMAIN s
           /\ [s EXCEPT ![o] = x][o] = x
           /\ \A p \in DOMAIN s : p # o => [s EXCEPT ![o] = x][p] = s[p]
  OBVIOUS

FdRange == (-1)..MaxFd
OutType == {"file", "sock", "xs", "pres"}
AnyOutput ==
    [type : OutType, file : File \cup {Dash}, fd : FdRange, open : BOOLEAN,
     step : {"idle", "closed", "execed"}, rate : SUBSET (Nat \cup {DefaultFreq}),
     conf : {Setup(t, Opened(t)) : t \in OutType}, stamp : Nat, user : {"null", "kick", "ignore"}]

\* An output is set up, and is rotated if it is a file and there is a kicker.
Output ==
    {x \in AnyOutput :
        /\ x.conf = Setup(x.type, Opened(x.type))
        /\ x.user = (IF Kicker = "none" THEN "null"
                     ELSE IF x.type \in {"file", "pres"} THEN "kick" ELSE "ignore")
        /\ x.step # "idle" => x.user = "kick" /\ x.open}

InOp == {"if", "pcap", "sock_in", "xs_in", "file_in", "pres_in"}
Input == [op : InOp, conf : {InputConf(op) : op \in InOp}, open : BOOLEAN, fd : Int]

IoTypes ==
    /\ inputs \in Seq(Input) /\ outputs \in Seq(Output) /\ stamp \in Nat
    /\ phase \in {"start", "args"} => inputs = <<>> /\ outputs = <<>>

LEMMA SameIo ==
    ASSUME UNCHANGED <<cmd, env, ids>> PROVE Output' = Output /\ Input' = Input /\ Kicker' = Kicker
<1>1. Kicker' = Kicker
  BY DEF Kicker
<1>2. \A t : Setup(t, Opened(t))' = Setup(t, Opened(t))
  BY DEF Setup, Opened, EndlineStr
<1>3. \A op : InputConf(op)' = InputConf(op)
  BY DEF InputConf
<1>4. AnyOutput' = AnyOutput
  BY <1>2 DEF AnyOutput
<1>5. Output' = Output
  <2>1. ASSUME NEW x PROVE x \in Output' <=> x \in Output
    <3>1. Setup(x.type, Opened(x.type))' = Setup(x.type, Opened(x.type))
      BY DEF Setup, Opened, EndlineStr
    <3> QED BY <1>1, <1>4, <3>1 DEF Output
  <2> QED BY <2>1
<1>6. Input' = Input
  BY <1>3, Zenon DEF Input
<1> QED BY <1>1, <1>5, <1>6

\* What a new output is.
LEMMA NewOutputIs ==
    ASSUME IoTypes, NEW type \in OutType, NEW file \in File \cup {Dash}, NEW fd \in FdRange,
           NEW kick \in BOOLEAN, kick <=> (type \in {"file", "pres"} /\ Kicker # "none"),
           NEW rate \in SUBSET (Nat \cup {DefaultFreq})
    PROVE  LET x == NewOutput(type, file, kick, fd, Setup(type, Opened(type)), rate)
           IN  /\ x \in Output /\ x.open /\ x.step = "idle" /\ x.fd = fd /\ x.file = file
               /\ x.user = "kick" <=> kick
               /\ x.stamp = IF kick THEN stamp + 1 ELSE 0
<1> DEFINE conf == Setup(type, Opened(type))
           Confs == {Setup(t, Opened(t)) : t \in OutType}
           x == NewOutput(type, file, kick, fd, conf, rate)
<1>1. conf \in Confs
  OBVIOUS
<1>2. AnyOutput = [type : OutType, file : File \cup {Dash}, fd : FdRange, open : BOOLEAN,
     step : {"idle", "closed", "execed"}, rate : SUBSET (Nat \cup {DefaultFreq}),
     conf : Confs, stamp : Nat, user : {"null", "kick", "ignore"}]
  BY DEF AnyOutput
<1>3. PICK c : c = conf
  OBVIOUS
<1>4. c \in Confs /\ c = Setup(type, Opened(type))
        /\ x = NewOutput(type, file, kick, fd, c, rate)
  BY <1>1, <1>3
<1> HIDE DEF conf, Confs, x
<1>5. /\ x.type = type /\ x.file = file /\ x.fd = fd /\ x.open = TRUE /\ x.step = "idle"
      /\ x.rate = rate /\ x.conf = c /\ x.stamp = (IF kick THEN stamp + 1 ELSE 0)
      /\ x.user = (IF Kicker = "none" THEN "null" ELSE IF kick THEN "kick" ELSE "ignore")
  BY <1>4 DEF NewOutput
<1>6. x \in AnyOutput
  BY <1>2, <1>4 DEF NewOutput, IoTypes
<1>7. x \in Output
  BY <1>4, <1>5, <1>6 DEF Output
<1>8. x.user = "kick" <=> kick
  BY <1>5
<1>9. x = NewOutput(type, file, kick, fd, Setup(type, Opened(type)), rate)
  BY DEF x, conf
<1> QED BY <1>5, <1>7, <1>8, <1>9

\* One output is new or has changed.
Put(o, y) ==
    /\ outputs' \in Seq(Output) /\ y \in Output
    /\ DOMAIN outputs' = DOMAIN outputs \cup {o} /\ outputs'[o] = y
    /\ \A p \in DOMAIN outputs : p # o => outputs'[p] = outputs[p]

LEMMA PutNew ==
    ASSUME IoTypes, NEW y \in Output, outputs' = Append(outputs, y)
    PROVE  Put(Len(outputs) + 1, y) /\ Len(outputs) + 1 \notin DOMAIN outputs
  BY AppendIs DEF Put, IoTypes

LEMMA PutOld ==
    ASSUME IoTypes, NEW y \in Output, NEW o \in DOMAIN outputs, outputs' = [outputs EXCEPT ![o] = y]
    PROVE  Put(o, y)
<1> DEFINE S == Output
<1>1. outputs \in Seq(S) /\ y \in S
  BY DEF IoTypes
<1> HIDE DEF S
<1>2. /\ [outputs EXCEPT ![o] = y] \in Seq(S) /\ DOMAIN [outputs EXCEPT ![o] = y] = DOMAIN outputs
      /\ [outputs EXCEPT ![o] = y][o] = y
      /\ \A p \in DOMAIN outputs : p # o => [outputs EXCEPT ![o] = y][p] = outputs[p]
  BY <1>1, ReplaceIs
<1>3. DOMAIN outputs = DOMAIN outputs \cup {o}
  OBVIOUS
<1> QED BY <1>1, <1>2, <1>3 DEF Put, S

\* The fields of an output that do not change.
SameOut(x, y) == y.type = x.type /\ y.file = x.file /\ y.user = x.user

\* The changes that are made to an output.
AnyConf(Confs) ==
    [type : OutType, file : File \cup {Dash}, fd : FdRange, open : BOOLEAN,
     step : {"idle", "closed", "execed"}, rate : SUBSET (Nat \cup {DefaultFreq}),
     conf : Confs, stamp : Nat, user : {"null", "kick", "ignore"}]

LEMMA StillOutput ==
    ASSUME NEW x \in Output, NEW y \in AnyOutput, SameOut(x, y), y.conf = x.conf,
           y.step = "idle" \/ (x.user = "kick" /\ y.open)
    PROVE  y \in Output
  BY DEF Output, SameOut

LEMMA ShutIs ==
    ASSUME NEW x \in Output, x.step = "idle", NEW y, y = [x EXCEPT !.open = FALSE]
    PROVE  y \in Output /\ SameOut(x, y) /\ ~y.open /\ y.step = x.step /\ y.stamp = x.stamp
<1>1. PICK Confs : AnyOutput = AnyConf(Confs)
  BY DEF AnyOutput, AnyConf
<1>2. x \in AnyConf(Confs) /\ (x.step = "idle" \/ x.user = "kick")
  BY <1>1 DEF Output
<1>3. y \in AnyConf(Confs) /\ SameOut(x, y) /\ y.conf = x.conf /\ ~y.open /\ y.step = x.step /\ y.stamp = x.stamp
  BY <1>2 DEF AnyConf, SameOut
<1> QED BY <1>1, <1>2, <1>3, StillOutput

LEMMA ClosedIs ==
    ASSUME NEW x \in Output, x.user = "kick", x.open, NEW y, y = [x EXCEPT !.step = "closed"]
    PROVE  y \in Output /\ SameOut(x, y) /\ y.open = x.open /\ y.step = "closed" /\ y.stamp = x.stamp
<1>1. PICK Confs : AnyOutput = AnyConf(Confs)
  BY DEF AnyOutput, AnyConf
<1>2. x \in AnyConf(Confs) /\ (x.step = "idle" \/ x.user = "kick")
  BY <1>1 DEF Output
<1>3. y \in AnyConf(Confs) /\ SameOut(x, y) /\ y.conf = x.conf /\ y.open = x.open /\ y.step = "closed" /\ y.stamp = x.stamp
  BY <1>2 DEF AnyConf, SameOut
<1> QED BY <1>1, <1>2, <1>3, StillOutput

LEMMA EndedIs ==
    ASSUME NEW x \in Output, NEW y, y = [x EXCEPT !.step = "idle", !.open = FALSE]
    PROVE  y \in Output /\ SameOut(x, y) /\ ~y.open /\ y.step = "idle" /\ y.stamp = x.stamp
<1>1. PICK Confs : AnyOutput = AnyConf(Confs)
  BY DEF AnyOutput, AnyConf
<1>2. x \in AnyConf(Confs) /\ (x.step = "idle" \/ x.user = "kick")
  BY <1>1 DEF Output
<1>3. y \in AnyConf(Confs) /\ SameOut(x, y) /\ y.conf = x.conf /\ ~y.open /\ y.step = "idle" /\ y.stamp = x.stamp
  BY <1>2 DEF AnyConf, SameOut
<1> QED BY <1>1, <1>2, <1>3, StillOutput

LEMMA ExecedIs ==
    ASSUME NEW x \in Output, x.user = "kick", NEW y, y = [x EXCEPT !.step = "execed", !.open = TRUE]
    PROVE  y \in Output /\ SameOut(x, y) /\ y.open /\ y.step = "execed" /\ y.stamp = x.stamp
<1>1. PICK Confs : AnyOutput = AnyConf(Confs)
  BY DEF AnyOutput, AnyConf
<1>2. x \in AnyConf(Confs) /\ (x.step = "idle" \/ x.user = "kick")
  BY <1>1 DEF Output
<1>3. y \in AnyConf(Confs) /\ SameOut(x, y) /\ y.conf = x.conf /\ y.open /\ y.step = "execed"
      /\ y.stamp = x.stamp
  BY <1>2 DEF AnyConf, SameOut
<1> QED BY <1>1, <1>2, <1>3, StillOutput

Renewed(x, t, d) ==
    [x EXCEPT !.step = "idle", !.stamp = t, !.fd = d, !.conf = ReopenedConf(x.type)]

LEMMA RenewedIs ==
    ASSUME NEW x \in Output, NEW t \in Nat, NEW d \in FdRange, NEW y, y = Renewed(x, t, d)
    PROVE  /\ y \in Output /\ SameOut(x, y) /\ y.open = x.open /\ y.step = "idle"
           /\ y.stamp = t /\ y.fd = d
<1>1. PICK Confs : AnyOutput = AnyConf(Confs)
  BY DEF AnyOutput, AnyConf
<1>2. x \in AnyConf(Confs) /\ x.conf = ReopenedConf(x.type)
  BY <1>1 DEF Output, ReopenedConf
<1>3. y = [x EXCEPT !.step = "idle", !.stamp = t, !.fd = d, !.conf = x.conf]
  BY <1>2 DEF Renewed
<1>4. /\ y \in AnyConf(Confs) /\ SameOut(x, y) /\ y.conf = x.conf /\ y.open = x.open
      /\ y.step = "idle" /\ y.stamp = t /\ y.fd = d
  BY <1>2, <1>3 DEF AnyConf, SameOut
<1> QED BY <1>1, <1>2, <1>4, StillOutput

\* What an item of the script says.
LEMMA ItemIs ==
    ASSUME AskedInv, phase = "setup", todo # <<>>
    PROVE  /\ Head(todo).op \in {"if", "pcap", "file_in", "file_out", "pres_in", "pres_out"} =>
                Head(todo).file \in File
           /\ Head(todo).op = "sock_out" => Head(todo).rate \in SUBSET (Nat \cup {DefaultFreq})
<1> DEFINE h == Head(todo)
           S == ScriptItem
<1>1. h \in ScriptItem
  <2>1. todo \in Seq(S)
    BY DEF AskedInv, Planned, InOrder
  <2> HIDE DEF S
  <2>2. h \in S
    BY <2>1
  <2> QED BY <2>2 DEF S
<1> HIDE DEF h
<1>2. CASE h \in {XsItem(op, opts) : op \in {"xs_in", "xs_out"}, opts \in Seq(STRING)}
  <2>1. PICK op \in {"xs_in", "xs_out"}, opts \in Seq(STRING) : h = XsItem(op, opts)
    BY <1>2
  <2>2. h.op = op \/ h.op = "fail"
    BY <2>1 DEF XsItem
  <2> QED BY <2>2 DEF h
<1>3. CASE h \notin {XsItem(op, opts) : op \in {"xs_in", "xs_out"}, opts \in Seq(STRING)}
  <2>1. \/ h \in [op : {"usage", "xs_init"}]
        \/ h \in [op : {"sock_in", "sock_out"}, port : Int, rate : SUBSET (Nat \cup {DefaultFreq})]
        \/ h \in [op : {"pcap", "file_in", "file_out", "pres_in", "pres_out"}, file : File]
        \/ h \in [op : {"if"}, file : File]
        \/ h \in [op : {"pidfile", "droproot", "validate", "daemonize", "pid", "signals"}]
    BY <1>1, <1>3 DEF ScriptItem, MidItem
  <2> QED BY <2>1 DEF h
<1> QED BY <1>2, <1>3

\* Each step that changes an output changes one.
LEMMA SockPut ==
    ASSUME IoTypes, AskedInv, AddSockOutput
    PROVE  \E y : /\ Put(Len(outputs) + 1, y) /\ Len(outputs) + 1 \notin DOMAIN outputs
                  /\ y.open /\ y.step = "idle" /\ y.fd = FreeFd /\ y.user # "kick"
<1> DEFINE y == NewOutput("sock", Dash, FALSE, FreeFd, Setup("sock", Opened("sock")), Head(todo).rate)
<1>1. /\ phase = "setup" /\ todo # <<>> /\ Head(todo).op = "sock_out" /\ FreeFds # {}
      /\ outputs' = Append(outputs, y)
  BY DEF AddSockOutput, Item, NewObject
<1>2. FreeFd \in FdRange /\ Head(todo).rate \in SUBSET (Nat \cup {DefaultFreq})
  BY <1>1, FreeFdIs, ItemIs, ToolAssumption DEF FdRange
<1>3. PICK type \in OutType, kick \in BOOLEAN : type = "sock" /\ kick = FALSE
  BY DEF OutType
<1>4. PICK file \in File \cup {Dash} : file = Dash
  OBVIOUS
<1>5. y \in Output /\ y.open /\ y.step = "idle" /\ y.fd = FreeFd /\ y.user # "kick"
  <2>1. y = NewOutput(type, file, kick, FreeFd, Setup(type, Opened(type)), Head(todo).rate)
    BY <1>3, <1>4
  <2>2. kick <=> (type \in {"file", "pres"} /\ Kicker # "none")
    BY <1>3
  <2> HIDE DEF y
  <2> QED BY <2>1, <2>2, <1>2, <1>3, NewOutputIs
<1> HIDE DEF y
<1> QED BY <1>1, <1>5, PutNew

LEMMA XsPut ==
    ASSUME IoTypes, AddXsockOutput
    PROVE  \E y : /\ Put(Len(outputs) + 1, y) /\ Len(outputs) + 1 \notin DOMAIN outputs
                  /\ y.open /\ y.step = "idle" /\ y.fd = -1 /\ y.user # "kick"
<1> DEFINE y == NewOutput("xs", Dash, FALSE, -1, Setup("xs", Opened("xs")), {})
<1>1. outputs' = Append(outputs, y)
  BY DEF AddXsockOutput
<1>2. PICK type \in OutType, kick \in BOOLEAN, fd \in FdRange : type = "xs" /\ kick = FALSE /\ fd = -1
  <2>1. -1 \in FdRange /\ "xs" \in OutType /\ FALSE \in BOOLEAN
    BY ToolAssumption DEF OutType, FdRange
  <2> QED BY <2>1
<1>3. PICK file \in File \cup {Dash}, rate \in SUBSET (Nat \cup {DefaultFreq}) : file = Dash /\ rate = {}
  OBVIOUS
<1>4. y \in Output /\ y.open /\ y.step = "idle" /\ y.fd = -1 /\ y.user # "kick"
  <2>1. y = NewOutput(type, file, kick, fd, Setup(type, Opened(type)), rate)
    BY <1>2, <1>3
  <2>2. kick <=> (type \in {"file", "pres"} /\ Kicker # "none")
    BY <1>2
  <2> HIDE DEF y
  <2> QED BY <2>1, <2>2, <1>2, <1>3, NewOutputIs
<1> HIDE DEF y
<1> QED BY <1>1, <1>4, PutNew

LEMMA WfilePut ==
    ASSUME IoTypes, NEW type \in {"file", "pres"}, NEW file \in File \cup {Dash}, AddWfile(type, file)
    PROVE  \E y : /\ Put(Len(outputs) + 1, y) /\ Len(outputs) + 1 \notin DOMAIN outputs
                  /\ y.open /\ y.step = "idle" /\ y.file = file
                  /\ y.user = "kick" <=> Kicker # "none"
                  /\ Kicker # "none" => y.stamp = stamp + 1 /\ y.fd = FreeFd
<1> DEFINE kick == Kicker # "none"
           dash == ~kick /\ file = Dash
           fd == IF dash THEN 1 ELSE FreeFd
           rate == {}
           y == NewOutput(type, file, kick, fd, Setup(type, Opened(type)), rate)
<1>1. outputs' = Append(outputs, y)
  BY DEF AddWfile
<1>2. ~dash => FreeFds # {}
  BY DEF AddWfile, OpenWfile
<1>3. fd \in FdRange /\ (kick => fd = FreeFd)
  BY <1>2, FreeFdIs, ToolAssumption DEF FdRange
<1>4. kick \in BOOLEAN /\ (kick <=> (type \in {"file", "pres"} /\ Kicker # "none")) /\ type \in OutType
      /\ rate \in SUBSET (Nat \cup {DefaultFreq})
  BY DEF OutType
<1>5. kick <=> Kicker # "none"
  OBVIOUS
<1> HIDE DEF kick, fd, rate
<1>6. /\ y \in Output /\ y.open /\ y.step = "idle" /\ y.fd = fd /\ y.file = file
      /\ y.user = "kick" <=> kick
      /\ y.stamp = IF kick THEN stamp + 1 ELSE 0
  BY <1>3, <1>4, NewOutputIs
<1> HIDE DEF y
<1> QED BY <1>1, <1>3, <1>5, <1>6, PutNew

LEMMA ClosePut ==
    ASSUME IoTypes, NEW o \in DOMAIN outputs, CloseOutput(o) \/ EndOutput(o)
    PROVE  /\ outputs[o] \in Output /\ outputs[o].open /\ outputs[o].step = "idle"
           /\ \E y : /\ Put(o, y) /\ SameOut(outputs[o], y) /\ y.stamp = outputs[o].stamp
                     /\ ~y.open \/ (y.open /\ y.step = "closed")
<1> DEFINE S == Output
           x == outputs[o]
<1>1. x \in S
  <2>1. outputs \in Seq(S)
    BY DEF IoTypes
  <2> HIDE DEF S
  <2> QED BY <2>1
<1>2. x.open /\ x.step = "idle"
  BY DEF CloseOutput, EndOutput
<1>3. \/ outputs' = [outputs EXCEPT ![o] = [x EXCEPT !.open = FALSE]]
      \/ x.user = "kick" /\ outputs' = [outputs EXCEPT ![o] = [x EXCEPT !.step = "closed"]]
  BY DEF CloseOutput, EndOutput
<1>4. CASE outputs' = [outputs EXCEPT ![o] = [x EXCEPT !.open = FALSE]]
  <2>1. PICK y : y = [x EXCEPT !.open = FALSE]
    OBVIOUS
  <2>2. y \in Output /\ SameOut(x, y) /\ ~y.open /\ y.stamp = x.stamp
    BY <1>1, <1>2, <2>1, ShutIs
  <2>3. Put(o, y)
    BY <1>4, <2>1, <2>2, PutOld
  <2> QED BY <1>1, <1>2, <2>2, <2>3
<1>5. CASE x.user = "kick" /\ outputs' = [outputs EXCEPT ![o] = [x EXCEPT !.step = "closed"]]
  <2>1. PICK y : y = [x EXCEPT !.step = "closed"]
    OBVIOUS
  <2>2. y \in Output /\ SameOut(x, y) /\ y.open = x.open /\ y.step = "closed" /\ y.stamp = x.stamp
    BY <1>1, <1>2, <1>5, <2>1, ClosedIs
  <2>3. Put(o, y)
    BY <1>5, <2>1, <2>2, PutOld
  <2> QED BY <1>1, <1>2, <2>2, <2>3
<1> QED BY <1>3, <1>4, <1>5

LEMMA ExecPut ==
    ASSUME IoTypes, NEW o \in DOMAIN outputs, Exec(o)
    PROVE  /\ outputs[o] \in Output /\ outputs[o].step = "closed" /\ outputs[o].user = "kick"
           /\ \E y : /\ Put(o, y) /\ SameOut(outputs[o], y) /\ y.stamp = outputs[o].stamp
                     /\ ~y.open \/ y.step = "execed"
<1> DEFINE S == Output
           x == outputs[o]
<1>1. x \in S
  <2>1. outputs \in Seq(S)
    BY DEF IoTypes
  <2> HIDE DEF S
  <2> QED BY <2>1
<1>2. x.step = "closed"
  BY DEF Exec
<1>3. x.user = "kick"
  BY <1>1, <1>2 DEF Output
<1>4. \/ outputs' = [outputs EXCEPT ![o] = [x EXCEPT !.step = "idle", !.open = FALSE]]
      \/ outputs' = [outputs EXCEPT ![o] = [x EXCEPT !.step = "execed", !.open = TRUE]]
  BY DEF Exec
<1>5. CASE outputs' = [outputs EXCEPT ![o] = [x EXCEPT !.step = "idle", !.open = FALSE]]
  <2>1. PICK y : y = [x EXCEPT !.step = "idle", !.open = FALSE]
    OBVIOUS
  <2>2. y \in Output /\ SameOut(x, y) /\ ~y.open /\ y.stamp = x.stamp
    BY <1>1, <2>1, EndedIs
  <2>3. Put(o, y)
    BY <1>5, <2>1, <2>2, PutOld
  <2> QED BY <1>1, <1>2, <1>3, <2>2, <2>3
<1>6. CASE outputs' = [outputs EXCEPT ![o] = [x EXCEPT !.step = "execed", !.open = TRUE]]
  <2>2. PICK y : y = [x EXCEPT !.step = "execed", !.open = TRUE]
    OBVIOUS
  <2>3. y \in Output /\ SameOut(x, y) /\ y.step = "execed" /\ y.stamp = x.stamp
    BY <1>1, <1>3, <2>2, ExecedIs
  <2>4. Put(o, y)
    BY <1>6, <2>2, <2>3, PutOld
  <2> QED BY <1>1, <1>2, <1>3, <2>3, <2>4
<1> QED BY <1>4, <1>5, <1>6

LEMMA ReopenPut ==
    ASSUME IoTypes, NEW o \in DOMAIN outputs, Reopen(o)
    PROVE  /\ outputs[o] \in Output /\ outputs[o].step = "execed" /\ outputs[o].user = "kick"
           /\ \/ phase' = "exited" /\ UNCHANGED <<fds, made, names, stamp, outputs, written>>
              \/ \E y : /\ Put(o, y) /\ SameOut(outputs[o], y) /\ y.stamp = stamp + 1
                        /\ y.open /\ y.step = "idle" /\ y.fd = FreeFd
                        /\ OpenWfile(TmpName(outputs[o].file, stamp + 1)) /\ stamp' = stamp + 1
                        /\ written' \subseteq written \cup {<<obj, Other>> : obj \in fds'[2]}
                        /\ phase' = phase
<1> DEFINE S == Output
           x == outputs[o]
<1>1. x \in S
  <2>1. outputs \in Seq(S)
    BY DEF IoTypes
  <2> HIDE DEF S
  <2> QED BY <2>1
<1>2. x.step = "execed"
  BY DEF Reopen
<1>3. x.user = "kick" /\ x.open
  BY <1>1, <1>2 DEF Output
<1> DEFINE y == [x EXCEPT !.step = "idle", !.stamp = stamp + 1, !.fd = FreeFd,
                          !.conf = ReopenedConf(x.type)]
<1>4. \/ phase' = "exited" /\ UNCHANGED <<fds, made, names, stamp, outputs, written>>
      \/ /\ OpenWfile(TmpName(x.file, stamp + 1)) /\ stamp' = stamp + 1 /\ phase' = phase
         /\ outputs' = [outputs EXCEPT ![o] = y]
         /\ written' \subseteq written \cup {<<obj, Other>> : obj \in fds'[2]}
  BY DEF Reopen, fileVars
<1>5. CASE phase' = "exited" /\ UNCHANGED <<fds, made, names, stamp, outputs, written>>
  BY <1>1, <1>2, <1>3, <1>5
<1>6. CASE /\ OpenWfile(TmpName(x.file, stamp + 1)) /\ stamp' = stamp + 1 /\ phase' = phase
           /\ outputs' = [outputs EXCEPT ![o] = y]
           /\ written' \subseteq written \cup {<<obj, Other>> : obj \in fds'[2]}
  <2>1. FreeFd \in FdRange /\ stamp + 1 \in Nat
    BY <1>6, FreeFdIs, ToolAssumption DEF OpenWfile, IoTypes, FdRange
  <2>2. /\ y \in Output /\ SameOut(x, y) /\ y.open = x.open /\ y.step = "idle"
        /\ y.stamp = stamp + 1 /\ y.fd = FreeFd
    <3>1. y = Renewed(x, stamp + 1, FreeFd)
      BY DEF Renewed
    <3> HIDE DEF y
    <3> QED BY <1>1, <2>1, <3>1, RenewedIs
  <2> HIDE DEF y
  <2>3. Put(o, y)
    BY <1>6, <2>2, PutOld
  <2> QED BY <1>1, <1>2, <1>3, <1>6, <2>2, <2>3
<1> QED BY <1>4, <1>5, <1>6

\* The steps that change an input.
LEMMA NewInputIs ==
    ASSUME IoTypes, NEW fd \in Int, NewInput(fd), Head(todo).op \in InOp
    PROVE  /\ inputs' \in Seq(Input)
           /\ \E i : /\ DOMAIN inputs' = DOMAIN inputs \cup {i} /\ i \notin DOMAIN inputs
                     /\ inputs'[i].open /\ inputs'[i].fd = fd
                     /\ \A j \in DOMAIN inputs : inputs'[j] = inputs[j]
<1> DEFINE y == [op |-> Head(todo).op, conf |-> InputConf(Head(todo).op), open |-> TRUE, fd |-> fd]
<1>1. inputs' = Append(inputs, y) /\ y.open = TRUE /\ y.fd = fd
  BY DEF NewInput
<1>2. y \in Input
  <2>1. PICK Confs : Confs = {InputConf(op) : op \in InOp}
    OBVIOUS
  <2>2. InputConf(Head(todo).op) \in Confs
    BY <2>1
  <2>3. Input = [op : InOp, conf : Confs, open : BOOLEAN, fd : Int]
    BY <2>1 DEF Input
  <2>4. PICK c : c = InputConf(Head(todo).op)
    OBVIOUS
  <2> QED BY <2>2, <2>3, <2>4
<1> HIDE DEF y
<1> QED BY <1>1, <1>2, AppendIs DEF IoTypes

LEMMA ShutInput ==
    ASSUME NEW x \in Input, NEW y, y = [x EXCEPT !.open = FALSE]
    PROVE  y \in Input /\ ~y.open /\ y.fd = x.fd
<1>1. PICK Confs : Input = [op : InOp, conf : Confs, open : BOOLEAN, fd : Int]
  BY DEF Input
<1> QED BY <1>1

LEMMA EofIs ==
    ASSUME IoTypes, NEW i \in DOMAIN inputs, InputEof(i)
    PROVE  /\ inputs' \in Seq(Input) /\ DOMAIN inputs' = DOMAIN inputs
           /\ ~inputs'[i].open /\ inputs'[i].fd = inputs[i].fd
           /\ \A j \in DOMAIN inputs : j # i => inputs'[j] = inputs[j]
<1> DEFINE S == Input
           y == [inputs[i] EXCEPT !.open = FALSE]
<1>1. inputs \in Seq(S) /\ inputs' = [inputs EXCEPT ![i] = y]
  BY DEF IoTypes, InputEof
<1>2. inputs[i] \in S
  <2> HIDE DEF S
  <2> QED BY <1>1
<1>3. y \in S /\ ~y.open /\ y.fd = inputs[i].fd
  BY <1>2, ShutInput
<1> HIDE DEF S, y
<1>4. /\ [inputs EXCEPT ![i] = y] \in Seq(S) /\ DOMAIN [inputs EXCEPT ![i] = y] = DOMAIN inputs
      /\ [inputs EXCEPT ![i] = y][i] = y
      /\ \A p \in DOMAIN inputs : p # i => [inputs EXCEPT ![i] = y][p] = inputs[p]
  BY <1>1, <1>3, ReplaceIs
<1> QED BY <1>1, <1>3, <1>4 DEF S

LEMMA EndInputsIs ==
    ASSUME IoTypes, EndInputs
    PROVE  /\ inputs' \in Seq(Input) /\ DOMAIN inputs' = DOMAIN inputs
           /\ \A i \in DOMAIN inputs : ~inputs'[i].open /\ inputs'[i].fd = inputs[i].fd
<1> DEFINE S == Input
           y(i) == [inputs[i] EXCEPT !.open = FALSE]
<1>1. inputs \in Seq(S) /\ inputs' = [i \in DOMAIN inputs |-> y(i)]
  BY DEF IoTypes, EndInputs
<1>2. \A i \in DOMAIN inputs : inputs[i] \in S
  <2> HIDE DEF S
  <2> QED BY <1>1
<1>3. \A i \in DOMAIN inputs : y(i) \in S /\ ~y(i).open /\ y(i).fd = inputs[i].fd
  BY <1>2, ShutInput
<1> HIDE DEF S, y
<1>4. DOMAIN inputs = 1..Len(inputs) /\ Len(inputs) \in Nat
  BY <1>1
<1>5. inputs' \in Seq(S)
  BY <1>1, <1>3, <1>4
<1> QED BY <1>1, <1>3, <1>5 DEF S

\* The inputs and outputs keep their types.
LEMMA IoStep == ASSUME IoTypes, AskedInv, [Next]_vars PROVE IoTypes'
<1> USE DEF envVars, procVars, fileVars, ioVars, histVars
<1>1. CASE Start \/ Settings
  <2>1. inputs = <<>> /\ outputs = <<>> /\ inputs' = inputs /\ outputs' = outputs /\ stamp' = stamp
    BY <1>1 DEF Start, Settings, IoTypes
  <2>2. inputs' \in Seq(Input') /\ outputs' \in Seq(Output')
    BY <2>1
  <2> QED BY <2>1, <2>2 DEF IoTypes
<1>2. CASE UNCHANGED <<cmd, env, ids>> /\ phase \notin {"start", "args"}
           /\ inputs' \in Seq(Input) /\ outputs' \in Seq(Output) /\ stamp' \in Nat
           /\ phase' \notin {"start", "args"}
  BY <1>2, SameIo DEF IoTypes
<1>3. inputs \in Seq(Input) /\ outputs \in Seq(Output) /\ stamp \in Nat /\ stamp + 1 \in Nat
  BY DEF IoTypes
<1>4. CASE AddPcapifInput \/ AddPcapfileInput \/ AddSockInput \/ AddXsockInput
           \/ AddFileInput \/ AddPresInput
  <2>1. /\ phase = "setup" /\ phase' = phase /\ todo # <<>> /\ Head(todo).op \in InOp
        /\ UNCHANGED <<cmd, env, ids, stamp, outputs>>
        /\ \/ FreeFds # {} /\ NewInput(FreeFd)
           \/ NewInput(0) \/ NewInput(-1)
    BY <1>4 DEF AddPcapifInput, AddPcapfileInput, AddSockInput, AddXsockInput, Item, Next1,
                AddFileInput, AddPresInput, OpenRfile, NewInput, NewObject, InOp
  <2>2. PICK fd \in Int : NewInput(fd)
    <3>1. 0 \in Int /\ -1 \in Int /\ (FreeFds # {} => FreeFd \in Int)
      BY FreeFdIs, ToolAssumption
    <3> QED BY <2>1, <3>1
  <2>3. inputs' \in Seq(Input)
    BY <2>1, <2>2, NewInputIs
  <2> QED BY <1>2, <1>3, <2>1, <2>3
<1>5. CASE AddSockOutput \/ AddXsockOutput
  <2>1. outputs' \in Seq(Output)
    BY <1>5, SockPut, XsPut DEF Put
  <2> QED BY <1>2, <1>3, <1>5, <2>1 DEF AddSockOutput, AddXsockOutput, Item, Next1
<1>6. CASE AddFileOutput \/ AddPresOutput \/ Validate
  <2>1. /\ phase = "setup" /\ todo # <<>> /\ UNCHANGED <<cmd, env, ids, inputs>>
        /\ phase' \notin {"start", "args"}
        /\ \/ UNCHANGED <<outputs, stamp>>
           \/ \E type \in {"file", "pres"}, file \in File \cup {Dash} : AddWfile(type, file)
    <3>1. phase = "setup" /\ todo # <<>>
      BY <1>6 DEF AddFileOutput, AddPresOutput, Validate, Item
    <3>2. Head(todo).op \in {"file_out", "pres_out"} => Head(todo).file \in File
      BY <3>1, ItemIs
    <3> QED BY <1>6, <3>1, <3>2 DEF AddFileOutput, AddPresOutput, Validate, Item, Next1, UsageExit
  <2>2. CASE UNCHANGED <<outputs, stamp>>
    BY <1>2, <1>3, <2>1, <2>2
  <2>3. CASE \E type \in {"file", "pres"}, file \in File \cup {Dash} : AddWfile(type, file)
    <3>1. PICK type \in {"file", "pres"}, file \in File \cup {Dash} : AddWfile(type, file)
      BY <2>3
    <3>2. outputs' \in Seq(Output)
      BY <3>1, WfilePut DEF Put
    <3>3. stamp' \in Nat
      BY <1>3, <3>1 DEF AddWfile
    <3> QED BY <1>2, <1>3, <2>1, <3>2, <3>3
  <2> QED BY <2>1, <2>2, <2>3
<1>7. CASE UsageItem \/ ItemFails \/ PidfileOpen \/ DropRoot \/ XsInit \/ Daemonize
           \/ PidfileWrite \/ Signals
  BY <1>2, <1>3, <1>7 DEF UsageItem, ItemFails, PidfileOpen, DropRoot, XsInit, Daemonize,
                          PidfileWrite, Signals, UsageExit, Item, Next1
<1>8. ASSUME NEW i \in DOMAIN inputs, InputEof(i) PROVE IoTypes'
  <2>1. inputs' \in Seq(Input)
    BY <1>8, EofIs
  <2> QED BY <1>2, <1>3, <1>8, <2>1 DEF InputEof
<1>9. ASSUME NEW o \in DOMAIN outputs, Write(o) PROVE IoTypes'
  BY <1>2, <1>3, <1>9 DEF Write
<1>10. ASSUME NEW o \in DOMAIN outputs, CloseOutput(o) \/ EndOutput(o) PROVE IoTypes'
  <2>1. outputs' \in Seq(Output)
    BY <1>10, ClosePut DEF Put
  <2> QED BY <1>2, <1>3, <1>10, <2>1 DEF CloseOutput, EndOutput
<1>11. ASSUME NEW o \in DOMAIN outputs, phase \in {"running", "ending"}, Exec(o) PROVE IoTypes'
  <2>1. outputs' \in Seq(Output)
    BY <1>11, ExecPut DEF Put
  <2> QED BY <1>2, <1>3, <1>11, <2>1 DEF Exec
<1>12. ASSUME NEW o \in DOMAIN outputs, phase \in {"running", "ending"}, Reopen(o) PROVE IoTypes'
  <2>1. outputs' \in Seq(Output) /\ stamp' \in Nat /\ phase' \in {"exited", phase}
    BY <1>3, <1>12, ReopenPut DEF Put
  <2> QED BY <1>2, <1>3, <1>12, <2>1 DEF Reopen
<1>13. CASE LoopEnds \/ Exit
  BY <1>2, <1>3, <1>13 DEF LoopEnds, Exit
<1>14. CASE EndInputs
  <2>1. inputs' \in Seq(Input)
    BY <1>14, EndInputsIs
  <2> QED BY <1>2, <1>3, <1>14, <2>1 DEF EndInputs
<1>15. CASE Terminated \/ UNCHANGED vars
  <2>1. UNCHANGED <<cmd, env, ids, inputs, outputs, stamp, phase>>
    BY <1>15 DEF Terminated, vars
  <2> QED BY <2>1, SameIo DEF IoTypes
<1> QED
  BY <1>1, <1>4, <1>5, <1>6, <1>7, <1>8, <1>9, <1>10, <1>11, <1>12, <1>13, <1>14, <1>15 DEF Next

-----------------------------------------------------------------------------
(***************************************************************************)
(* The settings of the outputs                                             *)
(***************************************************************************)
\* The larger and the smaller of two numbers.
LEMMA MaxOfTwo ==
    ASSUME NEW a \in Int, NEW b \in Int
    PROVE  Max({a, b}) \in {a, b} /\ Max({a, b}) >= a /\ Max({a, b}) >= b
<1>1. \E x \in {a, b} : \A y \in {a, b} : x >= y
  OBVIOUS
<1> QED BY <1>1 DEF Max

LEMMA MinOfTwo ==
    ASSUME NEW a \in Int, NEW b \in Int
    PROVE  Min({a, b}) \in {a, b} /\ Min({a, b}) <= a /\ Min({a, b}) <= b
<1>1. \E x \in {a, b} : \A y \in {a, b} : x <= y
  OBVIOUS
<1> QED BY <1>1 DEF Min

\* What the setters leave in an output.
LEMMA ConfIs ==
    ASSUME cmd \in Commands, NEW t \in OutType
    PROVE  LET c == Setup(t, Opened(t))
           IN  /\ c.buffered = ~cmd.unbuffered
               /\ t # "pres" => c.zlib = cmd.zlib /\ c.bufsz \in WbufMin..WbufMax /\ c.ids = ids.set
               /\ t = "pres" => c.endline = EndlineStr
<1> DEFINE asked == CASE t = "file" -> WbufMax
                      [] t = "sock" -> IF cmd.mtu = 0 THEN WbufJumbo ELSE cmd.mtu
                      [] OTHER -> WbufJumbo
           size == Min({WbufMax, Max({WbufMin, asked})})
<1>1. cmd.mtu \in Nat
  BY ToolAssumption DEF Command
<1>2. asked \in Nat
  BY <1>1, ToolAssumption DEF OutType
<1>3. Opened(t) = [bufsz |-> IF t = "pres" THEN 0 ELSE size,
                   sequence |-> t \in {"sock", "xs"}, buffered |-> TRUE, zlib |-> FALSE,
                   ids |-> <<0, 0, 0>>,
                   endline |-> IF t = "pres" THEN <<"newline", "NUL">> ELSE <<>>]
  BY DEF Opened
<1> HIDE DEF asked
<1>4. size \in WbufMin..WbufMax
  <2> DEFINE big == Max({WbufMin, asked})
  <2>1. big \in {WbufMin, asked} /\ big >= WbufMin
    BY <1>2, MaxOfTwo, ToolAssumption
  <2> HIDE DEF big
  <2>2. big \in Int
    BY <2>1, <1>2, ToolAssumption
  <2>3. /\ Min({WbufMax, big}) \in {WbufMax, big}
        /\ Min({WbufMax, big}) <= WbufMax
    <3>1. WbufMax \in Int
      BY ToolAssumption
    <3> QED BY <2>2, <3>1, MinOfTwo
  <2>4. size = Min({WbufMax, big})
    BY DEF big
  <2> QED BY <2>1, <2>2, <2>3, <2>4, ToolAssumption
<1>5. PICK b, q, i, e :
        /\ Opened(t) = [bufsz |-> b, sequence |-> q, buffered |-> TRUE, zlib |-> FALSE,
                        ids |-> i, endline |-> e]
        /\ t # "pres" => b = size
  BY <1>3
<1> HIDE DEF size
<1>6. PICK u, z, v, s : u = ~cmd.unbuffered /\ z = cmd.zlib /\ v = ids.set /\ s = EndlineStr
  OBVIOUS
<1>7. CASE t = "pres"
  <2>1. Setup(t, Opened(t)) = [Opened(t) EXCEPT !.buffered = u, !.endline = s]
    BY <1>6, <1>7 DEF Setup
  <2>2. PICK x, c : x = Opened(t) /\ c = Setup(t, Opened(t))
    OBVIOUS
  <2>3. c.buffered = u /\ c.endline = s
    BY <1>5, <2>1, <2>2
  <2> QED BY <1>6, <1>7, <2>2, <2>3
<1>8. CASE t # "pres"
  <2>1. Setup(t, Opened(t)) = [Opened(t) EXCEPT !.buffered = u, !.zlib = z, !.ids = v]
    BY <1>6, <1>8 DEF Setup
  <2>2. PICK x, c : x = Opened(t) /\ c = Setup(t, Opened(t))
    OBVIOUS
  <2>3. c.buffered = u /\ c.zlib = z /\ c.ids = v /\ c.bufsz = b
    BY <1>5, <2>1, <2>2
  <2> QED BY <1>4, <1>5, <1>6, <1>8, <2>2, <2>3
<1> QED BY <1>7, <1>8

\* The names of the operator and the group are those of their numbers.
IdsResolved ==
    \A k \in 2..3 : IF cmd.set[k] = "" THEN ids.set[k] = 0
                    ELSE ByKey(aliases[Kinds[k]], ids.set[k]) = cmd.set[k]

LEMMA ResolveOk ==
    ASSUME env \in Envs, aliases = Tables, NEW kind \in {"operator", "group"}, NEW s,
           Resolve(kind, s) \notin {{}, {-1}}
    PROVE  IF s = "" THEN The(Resolve(kind, s)) = 0
           ELSE ByKey(aliases[kind], The(Resolve(kind, s))) = s
<1>1. \A x : The({x}) = x
  BY DEF The
<1>2. CASE s = ""
  BY <1>1, <1>2 DEF Resolve
<1>3. CASE s # ""
  <2> DEFINE al == aliases[kind]
             keys == {k \in 0..al.max : al.value[k] = s}
             k == ByValue(al, s)
  <2>1. Resolve(kind, s) = IF k = {0} THEN {-1} ELSE k
    BY <1>3 DEF Resolve
  <2>2. k \notin {{}, {0}} /\ Resolve(kind, s) = k
    BY <2>1
  <2>3. al.ready /\ k = {IF keys = {} THEN 0 ELSE Min(keys)}
    BY <2>2 DEF ByValue
  <2>4. keys # {} /\ k = {Min(keys)}
    BY <2>2, <2>3
  <2>5. al.max \in Nat
    <3>1. \A t \in Table : t.max \in Nat
      BY DEF Table
    <3>2. AliasInit(env.opLines).al \in Table /\ AliasInit(env.grLines).al \in Table
      BY TablesAre, AliasInitIs DEF Reading
    <3>3. NoTable.max \in Nat
      BY DEF NoTable
    <3> QED BY <3>1, <3>2, <3>3, TablesAre
  <2> HIDE DEF al, k
  <2>6. keys \subseteq Nat
    BY <2>5
  <2> DEFINE m == Min(keys)
  <2>7. m \in keys
    <3> HIDE DEF keys
    <3>1. \E x \in keys : \A y \in keys : x <= y
      BY <2>4, <2>6, LeastNat
    <3> QED BY <3>1 DEF Min
  <2>8. The(Resolve(kind, s)) = m
    BY <2>2, <2>4, <1>1
  <2> HIDE DEF m
  <2>9. m <= al.max /\ al.value[m] = s
    BY <2>5, <2>7
  <2> QED BY <1>3, <2>8, <2>9 DEF ByKey, al
<1> QED BY <1>2, <1>3

\* The invariant of the ids: they are there before the first output is.
IdsInv == phase = "setup" \/ outputs # <<>> => IdsResolved

LEMMA IdsStep == ASSUME IdsInv, IoTypes, AliasInv, [Next]_vars PROVE IdsInv'
<1> USE DEF envVars, procVars, fileVars, ioVars, histVars
<1>1. CASE Start
  BY <1>1 DEF Start, IoTypes, IdsInv
<1>2. CASE Settings
  <2> DEFINE all == [i \in 1..6 |-> IF i <= 3 THEN Resolve(Kinds[i], cmd.set[i])
                                    ELSE Resolve(Kinds[i - 3], cmd.get[i - 3])]
             wrong == {i \in 1..6 : all[i] \in {{}, {-1}}}
  <2>1. /\ UNCHANGED <<cmd, aliases, outputs>> /\ outputs = <<>> /\ aliases = Tables /\ env \in Envs
        /\ phase' = "setup" =>
             /\ wrong = {}
             /\ ids' = [set |-> [i \in 1..3 |-> The(all[i])], get |-> [i \in 1..3 |-> The(all[i + 3])]]
    BY <1>2 DEF Settings, UsageExit, IoTypes, AliasInv
  <2>2. ASSUME phase' = "setup", NEW k \in 2..3
        PROVE  IF cmd.set[k] = "" THEN ids'.set[k] = 0
               ELSE ByKey(aliases[Kinds[k]], ids'.set[k]) = cmd.set[k]
    <3>1. Kinds[k] \in {"operator", "group"} /\ k \in 1..6 /\ k <= 3 /\ k \in 1..3
      BY DEF Kinds
    <3>2. all[k] = Resolve(Kinds[k], cmd.set[k])
      BY <3>1
    <3>3. all[k] \notin {{}, {-1}}
      BY <2>1, <2>2, <3>1
    <3>4. ids'.set[k] = The(all[k])
      <4> HIDE DEF all
      <4>1. ids'.set = [i \in 1..3 |-> The(all[i])]
        BY <2>1, <2>2
      <4> QED BY <3>1, <4>1
    <3> HIDE DEF all
    <3>5. PICK kind, s : kind \in {"operator", "group"} /\ kind = Kinds[k] /\ s = cmd.set[k]
      BY <3>1
    <3>6. Resolve(kind, s) \notin {{}, {-1}} /\ ids'.set[k] = The(Resolve(kind, s))
      BY <3>2, <3>3, <3>4, <3>5
    <3>7. IF s = "" THEN The(Resolve(kind, s)) = 0
          ELSE ByKey(aliases[kind], The(Resolve(kind, s))) = s
      BY <2>1, <3>5, <3>6, ResolveOk
    <3> QED BY <3>5, <3>6, <3>7
  <2> HIDE DEF all, wrong
  <2> QED BY <2>1, <2>2 DEF IdsInv, IdsResolved
<1>3. CASE UNCHANGED <<cmd, ids, aliases>> /\ (phase = "setup" \/ outputs # <<>>)
  BY <1>3 DEF IdsInv, IdsResolved
<1>4. CASE UNCHANGED <<cmd, ids, aliases, outputs>> /\ (phase' = phase \/ phase' # "setup")
  BY <1>4 DEF IdsInv, IdsResolved
<1>5. CASE AddPcapifInput \/ AddPcapfileInput \/ AddSockInput \/ AddXsockInput
           \/ AddFileInput \/ AddPresInput
  BY <1>4, <1>5 DEF AddPcapifInput, AddPcapfileInput, AddSockInput, AddXsockInput, Next1,
                    AddFileInput, AddPresInput, OpenRfile, NewInput
<1>6. CASE AddSockOutput \/ AddXsockOutput \/ AddFileOutput \/ AddPresOutput \/ Validate
           \/ UsageItem \/ ItemFails \/ PidfileOpen \/ DropRoot \/ XsInit \/ Daemonize
           \/ PidfileWrite \/ Signals
  BY <1>3, <1>6 DEF AddSockOutput, AddXsockOutput, AddFileOutput, AddPresOutput, Validate, Item,
                    UsageItem, ItemFails, PidfileOpen, DropRoot, XsInit, Daemonize, PidfileWrite,
                    Signals
<1>7. ASSUME NEW i \in DOMAIN inputs, InputEof(i) PROVE IdsInv'
  BY <1>4, <1>7 DEF InputEof
<1>8. ASSUME NEW o \in DOMAIN outputs,
             \/ Write(o) \/ CloseOutput(o) \/ EndOutput(o)
             \/ phase \in {"running", "ending"} /\ (Exec(o) \/ Reopen(o))
      PROVE  IdsInv'
  BY <1>3, <1>8 DEF Write, CloseOutput, EndOutput, Exec, Reopen
<1>9. CASE LoopEnds \/ EndInputs \/ Exit \/ Terminated \/ UNCHANGED vars
  BY <1>4, <1>9 DEF LoopEnds, EndInputs, Exit, Terminated, vars
<1> QED BY <1>1, <1>2, <1>5, <1>6, <1>7, <1>8, <1>9 DEF Next

Char == STRING \cup {"newline", "tab", "backslash", "?", "NUL"}
Unread == [escape : BOOLEAN, out : Seq(Char)]

LEMMA UnescapedType ==
    ASSUME NEW r \in Unread, NEW c \in Char
    PROVE  /\ Unescaped(r, c) \in Unread
           /\ c # "backslash" => ~Unescaped(r, c).escape
           /\ ~r.escape /\ c # "backslash" => Unescaped(r, c).out = Append(r.out, c)
<1> DEFINE S == Char
           x == CASE c = "n" -> "newline" [] c = "t" -> "tab"
                  [] c = "backslash" -> c [] OTHER -> "?"
<1>1. r.escape \in BOOLEAN /\ r.out \in Seq(S) /\ c \in S /\ Unread = [escape : BOOLEAN, out : Seq(S)]
  BY DEF Unread
<1>2. x \in S
  BY DEF Char
<1>3. Unescaped(r, c) = IF r.escape THEN [escape |-> FALSE, out |-> Append(r.out, x)]
                        ELSE IF c = "backslash" THEN [r EXCEPT !.escape = TRUE]
                        ELSE [r EXCEPT !.out = Append(@, c)]
  BY DEF Unescaped
<1> HIDE DEF S, x
<1>4. PICK a, b : a = Append(r.out, x) /\ b = Append(r.out, c)
  OBVIOUS
<1>5. a \in Seq(S) /\ b \in Seq(S)
  BY <1>1, <1>2, <1>4
<1>6. Unescaped(r, c) = IF r.escape THEN [escape |-> FALSE, out |-> a]
                        ELSE IF c = "backslash" THEN [r EXCEPT !.escape = TRUE]
                        ELSE [r EXCEPT !.out = b]
  BY <1>3, <1>4
<1>7. CASE r.escape
  BY <1>1, <1>5, <1>6, <1>7
<1>8. CASE ~r.escape /\ c = "backslash"
  BY <1>1, <1>5, <1>6, <1>8
<1>9. CASE ~r.escape /\ c # "backslash"
  BY <1>1, <1>4, <1>5, <1>6, <1>9
<1> QED BY <1>7, <1>8, <1>9

\* unescape() copies the NUL at the end, unless a backslash is before it.
LEMMA UnescapeEnds ==
    ASSUME NEW str \in Seq(STRING), str # <<>>, Last(str) # "backslash"
    PROVE  "NUL" \in Range(Unescape(str))
<1> DEFINE chars == Append(str, "NUL")
           n == Len(chars)
           V == Unread
           base == [escape |-> FALSE, out |-> <<>>]
           D(f) == [i \in 0..n |-> IF i = 0 THEN base ELSE Unescaped(f[i - 1], chars[i])]
           g == CHOOSE x : x = D(x)
           step == [p \in V \X (1..n) |-> Unescaped(p[1], chars[p[2]])]
<1>1. Unescape(str) = g[n].out
  BY DEF Unescape
<1>2. /\ n \in Nat /\ n >= 2 /\ chars[n] = "NUL" /\ chars[n - 1] # "backslash"
      /\ \A i \in 1..n : chars[i] \in Char
  <2> DEFINE S == Char
             z == "NUL"
  <2>1. z \in S /\ str \in Seq(S)
    <3>1. STRING \subseteq S
      BY DEF Char
    <3>2. z \in S
      BY DEF Char
    <3>3. PICK T : T = STRING
      OBVIOUS
    <3>4. str \in Seq(T) /\ T \subseteq S
      BY <3>1, <3>3
    <3> HIDE DEF S, z
    <3>5. str \in Seq(S)
      BY <3>4
    <3> QED BY <3>2, <3>5
  <2> HIDE DEF S, z
  <2>2. /\ Append(str, z) \in Seq(S) /\ Len(str) \in Nat /\ DOMAIN str = 1..Len(str)
        /\ Len(Append(str, z)) = Len(str) + 1 /\ Append(str, z)[Len(str) + 1] = z
        /\ \A i \in DOMAIN str : Append(str, z)[i] = str[i]
    BY <2>1, AppendIs
  <2>3. chars = Append(str, z)
    BY DEF z
  <2> HIDE DEF chars
  <2>4. Len(str) # 0
    BY <2>1
  <2>5. Len(str) \in DOMAIN str /\ n = Len(str) + 1 /\ n - 1 = Len(str) /\ n >= 2 /\ n \in Nat
    BY <2>2, <2>3, <2>4
  <2>6. chars[n - 1] # "backslash"
    BY <2>2, <2>3, <2>5 DEF Last
  <2>7. \A i \in 1..n : chars[i] \in S
    BY <2>2, <2>3
  <2> QED BY <2>2, <2>3, <2>5, <2>6, <2>7 DEF S, z
<1> HIDE DEF chars
<1>3. base \in V
  <2>1. PICK e : e = <<>>
    OBVIOUS
  <2>2. e \in Seq(Char)
    BY <2>1
  <2>3. base = [escape |-> FALSE, out |-> e]
    BY <2>1
  <2> HIDE DEF base
  <2> QED BY <2>2, <2>3 DEF Unread
<1>4. \A v \in V, i \in 1..n : Unescaped(v, chars[i]) \in V
  BY <1>2, UnescapedType
<1> HIDE DEF n, V, base
<1>5. step \in [V \X (1..n) -> V] /\ \A v \in V, i \in 1..n : step[<<v, i>>] = Unescaped(v, chars[i])
  BY <1>4
<1> HIDE DEF step
<1>6. PICK f \in [0..n -> V] : Recurs(f, base, step, n)
  BY <1>2, <1>3, <1>5, Recursion
<1>7. f = D(f)
  <2>1. ASSUME NEW i \in 0..n, i # 0 PROVE f[i] = Unescaped(f[i - 1], chars[i])
    <3>1. i \in 1..n /\ i - 1 \in 0..n
      BY <2>1, <1>2
    <3> QED BY <3>1, <1>5, <1>6 DEF Recurs
  <2>2. f[0] = base
    BY <1>6 DEF Recurs
  <2> QED BY <2>1, <2>2
<1>8. g = D(g)
  BY <1>7, Zenon
<1> HIDE DEF g
<1>9. g[0] = base /\ \A i \in 1..n : g[i] = Unescaped(g[i - 1], chars[i])
  <2>1. 0 \in 0..n /\ \A i \in 1..n : i \in 0..n /\ i # 0
    BY <1>2
  <2> QED BY <2>1, <1>8
<1> DEFINE A == {i \in 0..n : g[i] \in V}
<1>10. 0 \in A
  BY <1>2, <1>3, <1>9
<1>11. ASSUME NEW i \in 1..n, i - 1 \in A PROVE i \in A
  <2>1. i \in 0..n
    BY <1>2
  <2> QED BY <1>4, <1>9, <1>11, <2>1
<1> HIDE DEF A
<1>12. \A i \in 0..n : g[i] \in V
  <2>1. \A i \in 0..n : i \in A
    BY <1>2, <1>10, <1>11, Induction
  <2> QED BY <2>1 DEF A
<1>13. /\ n \in 1..n /\ n - 1 \in 1..n /\ (n - 1) - 1 \in 0..n /\ n - 1 \in 0..n
  BY <1>2
<1>14. ~g[n - 1].escape /\ g[n - 1] \in Unread
  <2>1. g[n - 1] = Unescaped(g[(n - 1) - 1], chars[n - 1]) /\ g[(n - 1) - 1] \in Unread
        /\ g[n - 1] \in Unread /\ chars[n - 1] \in Char
    BY <1>2, <1>9, <1>12, <1>13 DEF V
  <2> QED BY <2>1, <1>2, UnescapedType
<1>15. g[n].out = Append(g[n - 1].out, chars[n])
  <2>1. g[n] = Unescaped(g[n - 1], chars[n]) /\ chars[n] \in Char /\ chars[n] # "backslash"
    BY <1>2, <1>9, <1>13
  <2> QED BY <2>1, <1>14, UnescapedType
<1>16. "NUL" \in Range(g[n].out)
  <2> DEFINE S == Char
  <2>1. PICK o, z : o = g[n - 1].out /\ z = chars[n]
    OBVIOUS
  <2>2. o \in Seq(S) /\ z \in S
    BY <1>2, <1>13, <1>14, <2>1 DEF Unread
  <2> HIDE DEF S
  <2>3. Len(o) + 1 \in DOMAIN Append(o, z) /\ Append(o, z)[Len(o) + 1] = z
    BY <2>2, AppendIs
  <2>4. z \in Range(Append(o, z))
    BY <2>3 DEF Range
  <2> QED BY <1>2, <1>15, <2>1, <2>4
<1> QED BY <1>1, <1>16

\* An output keeps its settings whatever rotates it: the ids that were asked for,
\* looked up in the alias files, the buffer, zlib, and an --endline that has an end.
THEOREM SettingsKeptAlways == Spec => []SettingsKept
<1> DEFINE Inv == AskedInv /\ AliasInv /\ IoTypes /\ IdsInv
<1>1. Init => Inv
  <2> SUFFICES ASSUME Init PROVE Inv
    OBVIOUS
  <2>1. AskedInv
    BY AskedInit
  <2>2. AliasInv /\ IdsInv
    BY DEF Init, AliasInv, IdsInv
  <2>3. IoTypes
    BY DEF Init, IoTypes
  <2> QED BY <2>1, <2>2, <2>3
<1>2. Inv /\ [Next]_vars => Inv'
  BY AskedStep, AliasStep, IoStep, IdsStep
<1>3. Inv => SettingsKept
  <2> SUFFICES ASSUME AskedInv, AliasInv, IoTypes, IdsInv, NEW o \in DOMAIN outputs
               PROVE  LET x == outputs[o]
                      IN  x.open /\ x.step = "idle" =>
                            /\ x.conf.buffered = ~cmd.unbuffered
                            /\ (x.user = "null") = (Kicker = "none")
                            /\ x.type # "pres" =>
                                 /\ x.conf.zlib = cmd.zlib /\ x.conf.bufsz \in WbufMin..WbufMax
                                 /\ \A k \in 2..3 :
                                      IF cmd.set[k] = "" THEN x.conf.ids[k] = 0
                                      ELSE ByKey(aliases[Kinds[k]], x.conf.ids[k]) = cmd.set[k]
                            /\ x.type = "pres" /\ (cmd.endline # <<>> => Last(cmd.endline) # "backslash") =>
                                 "NUL" \in Range(x.conf.endline)
    BY DEF SettingsKept
  <2> DEFINE S == Output
             x == outputs[o]
  <2>1. x \in S
    <3>1. outputs \in Seq(S)
      BY DEF IoTypes
    <3> HIDE DEF S
    <3> QED BY <3>1
  <2>2. /\ x.type \in OutType /\ x.conf = Setup(x.type, Opened(x.type))
        /\ x.user = (IF Kicker = "none" THEN "null"
                     ELSE IF x.type \in {"file", "pres"} THEN "kick" ELSE "ignore")
    BY <2>1 DEF Output, AnyOutput
  <2>3. cmd \in Commands /\ IdsResolved
    BY DEF AliasInv, IdsInv
  <2> HIDE DEF x
  <2>4. /\ x.conf.buffered = ~cmd.unbuffered
        /\ x.type # "pres" => x.conf.zlib = cmd.zlib /\ x.conf.bufsz \in WbufMin..WbufMax
                              /\ x.conf.ids = ids.set
        /\ x.type = "pres" => x.conf.endline = EndlineStr
    BY <2>2, <2>3, ConfIs
  <2>5. ASSUME cmd.endline # <<>> => Last(cmd.endline) # "backslash"
        PROVE  "NUL" \in Range(EndlineStr)
    <3>1. cmd.endline \in Seq(STRING)
      BY <2>3, ToolAssumption DEF Command
    <3>2. CASE cmd.endline = <<>>
      <4>1. EndlineStr = <<"newline", "NUL">>
        BY <3>2 DEF EndlineStr
      <4>2. 2 \in DOMAIN <<"newline", "NUL">> /\ <<"newline", "NUL">>[2] = "NUL"
        OBVIOUS
      <4> QED BY <4>1, <4>2 DEF Range
    <3>3. CASE cmd.endline # <<>>
      BY <2>5, <3>1, <3>3, UnescapeEnds DEF EndlineStr
    <3> QED BY <3>2, <3>3
  <2>6. (x.user = "null") = (Kicker = "none")
    BY <2>2
  <2> QED BY <2>3, <2>4, <2>5, <2>6 DEF IdsResolved, x
<1> QED BY <1>1, <1>2, <1>3, PTL DEF Spec

-----------------------------------------------------------------------------
(***************************************************************************)
(* Descriptors and objects                                                 *)
(***************************************************************************)
FdTypes ==
    /\ fds \in [0..MaxFd -> SUBSET (1..Len(made))]
    /\ \A e \in names : e.obj \in 1..Len(made)
    /\ \A w \in written : w[1] \in 1..Len(made)
    /\ ~cmd.daemon => cwd = "start" /\ (phase = "setup" => 6 \notin Ranks(todo))

\* A new object at the lowest free descriptor.
LEMMA NewObjectIs ==
    ASSUME AskedInv, FdTypes, NEW by, NewObject(by)
    PROVE  /\ Len(made) \in Nat /\ Len(made') = Len(made) + 1
           /\ FreeFd \in 0..MaxFd /\ fds[FreeFd] = {}
           /\ fds' \in [0..MaxFd -> SUBSET (1..Len(made'))]
           /\ fds'[FreeFd] = {Len(made) + 1}
           /\ \A d \in 0..MaxFd : d # FreeFd => fds'[d] = fds[d]
<1> DEFINE new == [by |-> by, uid |-> uid]
<1>1. Len(made) \in Nat /\ Len(made') = Len(made) + 1
  <2>1. PICK S : S = Made \cup {new}
    OBVIOUS
  <2>2. made \in Seq(S) /\ new \in S
    <3>1. PICK M : M = Made
      OBVIOUS
    <3>2. made \in Seq(M) /\ M \subseteq S
      BY <2>1, <3>1 DEF AskedInv, AskedTypes
    <3>3. made \in Seq(S)
      BY <3>2
    <3> QED BY <2>1, <3>3
  <2>3. made' = Append(made, new)
    BY DEF NewObject
  <2> HIDE DEF new
  <2> QED BY <2>2, <2>3, AppendIs
<1>2. FreeFd \in 0..MaxFd /\ fds[FreeFd] = {}
  BY FreeFdIs DEF NewObject, FreeFds
<1>3. fds' = [fds EXCEPT ![FreeFd] = {Len(made) + 1}] /\ fds \in [0..MaxFd -> SUBSET (1..Len(made))]
  BY DEF NewObject, FdTypes
<1> DEFINE n == Len(made)
           m == FreeFd
<1>4. n \in Nat /\ m \in 0..MaxFd /\ fds' = [fds EXCEPT ![m] = {n + 1}]
      /\ fds \in [0..MaxFd -> SUBSET (1..n)] /\ Len(made') = n + 1
  BY <1>1, <1>2, <1>3
<1> HIDE DEF n, m
<1>5. /\ fds' \in [0..MaxFd -> SUBSET (1..(n + 1))] /\ fds'[m] = {n + 1}
      /\ \A d \in 0..MaxFd : d # m => fds'[d] = fds[d]
  <2>1. (1..n) \subseteq 1..(n + 1) /\ {n + 1} \in SUBSET (1..(n + 1))
    BY <1>4
  <2> QED BY <1>4, <2>1
<1>6. fds' \in [0..MaxFd -> SUBSET (1..Len(made'))]
  BY <1>4, <1>5
<1> QED BY <1>1, <1>2, <1>5, <1>6 DEF n, m

\* The file that open_wfile() opens is new, or one that is there.
LEMMA OpenWfileIs ==
    ASSUME AskedInv, FdTypes, NEW nm, OpenWfile(nm)
    PROVE  /\ Len(made) \in Nat /\ FreeFd \in 0..MaxFd /\ fds[FreeFd] = {}
           /\ Len(made') \in {Len(made), Len(made) + 1}
           /\ fds' \in [0..MaxFd -> SUBSET (1..Len(made'))]
           /\ \A d \in 0..MaxFd : d # FreeFd => fds'[d] = fds[d]
           /\ \E obj \in 1..Len(made') :
                /\ fds'[FreeFd] = {obj} /\ names' = names \cup {[name |-> Located(nm), obj |-> obj]}
                /\ (\A e \in names : e.name # Located(nm)) =>
                     obj = Len(made) + 1 /\ Len(made') = Len(made) + 1
<1> DEFINE old == {e.obj : e \in {e \in names : e.name = Located(nm)}}
           obj == IF old = {} THEN Len(made) + 1 ELSE The(old)
           new == [by |-> "output", uid |-> uid]
<1>1. /\ FreeFds # {} /\ fds' = [fds EXCEPT ![FreeFd] = {obj}]
      /\ made' = IF old = {} THEN Append(made, new) ELSE made
      /\ names' = names \cup {[name |-> Located(nm), obj |-> obj]}
  BY DEF OpenWfile
<1>2. Len(made) \in Nat /\ Len(Append(made, new)) = Len(made) + 1
  <2>1. PICK S : S = Made
    OBVIOUS
  <2>2. made \in Seq(S) /\ new \in S
    BY <2>1 DEF AskedInv, AskedTypes, Made, Maker
  <2> HIDE DEF new
  <2> QED BY <2>2, AppendIs
<1>3. FreeFd \in 0..MaxFd /\ fds[FreeFd] = {} /\ fds \in [0..MaxFd -> SUBSET (1..Len(made))]
  BY <1>1, FreeFdIs DEF FreeFds, FdTypes
<1>4. old \subseteq 1..Len(made)
  BY DEF FdTypes
<1>5. (\A e \in names : e.name # Located(nm)) => old = {}
  OBVIOUS
<1>6. old # {} => The(old) \in old
  BY DEF The
<1> HIDE DEF old, new
<1>7. obj \in 1..Len(made') /\ Len(made') \in {Len(made), Len(made) + 1}
      /\ (old = {} => obj = Len(made) + 1 /\ Len(made') = Len(made) + 1)
  <2>1. CASE old = {}
    <3>1. obj = Len(made) + 1 /\ made' = Append(made, new)
      BY <1>1, <2>1
    <3> QED BY <1>2, <2>1, <3>1
  <2>2. CASE old # {}
    <3>1. obj \in old /\ made' = made
      BY <1>1, <1>6, <2>2
    <3> QED BY <1>2, <1>4, <2>2, <3>1
  <2> QED BY <2>1, <2>2
<1> HIDE DEF obj
<1> DEFINE n == Len(made)
           m == FreeFd
           k == Len(made')
<1>8. n \in Nat /\ k \in Nat /\ n <= k /\ m \in 0..MaxFd /\ fds' = [fds EXCEPT ![m] = {obj}]
      /\ fds \in [0..MaxFd -> SUBSET (1..n)] /\ obj \in 1..k
  BY <1>1, <1>2, <1>3, <1>7
<1> HIDE DEF n, m, k
<1>9. /\ fds' \in [0..MaxFd -> SUBSET (1..k)] /\ fds'[m] = {obj}
      /\ \A d \in 0..MaxFd : d # m => fds'[d] = fds[d]
  <2>1. (1..n) \subseteq 1..k /\ {obj} \in SUBSET (1..k)
    BY <1>8
  <2> QED BY <1>8, <2>1
<1> QED BY <1>1, <1>2, <1>3, <1>5, <1>7, <1>9 DEF n, m, k

\* The steps keep these types.
LEMMA FdKeep ==
    ASSUME FdTypes, AskedInv, UNCHANGED cmd, cwd' = cwd \/ cmd.daemon,
           fds' \in [0..MaxFd -> SUBSET (1..Len(made'))],
           \A e \in names' : e.obj \in 1..Len(made'),
           \A w \in written' : w[1] \in 1..Len(made'),
           phase' = "setup" => phase = "setup" /\ todo # <<>> /\ todo' = Tail(todo)
    PROVE  FdTypes'
<1>1. ASSUME phase' = "setup" PROVE Ranks(todo') \subseteq Ranks(todo)
  BY <1>1, ItemDone
<1> QED BY <1>1 DEF FdTypes

\* A step that opens nothing and may close descriptors.
LEMMA FdSame ==
    ASSUME FdTypes, AskedInv, UNCHANGED <<cmd, made, names, written>>, cwd' = cwd \/ cmd.daemon,
           fds' \in [0..MaxFd -> SUBSET (1..Len(made))],
           phase' = "setup" => phase = "setup" /\ todo # <<>> /\ todo' = Tail(todo)
    PROVE  FdTypes'
<1>1. /\ fds' \in [0..MaxFd -> SUBSET (1..Len(made'))]
      /\ \A e \in names' : e.obj \in 1..Len(made')
      /\ \A w \in written' : w[1] \in 1..Len(made')
  BY DEF FdTypes
<1> QED BY <1>1, FdKeep

\* Old objects are still in range when there are more.
LEMMA StillObjects ==
    ASSUME FdTypes, Len(made) \in Nat, Len(made') \in {Len(made), Len(made) + 1}
    PROVE  /\ \A e \in names : e.obj \in 1..Len(made')
           /\ \A w \in written : w[1] \in 1..Len(made')
<1>1. \A k \in 1..Len(made) : k \in 1..Len(made')
  OBVIOUS
<1> QED BY <1>1 DEF FdTypes

\* A write reaches objects that are there.
LEMMA ReachedIs ==
    ASSUME FdTypes, NEW fd \in Int, NEW who, NEW w \in Reached(fd, who),
           fd \in 0..MaxFd \/ fd < 0
    PROVE  w[1] \in 1..Len(made) /\ w[2] = who /\ w[1] \in fds[fd] /\ fd \in 0..MaxFd
<1>1. fd \in 0..MaxFd
  BY DEF Reached
<1>2. PICK obj \in fds[fd] : w = <<obj, who>>
  BY <1>1 DEF Reached
<1> QED BY <1>1, <1>2 DEF FdTypes

LEMMA OutputIs ==
    ASSUME IoTypes, NEW o \in DOMAIN outputs
    PROVE  /\ outputs[o] \in Output /\ outputs[o].fd \in Int /\ outputs[o].stamp \in Nat
           /\ outputs[o].fd \in 0..MaxFd \/ outputs[o].fd < 0
           /\ outputs[o].open \in BOOLEAN /\ outputs[o].step \in {"idle", "closed", "execed"}
           /\ outputs[o].file \in File \cup {Dash}
<1> DEFINE S == Output
<1>1. outputs[o] \in S
  <2>1. outputs \in Seq(S)
    BY DEF IoTypes
  <2> HIDE DEF S
  <2> QED BY <2>1
<1>2. outputs[o] \in AnyOutput
  BY <1>1 DEF Output
<1>3. PICK Confs : AnyOutput = AnyConf(Confs)
  BY DEF AnyOutput, AnyConf
<1>4. /\ outputs[o].fd \in FdRange /\ outputs[o].stamp \in Nat
      /\ outputs[o].open \in BOOLEAN /\ outputs[o].step \in {"idle", "closed", "execed"}
      /\ outputs[o].file \in File \cup {Dash}
  BY <1>2, <1>3 DEF AnyConf
<1> QED BY <1>1, <1>4, ToolAssumption DEF FdRange

LEMMA ClosedFds ==
    ASSUME FdTypes, NEW fd \in Int
    PROVE  /\ Closed(fd) \in [0..MaxFd -> SUBSET (1..Len(made))]
           /\ \A d \in 0..MaxFd : Closed(fd)[d] = IF d = fd THEN {} ELSE fds[d]
<1> DEFINE n == Len(made)
<1>1. fds \in [0..MaxFd -> SUBSET (1..n)] /\ MaxFd \in Nat
  BY ToolAssumption DEF FdTypes
<1> HIDE DEF n
<1>2. Closed(fd) \in [0..MaxFd -> SUBSET (1..n)]
      /\ \A d \in 0..MaxFd : Closed(fd)[d] = IF d = fd THEN {} ELSE fds[d]
  <2>1. CASE fd < 0
    <3>1. Closed(fd) = fds /\ \A d \in 0..MaxFd : d # fd
      BY <1>1, <2>1 DEF Closed
    <3> QED BY <1>1, <3>1
  <2>2. CASE ~(fd < 0)
    <3>1. Closed(fd) = [fds EXCEPT ![fd] = {}]
      BY <2>2 DEF Closed
    <3> QED BY <1>1, <3>1
  <2> QED BY <2>1, <2>2
<1> QED BY <1>2 DEF n

LEMMA FdStep == ASSUME FdTypes, AskedInv, IoTypes, [Next]_vars PROVE FdTypes'
<1> USE DEF envVars, procVars, fileVars, ioVars, histVars
<1>1. CASE Start
  BY <1>1 DEF Start, FdTypes
<1>2. CASE Settings
  <2>1. UNCHANGED <<cmd, fds, names, written, made, cwd>> /\ cmd \in Commands /\ env \in Envs
        /\ (phase' = "setup" => todo' = Script(cmd))
    BY <1>2 DEF Settings, UsageExit, AskedInv, AskedTypes
  <2>2. phase' = "setup" /\ ~cmd.daemon => 6 \notin Ranks(todo')
    BY <2>1, ScriptOrder
  <2> QED BY <2>1, <2>2 DEF FdTypes
<1>3. fds \in [0..MaxFd -> SUBSET (1..Len(made))]
  BY DEF FdTypes
<1>4. CASE AddPcapifInput \/ AddPcapfileInput \/ AddSockInput \/ AddXsockInput
           \/ AddFileInput \/ AddPresInput \/ AddSockOutput \/ AddXsockOutput \/ PidfileOpen
  <2>1. /\ phase = "setup" /\ todo # <<>> /\ todo' = Tail(todo)
        /\ UNCHANGED <<cmd, cwd, names, written>>
        /\ \/ \E by \in Maker : NewObject(by)
           \/ UNCHANGED <<fds, made>>
    BY <1>4 DEF AddPcapifInput, AddPcapfileInput, AddSockInput, AddXsockInput, Next1, Item, Maker,
                AddFileInput, AddPresInput, OpenRfile, NewInput, AddSockOutput, AddXsockOutput,
                PidfileOpen
  <2>2. CASE UNCHANGED <<fds, made>>
    BY <1>3, <2>1, <2>2, FdSame
  <2>3. CASE \E by \in Maker : NewObject(by)
    <3>1. /\ Len(made) \in Nat /\ Len(made') = Len(made) + 1
          /\ fds' \in [0..MaxFd -> SUBSET (1..Len(made'))]
      BY <2>3, NewObjectIs
    <3>2. /\ \A e \in names' : e.obj \in 1..Len(made')
          /\ \A w \in written' : w[1] \in 1..Len(made')
      BY <2>1, <3>1, StillObjects
    <3> QED BY <2>1, <3>1, <3>2, FdKeep
  <2> QED BY <2>1, <2>2, <2>3
<1>5. ASSUME NEW nm, OpenWfile(nm),
             UNCHANGED <<cmd, cwd>>, written' \subseteq written \cup {<<obj, Other>> : obj \in fds'[2]},
             phase' = "setup" => phase = "setup" /\ todo # <<>> /\ todo' = Tail(todo)
      PROVE  FdTypes'
  <2>1. /\ Len(made) \in Nat
        /\ Len(made') \in {Len(made), Len(made) + 1}
        /\ fds' \in [0..MaxFd -> SUBSET (1..Len(made'))]
        /\ \E obj \in 1..Len(made') : names' = names \cup {[name |-> Located(nm), obj |-> obj]}
    BY <1>5, OpenWfileIs
  <2>2. /\ \A e \in names : e.obj \in 1..Len(made')
        /\ \A w \in written : w[1] \in 1..Len(made')
    BY <2>1, StillObjects
  <2>3. \A e \in names' : e.obj \in 1..Len(made')
    BY <2>1, <2>2
  <2>4. fds'[2] \subseteq 1..Len(made')
    BY <2>1, ToolAssumption
  <2>5. \A w \in written' : w[1] \in 1..Len(made')
    <3>1. ASSUME NEW w \in written', w \notin written PROVE w[1] \in 1..Len(made')
      <4>1. PICK obj \in fds'[2] : w = <<obj, Other>>
        BY <1>5, <3>1
      <4> QED BY <2>4, <4>1
    <3> QED BY <2>2, <3>1
  <2> QED BY <1>5, <2>1, <2>3, <2>5, FdKeep
<1>6. CASE AddFileOutput \/ AddPresOutput \/ Validate
  <2>1. /\ phase = "setup" /\ todo # <<>> /\ (phase' = "setup" => todo' = Tail(todo))
        /\ UNCHANGED <<cmd, cwd, written>>
        /\ \/ \E nm : OpenWfile(nm)
           \/ UNCHANGED <<fds, made, names>>
    BY <1>6 DEF AddFileOutput, AddPresOutput, Validate, AddWfile, Item, Next1, UsageExit
  <2>2. CASE UNCHANGED <<fds, made, names>>
    BY <1>3, <2>1, <2>2, FdSame
  <2>3. CASE \E nm : OpenWfile(nm)
    BY <1>5, <2>1, <2>3
  <2> QED BY <2>1, <2>2, <2>3
<1>7. CASE UsageItem \/ ItemFails \/ DropRoot \/ XsInit \/ Signals
  BY <1>3, <1>7, FdSame DEF UsageItem, ItemFails, DropRoot, XsInit, Signals, UsageExit, Item, Next1
<1>8. CASE Daemonize
  <2>1. phase = "setup" /\ todo # <<>> /\ Head(todo).op = "daemonize" /\ todo' = Tail(todo)
        /\ UNCHANGED <<cmd, made, names, written>>
        /\ fds' = [d \in 0..MaxFd |-> IF d <= 2 THEN {} ELSE fds[d]]
    BY <1>8 DEF Daemonize, Item, Next1
  <2>2. cmd.daemon
    <3>1. Rank(Head(todo).op) = 6 /\ Rank(Head(todo).op) \in Ranks(todo)
      BY <2>1, ItemDone, RankFacts
    <3> QED BY <2>1, <3>1 DEF FdTypes, AskedInv, AskedTypes
  <2>3. fds' \in [0..MaxFd -> SUBSET (1..Len(made))]
    BY <1>3, <2>1
  <2> QED BY <2>1, <2>2, <2>3, FdSame
<1>9. CASE PidfileWrite
  <2>1. phase = "setup" /\ todo # <<>> /\ todo' = Tail(todo) /\ UNCHANGED <<cmd, made, names, written, cwd>>
        /\ (fds' = fds \/ fds' = [fds EXCEPT ![pidfile.fd] = {}])
    BY <1>9 DEF PidfileWrite, Item, Next1
  <2>2. fds' \in [0..MaxFd -> SUBSET (1..Len(made))]
    <3>1. PICK n : n = Len(made)
      OBVIOUS
    <3> QED BY <1>3, <2>1, <3>1
  <2> QED BY <2>1, <2>2, FdSame
<1>10. ASSUME NEW i \in DOMAIN inputs, InputEof(i) PROVE FdTypes'
  <2>1. inputs[i].fd \in Int
    <3>1. PICK S : S = Input
      OBVIOUS
    <3>2. inputs \in Seq(S)
      BY <3>1 DEF IoTypes
    <3>3. inputs[i] \in S
      BY <3>2
    <3>4. PICK Confs : Input = [op : InOp, conf : Confs, open : BOOLEAN, fd : Int]
      BY DEF Input
    <3> QED BY <3>1, <3>3, <3>4
  <2>2. fds' \in [0..MaxFd -> SUBSET (1..Len(made))]
    BY <1>10, <2>1, ClosedFds DEF InputEof
  <2> QED BY <1>10, <2>2, FdSame DEF InputEof
<1>11. ASSUME NEW o \in DOMAIN outputs, Write(o) PROVE FdTypes'
  <2>1. \A w \in Reached(outputs[o].fd, o) : w[1] \in 1..Len(made)
    BY OutputIs, ReachedIs
  <2>2. \A w \in written' : w[1] \in 1..Len(made)
    BY <1>11, <2>1 DEF Write, FdTypes
  <2> QED BY <1>11, <2>2 DEF Write, FdTypes
<1>12. ASSUME NEW o \in DOMAIN outputs, CloseOutput(o) \/ EndOutput(o) PROVE FdTypes'
  <2>1. fds' \in [0..MaxFd -> SUBSET (1..Len(made))]
    BY <1>12, OutputIs, ClosedFds DEF CloseOutput, EndOutput
  <2> QED BY <1>12, <2>1, FdSame DEF CloseOutput, EndOutput
<1>13. ASSUME NEW o \in DOMAIN outputs, phase \in {"running", "ending"}, Exec(o) PROVE FdTypes'
  <2> DEFINE tmp == Located(TmpName(outputs[o].file, outputs[o].stamp))
             cur == Located(CurName(outputs[o].file, Suffix(outputs[o].type), outputs[o].stamp))
             found == {e \in names : e.name = tmp}
             objs == {e.obj : e \in found}
  <2>1. /\ names' \subseteq names \cup {[name |-> cur, obj |-> b] : b \in objs}
        /\ written' \subseteq written \cup Reached(1, Other) \cup Reached(2, Other)
        /\ UNCHANGED <<cmd, made, fds, cwd, phase, todo>>
    BY <1>13 DEF Exec, KickfileExec
  <2>2. objs \subseteq 1..Len(made)
    BY DEF FdTypes
  <2> HIDE DEF objs, cur
  <2>3. \A e \in names' : e.obj \in 1..Len(made)
    <3>1. ASSUME NEW e \in names', e \notin names PROVE e.obj \in 1..Len(made)
      <4>1. PICK b \in objs : e = [name |-> cur, obj |-> b]
        BY <2>1, <3>1
      <4> QED BY <2>2, <4>1
    <3> QED BY <3>1 DEF FdTypes
  <2>4. \A w \in written' : w[1] \in 1..Len(made)
    <3>1. 1 \in 0..MaxFd /\ 2 \in 0..MaxFd /\ 1 \in Int /\ 2 \in Int
      BY ToolAssumption
    <3>2. \A w \in Reached(1, Other) \cup Reached(2, Other) : w[1] \in 1..Len(made)
      BY <3>1, ReachedIs
    <3> QED BY <2>1, <3>2 DEF FdTypes
  <2> QED BY <1>13, <2>1, <2>3, <2>4 DEF FdTypes
<1>14. ASSUME NEW o \in DOMAIN outputs, phase \in {"running", "ending"}, Reopen(o) PROVE FdTypes'
  <2>1. UNCHANGED <<cmd, cwd, todo>> /\ phase' # "setup"
    BY <1>14 DEF Reopen
  <2>2. CASE UNCHANGED <<fds, made, names, written>>
    BY <1>3, <2>1, <2>2, FdSame
  <2>3. CASE /\ OpenWfile(TmpName(outputs[o].file, stamp + 1))
             /\ written' \subseteq written \cup {<<obj, Other>> : obj \in fds'[2]}
    BY <1>5, <2>1, <2>3
  <2> QED BY <1>14, <2>2, <2>3, ReopenPut
<1>15. CASE LoopEnds \/ Exit
  BY <1>3, <1>15, FdSame DEF LoopEnds, Exit
<1>16. CASE EndInputs
  <2>1. fds' \in [0..MaxFd -> SUBSET (1..Len(made))]
    <3>1. fds' = [d \in 0..MaxFd |->
                    IF \E i \in DOMAIN inputs : inputs[i].open /\ inputs[i].fd = d THEN {} ELSE fds[d]]
      BY <1>16 DEF EndInputs
    <3> QED BY <1>3, <3>1
  <2> QED BY <1>16, <2>1, FdSame DEF EndInputs
<1>17. CASE Terminated \/ UNCHANGED vars
  BY <1>17 DEF Terminated, vars, FdTypes
<1> QED
  BY <1>1, <1>2, <1>4, <1>6, <1>7, <1>8, <1>9, <1>10, <1>11, <1>12, <1>13, <1>14, <1>15, <1>16,
     <1>17 DEF Next

-----------------------------------------------------------------------------
(***************************************************************************)
(* The files that are rotated                                              *)
(***************************************************************************)
Kicked == Kicker # "none"
Owner(o) == outputs[o].user = "kick"
Held(o) == outputs[o].open /\ outputs[o].step = "idle"
Live(o) == outputs[o].open /\ outputs[o].step \in {"idle", "closed"}

\* The temporary name of a file in the file system.
TmpAt(file, t, dir) ==
    [at |-> IF file.abs THEN "abs" ELSE dir, base |-> file.base, part |-> TRUE,
     suffix |-> "", stamp |-> t]

\* Every name has the time of some rotation, and every output that is rotated has
\* a time of its own.
NameInv == \A e \in names : e.name.stamp \in 1..stamp
StampInv ==
    /\ \A o \in DOMAIN outputs : Owner(o) => outputs[o].stamp \in 1..stamp
    /\ \A o, p \in DOMAIN outputs : Owner(o) /\ Owner(p) /\ outputs[o].stamp = outputs[p].stamp => o = p

\* A file with a name is open nowhere but at the output of that time.
OpenInv ==
    \A e \in names, d \in 0..MaxFd :
        e.obj \in fds[d] =>
          \E o \in DOMAIN outputs :
              Owner(o) /\ Held(o) /\ outputs[o].stamp = e.name.stamp /\ outputs[o].fd = d

\* The file of an output can be found until kickfile_exec() has looked for it.
TmpInv ==
    \A o \in DOMAIN outputs :
        Owner(o) /\ Live(o) =>
          \/ cmd.daemon /\ Relative(o)
          \/ \E e \in names : e.name = TmpAt(outputs[o].file, outputs[o].stamp, cwd)

\* What became of the files that were closed.
FateInv ==
    \A f \in fates :
        /\ f.output \in DOMAIN outputs
        /\ f.how = "handed" =>
             /\ \E e \in names : e.obj = f.obj /\ ~e.name.part /\ e.name.stamp = f.stamp
             /\ \A d \in 0..MaxFd : f.obj \notin fds[d]
        /\ f.how = "left" => cmd.daemon /\ Relative(f.output)

FilesInv == NameInv /\ StampInv /\ OpenInv /\ TmpInv /\ FateInv

LEMMA TmpAtIs ==
    ASSUME NEW file, NEW t, NEW n, n = TmpAt(file, t, cwd) PROVE n.stamp = t /\ n.part = TRUE
  BY DEF TmpAt

LEMMA TmpIs == ASSUME NEW file, NEW t PROVE Located(TmpName(file, t)) = TmpAt(file, t, cwd)
<1>1. PICK n : n = TmpName(file, t)
  OBVIOUS
<1>2. n.base = file.base /\ n.abs = file.abs /\ n.part = TRUE /\ n.suffix = "" /\ n.stamp = t
  BY <1>1 DEF TmpName, Plain
<1>3. Located(n) = TmpAt(file, t, cwd)
  BY <1>2 DEF Located, TmpAt
<1> QED BY <1>1, <1>3

LEMMA CurIs ==
    ASSUME NEW file, NEW suffix, NEW t
    PROVE  /\ Located(CurName(file, suffix, t)).part = FALSE
           /\ Located(CurName(file, suffix, t)).stamp = t
<1>1. PICK m : m = CurName(file, suffix, t)
  OBVIOUS
<1>2. m.part = FALSE /\ m.stamp = t
  BY <1>1 DEF CurName, Plain
<1>3. Located(m).part = FALSE /\ Located(m).stamp = t
  BY <1>2 DEF Located
<1> QED BY <1>1, <1>3

\* Steps that touch no file with a name: inputs, sockets, descriptors that close.
LEMMA FilesQuiet ==
    ASSUME FilesInv, FdTypes, UNCHANGED <<cmd, names, stamp, fates>>, cwd' = cwd \/ cmd.daemon,
           Len(made) \in Nat,
           \A d \in 0..MaxFd : fds'[d] \subseteq fds[d] \cup {Len(made) + 1},
           DOMAIN outputs \subseteq DOMAIN outputs',
           \A p \in DOMAIN outputs : outputs'[p] = outputs[p],
           \A p \in DOMAIN outputs' : p \notin DOMAIN outputs => outputs'[p].user # "kick"
    PROVE  FilesInv'
<1>1. \A p \in DOMAIN outputs' : Owner(p)' => p \in DOMAIN outputs /\ Owner(p)
  BY DEF Owner
<1>2. \A p \in DOMAIN outputs : (Owner(p)' <=> Owner(p)) /\ (Held(p)' <=> Held(p)) /\ (Live(p)' <=> Live(p))
  BY DEF Owner, Held, Live
<1>3. NameInv'
  BY DEF FilesInv, NameInv
<1>4. StampInv'
  BY <1>1 DEF FilesInv, StampInv
<1>5. \A e \in names, d \in 0..MaxFd : e.obj \in fds'[d] => e.obj \in fds[d]
  <2>1. \A e \in names : e.obj # Len(made) + 1
    BY DEF FdTypes
  <2> QED BY <2>1
<1>6. OpenInv'
  <2>1. ASSUME NEW e \in names', NEW d \in 0..MaxFd, e.obj \in fds'[d]
        PROVE  \E o \in DOMAIN outputs' : Owner(o)' /\ Held(o)' /\ outputs'[o].stamp = e.name.stamp
                                          /\ outputs'[o].fd = d
    <3>1. PICK o \in DOMAIN outputs : Owner(o) /\ Held(o) /\ outputs[o].stamp = e.name.stamp
                                      /\ outputs[o].fd = d
      BY <1>5, <2>1 DEF FilesInv, OpenInv
    <3> QED BY <1>2, <3>1
  <2> QED BY <2>1 DEF OpenInv
<1>7. TmpInv'
  <2>1. ASSUME NEW o \in DOMAIN outputs', Owner(o)', Live(o)'
        PROVE  \/ cmd'.daemon /\ Relative(o)'
               \/ \E e \in names' : e.name = TmpAt(outputs'[o].file, outputs'[o].stamp, cwd')
    <3>1. o \in DOMAIN outputs /\ Owner(o) /\ Live(o) /\ outputs'[o] = outputs[o]
      BY <1>1, <1>2, <2>1
    <3>2. \/ cmd.daemon /\ Relative(o)
          \/ \E e \in names : e.name = TmpAt(outputs[o].file, outputs[o].stamp, cwd)
      BY <3>1 DEF FilesInv, TmpInv
    <3>3. cwd' = cwd \/ (cmd.daemon /\ Relative(o))
          \/ TmpAt(outputs[o].file, outputs[o].stamp, cwd') = TmpAt(outputs[o].file, outputs[o].stamp, cwd)
      BY DEF Relative, TmpAt
    <3> QED BY <3>1, <3>2, <3>3 DEF Relative
  <2> QED BY <2>1 DEF TmpInv
<1>8. FateInv'
  <2>1. ASSUME NEW f \in fates, f.how = "handed", NEW d \in 0..MaxFd PROVE f.obj \notin fds'[d]
    <3>1. PICK e \in names : e.obj = f.obj
      BY <2>1 DEF FilesInv, FateInv
    <3> QED BY <1>5, <2>1, <3>1 DEF FilesInv, FateInv
  <2>2. \A f \in fates : /\ f.output \in DOMAIN outputs'
                         /\ f.how = "left" => cmd'.daemon /\ Relative(f.output)'
    BY DEF FilesInv, FateInv, Relative
  <2> QED BY <2>1, <2>2 DEF FilesInv, FateInv
<1> QED BY <1>3, <1>4, <1>6, <1>7, <1>8 DEF FilesInv

\* io_close() or nmsg_io_destroy() closes an output.
LEMMA FilesClose ==
    ASSUME FilesInv, FdTypes, IoTypes, NEW o \in DOMAIN outputs, CloseOutput(o) \/ EndOutput(o)
    PROVE  FilesInv'
<1> USE DEF envVars, procVars, fileVars, ioVars, histVars
<1>1. /\ UNCHANGED <<cmd, names, stamp, fates, cwd>> /\ fds' = Closed(outputs[o].fd)
  BY DEF CloseOutput, EndOutput
<1>2. outputs[o].fd \in Int /\ Held(o)
  BY OutputIs, ClosePut DEF Held
<1>3. \A d \in 0..MaxFd : fds'[d] = IF d = outputs[o].fd THEN {} ELSE fds[d]
  BY <1>1, <1>2, ClosedFds
<1>4. PICK y : /\ Put(o, y) /\ SameOut(outputs[o], y) /\ y.stamp = outputs[o].stamp
               /\ ~y.open \/ (y.open /\ y.step = "closed")
  BY ClosePut
<1>5. /\ DOMAIN outputs' = DOMAIN outputs
      /\ \A p \in DOMAIN outputs : /\ Owner(p)' <=> Owner(p) /\ outputs'[p].stamp = outputs[p].stamp
                                   /\ outputs'[p].file = outputs[p].file
      /\ \A p \in DOMAIN outputs : Live(p)' => Live(p)
      /\ \A p \in DOMAIN outputs : p # o => outputs'[p] = outputs[p]
  BY <1>2, <1>4 DEF Put, SameOut, Owner, Live, Held
<1>6. NameInv' /\ StampInv'
  BY <1>1, <1>5 DEF FilesInv, NameInv, StampInv
<1>7. OpenInv'
  <2>1. ASSUME NEW e \in names', NEW d \in 0..MaxFd, e.obj \in fds'[d]
        PROVE  \E q \in DOMAIN outputs' : Owner(q)' /\ Held(q)' /\ outputs'[q].stamp = e.name.stamp
                                          /\ outputs'[q].fd = d
    <3>1. d # outputs[o].fd /\ e.obj \in fds[d]
      BY <1>3, <2>1
    <3>2. PICK q \in DOMAIN outputs : Owner(q) /\ Held(q) /\ outputs[q].stamp = e.name.stamp
                                      /\ outputs[q].fd = d
      BY <1>1, <2>1, <3>1 DEF FilesInv, OpenInv
    <3>3. q # o /\ outputs'[q] = outputs[q]
      BY <1>5, <3>1, <3>2
    <3> QED BY <1>5, <3>2, <3>3 DEF Held
  <2> QED BY <2>1 DEF OpenInv
<1>8. TmpInv'
  BY <1>1, <1>5 DEF FilesInv, TmpInv, Relative
<1>9. FateInv'
  BY <1>1, <1>3, <1>5 DEF FilesInv, FateInv, Relative
<1> QED BY <1>6, <1>7, <1>8, <1>9 DEF FilesInv

\* kickfile_rotate() names the next file of an output, which is new.
Opens(o, y) ==
    /\ Put(o, y) /\ y.user = "kick" /\ y.open /\ y.step = "idle" /\ y.stamp = stamp + 1 /\ y.fd = FreeFd
    /\ OpenWfile(TmpName(y.file, stamp + 1)) /\ stamp' = stamp + 1
    /\ o \in DOMAIN outputs => outputs[o].step = "execed" /\ SameOut(outputs[o], y)
    /\ UNCHANGED <<cmd, cwd, fates>>

LEMMA OpensNew ==
    ASSUME FilesInv, FdTypes, IoTypes, AskedInv, NEW o, NEW y, Opens(o, y)
    PROVE  /\ Len(made) \in Nat /\ Len(made') = Len(made) + 1
           /\ FreeFd \in 0..MaxFd /\ fds[FreeFd] = {} /\ fds'[FreeFd] = {Len(made) + 1}
           /\ \A d \in 0..MaxFd : d # FreeFd => fds'[d] = fds[d]
           /\ names' = names \cup {[name |-> TmpAt(y.file, stamp + 1, cwd), obj |-> Len(made) + 1]}
           /\ \A e \in names : e.obj # Len(made) + 1 /\ e.name.stamp # stamp + 1
           /\ \A d \in 0..MaxFd : Len(made) + 1 \notin fds[d]
<1>1. PICK tmp : tmp = TmpAt(y.file, stamp + 1, cwd)
  OBVIOUS
<1>10. Located(TmpName(y.file, stamp + 1)) = tmp /\ tmp.stamp = stamp + 1
  BY <1>1, TmpIs, TmpAtIs
<1>2. \A e \in names : e.name.stamp # stamp + 1
  BY DEF FilesInv, NameInv, IoTypes
<1>3. \A e \in names : e.name # Located(TmpName(y.file, stamp + 1))
  BY <1>10, <1>2
<1>4. OpenWfile(TmpName(y.file, stamp + 1))
  BY DEF Opens
<1>5. PICK nm : nm = TmpName(y.file, stamp + 1)
  OBVIOUS
<1>6. /\ Len(made) \in Nat /\ FreeFd \in 0..MaxFd /\ fds[FreeFd] = {}
      /\ \A d \in 0..MaxFd : d # FreeFd => fds'[d] = fds[d]
      /\ \E obj \in 1..Len(made') :
           /\ fds'[FreeFd] = {obj} /\ names' = names \cup {[name |-> Located(nm), obj |-> obj]}
           /\ obj = Len(made) + 1 /\ Len(made') = Len(made) + 1
  BY <1>3, <1>4, <1>5, OpenWfileIs
<1>7. \A k \in 1..Len(made) : k # Len(made) + 1
  BY <1>6
<1>8. \A e \in names : e.obj # Len(made) + 1
  BY <1>7 DEF FdTypes
<1>9. \A d \in 0..MaxFd : Len(made) + 1 \notin fds[d]
  BY <1>7 DEF FdTypes
<1> QED BY <1>1, <1>2, <1>5, <1>6, <1>8, <1>9, <1>10

LEMMA FilesOpen ==
    ASSUME FilesInv, FdTypes, IoTypes, AskedInv, NEW o, NEW y, Opens(o, y)
    PROVE  FilesInv'
<1> DEFINE n == Len(made) + 1
           tmp == TmpAt(y.file, stamp + 1, cwd)
           new == [name |-> tmp, obj |-> n]
<1>1. /\ FreeFd \in 0..MaxFd /\ fds[FreeFd] = {} /\ fds'[FreeFd] = {n}
      /\ \A d \in 0..MaxFd : d # FreeFd => fds'[d] = fds[d]
      /\ names' = names \cup {new}
      /\ \A e \in names : e.obj # n /\ e.name.stamp # stamp + 1
      /\ \A d \in 0..MaxFd : n \notin fds[d]
  BY OpensNew
<1>2. tmp.stamp = stamp + 1 /\ new.name = tmp /\ new.obj = n
  BY TmpAtIs
<1>3. /\ y.user = "kick" /\ y.open /\ y.step = "idle" /\ y.stamp = stamp + 1 /\ y.fd = FreeFd
      /\ UNCHANGED <<cmd, cwd, fates>> /\ stamp' = stamp + 1 /\ stamp \in Nat
      /\ DOMAIN outputs' = DOMAIN outputs \cup {o} /\ outputs'[o] = y
      /\ \A p \in DOMAIN outputs : p # o => outputs'[p] = outputs[p]
      /\ o \in DOMAIN outputs => outputs[o].step = "execed" /\ y.file = outputs[o].file
  BY DEF Opens, Put, SameOut, IoTypes
<1> HIDE DEF n, tmp, new
<1>4. o \in DOMAIN outputs => ~Held(o)
  BY <1>3 DEF Held
<1>5. \A p \in DOMAIN outputs' : p = o \/ (p \in DOMAIN outputs /\ p # o /\ outputs'[p] = outputs[p])
  BY <1>3
<1>6. Owner(o)' /\ Held(o)' /\ \A p \in DOMAIN outputs : p # o =>
         (Owner(p)' <=> Owner(p)) /\ (Held(p)' <=> Held(p)) /\ (Live(p)' <=> Live(p))
  BY <1>3 DEF Owner, Held, Live
<1>7. NameInv'
  <2>1. \A e \in names : e.name.stamp \in 1..(stamp + 1)
    BY <1>3 DEF FilesInv, NameInv
  <2>2. new.name.stamp \in 1..(stamp + 1)
    BY <1>2, <1>3
  <2> QED BY <1>1, <1>3, <2>1, <2>2 DEF NameInv
<1>8. StampInv'
  <2>1. \A p \in DOMAIN outputs : Owner(p) => outputs[p].stamp \in 1..(stamp + 1) /\ outputs[p].stamp # stamp + 1
    BY <1>3 DEF FilesInv, StampInv
  <2>2. y.stamp \in 1..(stamp + 1)
    BY <1>3
  <2>3. ASSUME NEW p \in DOMAIN outputs', Owner(p)' PROVE outputs'[p].stamp \in 1..stamp'
    BY <1>3, <1>5, <1>6, <2>1, <2>2, <2>3
  <2>4. ASSUME NEW p \in DOMAIN outputs', NEW q \in DOMAIN outputs', Owner(p)', Owner(q)',
               outputs'[p].stamp = outputs'[q].stamp
        PROVE  p = q
    <3>1. CASE p = o \/ q = o
      BY <1>3, <1>5, <1>6, <2>1, <2>4, <3>1
    <3>2. CASE p # o /\ q # o
      BY <1>5, <1>6, <2>4, <3>2 DEF FilesInv, StampInv
    <3> QED BY <3>1, <3>2
  <2> QED BY <2>3, <2>4 DEF StampInv
<1>9. OpenInv'
  <2>1. ASSUME NEW e \in names', NEW d \in 0..MaxFd, e.obj \in fds'[d]
        PROVE  \E q \in DOMAIN outputs' : Owner(q)' /\ Held(q)' /\ outputs'[q].stamp = e.name.stamp
                                          /\ outputs'[q].fd = d
    <3>1. CASE e \in names
      <4>1. d # FreeFd /\ e.obj \in fds[d]
        BY <1>1, <2>1, <3>1
      <4>2. PICK q \in DOMAIN outputs : Owner(q) /\ Held(q) /\ outputs[q].stamp = e.name.stamp
                                        /\ outputs[q].fd = d
        BY <3>1, <4>1 DEF FilesInv, OpenInv
      <4>3. q # o
        BY <1>4, <4>2
      <4> QED BY <1>3, <1>6, <4>2, <4>3
    <3>2. CASE e = new
      <4>1. d = FreeFd
        BY <1>1, <1>2, <2>1, <3>2
      <4> QED BY <1>2, <1>3, <1>6, <3>2, <4>1
    <3> QED BY <1>1, <3>1, <3>2
  <2> QED BY <2>1 DEF OpenInv
<1>10. TmpInv'
  <2>1. ASSUME NEW p \in DOMAIN outputs', Owner(p)', Live(p)'
        PROVE  \/ cmd'.daemon /\ Relative(p)'
               \/ \E e \in names' : e.name = TmpAt(outputs'[p].file, outputs'[p].stamp, cwd')
    <3>1. CASE p = o
      <4>1. TmpAt(outputs'[p].file, outputs'[p].stamp, cwd') = tmp
        BY <1>3, <3>1 DEF tmp
      <4> QED BY <1>1, <1>2, <4>1
    <3>2. CASE p # o
      <4>1. p \in DOMAIN outputs /\ Owner(p) /\ Live(p) /\ outputs'[p] = outputs[p]
        BY <1>5, <1>6, <2>1, <3>2
      <4>2. \/ cmd.daemon /\ Relative(p)
            \/ \E e \in names : e.name = TmpAt(outputs[p].file, outputs[p].stamp, cwd)
        BY <4>1 DEF FilesInv, TmpInv
      <4> QED BY <1>1, <1>3, <4>1, <4>2 DEF Relative
    <3> QED BY <3>1, <3>2
  <2> QED BY <2>1 DEF TmpInv
<1>11. FateInv'
  <2>1. ASSUME NEW f \in fates, f.how = "handed", NEW d \in 0..MaxFd PROVE f.obj \notin fds'[d]
    <3>1. f.obj # n /\ f.obj \notin fds[d]
      BY <1>1, <2>1 DEF FilesInv, FateInv
    <3> QED BY <1>1, <3>1
  <2>2. \A p \in DOMAIN outputs : Relative(p)' <=> Relative(p)
    BY <1>3 DEF Relative
  <2> QED BY <1>1, <1>3, <2>1, <2>2 DEF FilesInv, FateInv
<1> QED BY <1>7, <1>8, <1>9, <1>10, <1>11 DEF FilesInv

\* kickfile_exec(): the files it finds, the objects they are, and their new name.
Found(o) == {e \in names : e.name = TmpAt(outputs[o].file, outputs[o].stamp, cwd)}
Execs(o, objs, cur) ==
    /\ objs = {e.obj : e \in Found(o)}
    /\ cur.part = FALSE /\ cur.stamp = outputs[o].stamp
    /\ UNCHANGED <<cmd, cwd, fds, made, stamp>>
    /\ written' \subseteq written \cup Reached(1, Other) \cup Reached(2, Other)
    /\ names \ Found(o) \subseteq names'
    /\ \A e \in names' : e \in names \/ \E b \in objs : e = [name |-> cur, obj |-> b]
    /\ \A f \in fates' : \/ f \in fates
                         \/ /\ f.output = o /\ f.stamp = outputs[o].stamp
                            /\ f.how \in {"handed", "unlinked", "left"}
                            /\ f.how = "handed" => f.obj \in objs /\ [name |-> cur, obj |-> f.obj] \in names'
                            /\ f.how = "left" => Found(o) = {}

LEMMA FoundIs ==
    ASSUME NEW o, NEW e \in Found(o)
    PROVE  e \in names /\ e.name.part = TRUE /\ e.name.stamp = outputs[o].stamp
<1>1. e \in names /\ e.name = TmpAt(outputs[o].file, outputs[o].stamp, cwd)
  BY DEF Found
<1>2. PICK n, file, t : n = e.name /\ file = outputs[o].file /\ t = outputs[o].stamp
  OBVIOUS
<1>3. n = TmpAt(file, t, cwd)
  BY <1>1, <1>2
<1>4. n.stamp = t /\ n.part = TRUE
  BY <1>3 DEF TmpAt
<1> QED BY <1>1, <1>2, <1>4

LEMMA ExecIs ==
    ASSUME FilesInv, IoTypes, NEW o \in DOMAIN outputs, Exec(o)
    PROVE  \E objs, cur : Execs(o, objs, cur)
<1> USE DEF envVars, procVars, fileVars, ioVars, histVars
<1> DEFINE tmp == TmpAt(outputs[o].file, outputs[o].stamp, cwd)
           found == {e \in names : e.name = tmp}
           objs == {e.obj : e \in found}
           cur == Located(CurName(outputs[o].file, Suffix(outputs[o].type), outputs[o].stamp))
           fate(how) == {[obj |-> b, output |-> o, stamp |-> outputs[o].stamp, how |-> how] : b \in objs}
           left == [obj |-> 0, output |-> o, stamp |-> outputs[o].stamp, how |-> "left"]
<1>1. tmp = Located(TmpName(outputs[o].file, outputs[o].stamp))
      /\ cur.part = FALSE /\ cur.stamp = outputs[o].stamp
  <2>1. PICK file, t, suffix : file = outputs[o].file /\ t = outputs[o].stamp /\ suffix = Suffix(outputs[o].type)
    OBVIOUS
  <2>2. /\ Located(TmpName(file, t)) = TmpAt(file, t, cwd)
        /\ Located(CurName(file, suffix, t)).part = FALSE
        /\ Located(CurName(file, suffix, t)).stamp = t
    BY TmpIs, CurIs
  <2> QED BY <2>1, <2>2
<1>2. /\ UNCHANGED <<cmd, cwd, fds, made, stamp>>
      /\ written' \subseteq written \cup Reached(1, Other) \cup Reached(2, Other)
      /\ \/ /\ names' = (names \ found) \cup {[name |-> cur, obj |-> b] : b \in objs}
            /\ fates' = fates \cup fate("handed")
         \/ names' = names \ found /\ fates' = fates \cup fate("unlinked")
         \/ found = {} /\ names' = names /\ fates' = fates \cup {left}
  BY <1>1 DEF Exec, KickfileExec
<1> HIDE DEF tmp, cur
<1>3. \A how : \A f \in fate(how) : f.output = o /\ f.stamp = outputs[o].stamp /\ f.how = how /\ f.obj \in objs
  OBVIOUS
<1>4. left.output = o /\ left.stamp = outputs[o].stamp /\ left.how = "left"
  OBVIOUS
<1> HIDE DEF fate, left, objs, found
<1>5. names \ found \subseteq names'
      /\ \A e \in names' : e \in names \/ \E b \in objs : e = [name |-> cur, obj |-> b]
  BY <1>2
<1>6. \A f \in fates' : \/ f \in fates
                        \/ /\ f.output = o /\ f.stamp = outputs[o].stamp
                           /\ f.how \in {"handed", "unlinked", "left"}
                           /\ f.how = "handed" => f.obj \in objs /\ [name |-> cur, obj |-> f.obj] \in names'
                           /\ f.how = "left" => found = {}
  BY <1>2, <1>3, <1>4
<1>7. Found(o) = found /\ objs = {e.obj : e \in Found(o)}
  BY DEF Found, found, tmp, objs
<1>8. Execs(o, objs, cur)
  BY <1>1, <1>2, <1>5, <1>6, <1>7 DEF Execs
<1> QED BY <1>8

LEMMA FilesExec ==
    ASSUME FilesInv, FdTypes, IoTypes, NEW o \in DOMAIN outputs, Exec(o)
    PROVE  FilesInv'
<1>1. PICK objs, cur : Execs(o, objs, cur)
  BY ExecIs
<1>2. PICK y : /\ Put(o, y) /\ SameOut(outputs[o], y) /\ y.stamp = outputs[o].stamp
               /\ ~y.open \/ y.step = "execed"
  BY ExecPut
<1>3. /\ outputs[o].step = "closed" /\ Owner(o) /\ Live(o) /\ ~Held(o)
  BY ExecPut DEF Output, Owner, Live, Held
<1>4. /\ DOMAIN outputs' = DOMAIN outputs
      /\ \A p \in DOMAIN outputs : /\ Owner(p)' <=> Owner(p) /\ outputs'[p].stamp = outputs[p].stamp
                                   /\ Relative(p)' <=> Relative(p)
      /\ \A p \in DOMAIN outputs : p # o => outputs'[p] = outputs[p] /\ (Live(p)' <=> Live(p))
                                            /\ (Held(p)' <=> Held(p))
      /\ ~Live(o)'
  BY <1>2 DEF Put, SameOut, Owner, Live, Held, Relative
<1>5. /\ UNCHANGED <<cmd, cwd, fds, stamp>> /\ cur.part = FALSE /\ cur.stamp = outputs[o].stamp
      /\ \A e \in names' : e \in names \/ \E b \in objs : e = [name |-> cur, obj |-> b]
      /\ names \ Found(o) \subseteq names'
  BY <1>1 DEF Execs
<1>6. ASSUME NEW b \in objs
      PROVE  /\ \A d \in 0..MaxFd : b \notin fds[d]
             /\ [name |-> cur, obj |-> b].name.stamp = outputs[o].stamp
  <2>1. PICK e \in Found(o) : b = e.obj
    BY <1>1, <1>6 DEF Execs
  <2>2. e \in names /\ e.name.stamp = outputs[o].stamp
    BY <2>1, FoundIs
  <2>3. ASSUME NEW d \in 0..MaxFd, b \in fds[d] PROVE FALSE
    <3>1. PICK q \in DOMAIN outputs : Owner(q) /\ Held(q) /\ outputs[q].stamp = e.name.stamp
      BY <2>1, <2>2, <2>3 DEF FilesInv, OpenInv
    <3>2. q = o
      BY <1>3, <2>2, <3>1 DEF FilesInv, StampInv
    <3> QED BY <1>3, <3>1, <3>2
  <2> QED BY <1>5, <2>3
<1>7. NameInv'
  <2>1. ASSUME NEW e \in names' PROVE e.name.stamp \in 1..stamp
    <3>1. CASE e \in names
      BY <3>1 DEF FilesInv, NameInv
    <3>2. CASE e \notin names
      <4>1. e.name.stamp = outputs[o].stamp
        BY <1>5, <1>6, <3>2
      <4> QED BY <1>3, <4>1 DEF FilesInv, StampInv
    <3> QED BY <3>1, <3>2
  <2> QED BY <1>5, <2>1 DEF NameInv
<1>8. StampInv'
  BY <1>4, <1>5 DEF FilesInv, StampInv
<1>9. OpenInv'
  <2>1. ASSUME NEW e \in names', NEW d \in 0..MaxFd, e.obj \in fds'[d]
        PROVE  \E q \in DOMAIN outputs' : Owner(q)' /\ Held(q)' /\ outputs'[q].stamp = e.name.stamp
                                          /\ outputs'[q].fd = d
    <3>1. e \in names
      <4>1. \A b \in objs : [name |-> cur, obj |-> b].obj = b
        OBVIOUS
      <4> QED BY <1>5, <1>6, <2>1, <4>1
    <3>2. PICK q \in DOMAIN outputs : Owner(q) /\ Held(q) /\ outputs[q].stamp = e.name.stamp
                                      /\ outputs[q].fd = d
      BY <1>5, <2>1, <3>1 DEF FilesInv, OpenInv
    <3>3. q # o
      BY <1>3, <3>2
    <3> QED BY <1>4, <3>2, <3>3
  <2> QED BY <2>1 DEF OpenInv
<1>10. TmpInv'
  <2>1. ASSUME NEW p \in DOMAIN outputs', Owner(p)', Live(p)'
        PROVE  \/ cmd'.daemon /\ Relative(p)'
               \/ \E e \in names' : e.name = TmpAt(outputs'[p].file, outputs'[p].stamp, cwd')
    <3>1. p \in DOMAIN outputs /\ p # o /\ Owner(p) /\ Live(p) /\ outputs'[p] = outputs[p]
      BY <1>4, <2>1
    <3>2. CASE cmd.daemon /\ Relative(p)
      BY <1>4, <1>5, <3>1, <3>2
    <3>3. CASE \E e \in names : e.name = TmpAt(outputs[p].file, outputs[p].stamp, cwd)
      <4>1. PICK e \in names : e.name = TmpAt(outputs[p].file, outputs[p].stamp, cwd)
        BY <3>3
      <4>2. e.name.stamp = outputs[p].stamp
        <5>1. PICK n, file, t : n = e.name /\ file = outputs[p].file /\ t = outputs[p].stamp
          OBVIOUS
        <5>2. n = TmpAt(file, t, cwd)
          BY <4>1, <5>1
        <5>3. n.stamp = t
          BY <5>2 DEF TmpAt
        <5> QED BY <5>1, <5>3
      <4>3. outputs[p].stamp # outputs[o].stamp
        BY <1>3, <3>1 DEF FilesInv, StampInv
      <4>4. e \in names'
        BY <1>5, <4>2, <4>3, FoundIs
      <4> QED BY <1>5, <3>1, <4>1, <4>4
    <3> QED BY <3>1, <3>2, <3>3 DEF FilesInv, TmpInv
  <2> QED BY <2>1 DEF TmpInv
<1>11. FateInv'
  <2>1. ASSUME NEW f \in fates', f \in fates
        PROVE  /\ f.output \in DOMAIN outputs'
               /\ f.how = "handed" =>
                    /\ \E e \in names' : e.obj = f.obj /\ ~e.name.part /\ e.name.stamp = f.stamp
                    /\ \A d \in 0..MaxFd : f.obj \notin fds'[d]
               /\ f.how = "left" => cmd'.daemon /\ Relative(f.output)'
    <3>1. f.output \in DOMAIN outputs' /\ (f.how = "left" => cmd'.daemon /\ Relative(f.output)')
      BY <1>4, <1>5, <2>1 DEF FilesInv, FateInv
    <3>2. ASSUME f.how = "handed"
          PROVE  /\ \E e \in names' : e.obj = f.obj /\ ~e.name.part /\ e.name.stamp = f.stamp
                 /\ \A d \in 0..MaxFd : f.obj \notin fds'[d]
      <4>1. PICK e \in names : e.obj = f.obj /\ ~e.name.part /\ e.name.stamp = f.stamp
        BY <2>1, <3>2 DEF FilesInv, FateInv
      <4>2. e \in names'
        BY <1>5, <4>1, FoundIs
      <4> QED BY <1>5, <2>1, <3>2, <4>1, <4>2 DEF FilesInv, FateInv
    <3> QED BY <3>1, <3>2
  <2>2. ASSUME NEW f \in fates', f \notin fates
        PROVE  /\ f.output \in DOMAIN outputs'
               /\ f.how = "handed" =>
                    /\ \E e \in names' : e.obj = f.obj /\ ~e.name.part /\ e.name.stamp = f.stamp
                    /\ \A d \in 0..MaxFd : f.obj \notin fds'[d]
               /\ f.how = "left" => cmd'.daemon /\ Relative(f.output)'
    <3>1. /\ f.output = o /\ f.stamp = outputs[o].stamp
          /\ f.how = "handed" => f.obj \in objs /\ [name |-> cur, obj |-> f.obj] \in names'
          /\ f.how = "left" => Found(o) = {}
      BY <1>1, <2>2 DEF Execs
    <3>2. ASSUME f.how = "handed"
          PROVE  /\ \E e \in names' : e.obj = f.obj /\ ~e.name.part /\ e.name.stamp = f.stamp
                 /\ \A d \in 0..MaxFd : f.obj \notin fds'[d]
      <4>1. PICK e : e = [name |-> cur, obj |-> f.obj]
        OBVIOUS
      <4>2. e \in names' /\ e.obj = f.obj /\ e.name = cur
        BY <3>1, <3>2, <4>1
      <4> QED BY <1>5, <1>6, <3>1, <3>2, <4>2
    <3>3. ASSUME f.how = "left" PROVE cmd'.daemon /\ Relative(o)'
      <4>1. \A e \in names : e.name # TmpAt(outputs[o].file, outputs[o].stamp, cwd)
        BY <3>1, <3>3 DEF Found
      <4> QED BY <1>3, <1>4, <1>5, <4>1 DEF FilesInv, TmpInv
    <3> QED BY <1>4, <3>1, <3>2, <3>3
  <2> QED BY <2>1, <2>2 DEF FateInv
<1> QED BY <1>7, <1>8, <1>9, <1>10, <1>11 DEF FilesInv

-----------------------------------------------------------------------------
(***************************************************************************)
(* Who holds a descriptor: an open input, an output that can be written to *)
(* or the pidfile.  As long as no descriptor is closed behind its holder's *)
(* back no two have the same one.                                          *)
(***************************************************************************)
Undisturbed == ~cmd.daemon /\ ~StdinTwice
Holders == {"in", "out", "pid"} \X Nat
Has(h, d) ==
    \/ h[1] = "in" /\ h[2] \in DOMAIN inputs /\ inputs[h[2]].open /\ inputs[h[2]].fd = d
    \/ h[1] = "out" /\ h[2] \in DOMAIN outputs /\ Held(h[2]) /\ outputs[h[2]].fd = d
    \/ h[1] = "pid" /\ h[2] = 0 /\ pidfile.state = "open" /\ pidfile.fd = d
Early == phase \in {"start", "args", "setup"}

HoldInv ==
    /\ fds[1] # {} /\ fds[2] # {}
    /\ \A h \in Holders, d \in 0..MaxFd : Has(h, d) => d \notin {1, 2} /\ fds[d] # {}
    /\ \A h, g \in Holders, d \in 0..MaxFd : Has(h, d) /\ Has(g, d) => h = g
    /\ Early => fds[0] # {} /\ \A h \in Holders : Has(h, 0) => h[1] = "in"

\* What was written to a file that can still be written to is its output's, and so
\* is what was written to a file that was handed over.
OwnInv ==
    \A e \in names, w \in written, o \in DOMAIN outputs :
        Owner(o) /\ Live(o) /\ e.name.stamp = outputs[o].stamp /\ w[1] = e.obj => w[2] = o
WroteInv == \A f \in fates, w \in written : f.how = "handed" /\ w[1] = f.obj => w[2] = f.output

\* Descriptors are closed by the one who holds them, if at all.
LEMMA HoldLess ==
    ASSUME HoldInv, Early' => Early /\ fds'[0] = fds[0],
           \A h \in Holders, d \in 0..MaxFd : Has(h, d)' => Has(h, d),
           \A d \in 0..MaxFd : \/ fds'[d] = fds[d]
                               \/ /\ \E h \in Holders : Has(h, d)
                                  /\ \A h \in Holders : ~Has(h, d)'
    PROVE  HoldInv'
<1>1. 0 \in 0..MaxFd /\ 1 \in 0..MaxFd /\ 2 \in 0..MaxFd
  BY ToolAssumption
<1>2. fds'[1] # {} /\ fds'[2] # {}
  BY <1>1 DEF HoldInv
<1>3. \A h \in Holders, d \in 0..MaxFd : Has(h, d)' => d \notin {1, 2} /\ fds'[d] # {}
  BY DEF HoldInv
<1>4. \A h, g \in Holders, d \in 0..MaxFd : Has(h, d)' /\ Has(g, d)' => h = g
  BY DEF HoldInv
<1>5. Early' => fds'[0] # {} /\ \A h \in Holders : Has(h, 0)' => h[1] = "in"
  BY <1>1 DEF HoldInv
<1> QED BY <1>2, <1>3, <1>4, <1>5 DEF HoldInv

\* The lowest free descriptor is taken.
LEMMA HoldMore ==
    ASSUME HoldInv, Early' => Early, NEW m \in 0..MaxFd, NEW k \in Holders, fds[m] = {}, fds'[m] # {},
           \A d \in 0..MaxFd : d # m => fds'[d] = fds[d],
           \A h \in Holders, d \in 0..MaxFd : Has(h, d)' => Has(h, d) \/ (h = k /\ d = m)
    PROVE  HoldInv'
<1>1. 0 \in 0..MaxFd /\ 1 \in 0..MaxFd /\ 2 \in 0..MaxFd
  BY ToolAssumption
<1>2. m \notin {1, 2} /\ (Early => m # 0) /\ \A h \in Holders : ~Has(h, m)
  BY <1>1 DEF HoldInv
<1>3. fds'[1] # {} /\ fds'[2] # {}
  BY <1>1, <1>2 DEF HoldInv
<1>4. \A h \in Holders, d \in 0..MaxFd : Has(h, d)' => d \notin {1, 2} /\ fds'[d] # {}
  BY <1>2 DEF HoldInv
<1>5. \A h, g \in Holders, d \in 0..MaxFd : Has(h, d)' /\ Has(g, d)' => h = g
  BY <1>2 DEF HoldInv
<1>6. Early' => fds'[0] # {} /\ \A h \in Holders : Has(h, 0)' => h[1] = "in"
  BY <1>1, <1>2 DEF HoldInv
<1> QED BY <1>3, <1>4, <1>5, <1>6 DEF HoldInv

\* An input on standard input, the only one.
LEMMA HoldStdin ==
    ASSUME HoldInv, Early, UNCHANGED fds, NEW k \in Holders, k[1] = "in",
           \A h \in Holders : h[1] = "in" => ~Has(h, 0),
           \A h \in Holders, d \in 0..MaxFd : Has(h, d)' => Has(h, d) \/ (h = k /\ d = 0)
    PROVE  HoldInv'
<1>1. 0 \in 0..MaxFd /\ 1 \in 0..MaxFd /\ 2 \in 0..MaxFd
  BY ToolAssumption
<1>2. fds[0] # {} /\ \A h \in Holders : ~Has(h, 0)
  BY DEF HoldInv
<1>3. \A h \in Holders, d \in 0..MaxFd : Has(h, d)' => d \notin {1, 2} /\ fds'[d] # {}
  BY <1>2 DEF HoldInv
<1>4. \A h, g \in Holders, d \in 0..MaxFd : Has(h, d)' /\ Has(g, d)' => h = g
  BY <1>2 DEF HoldInv
<1>5. \A h \in Holders : Has(h, 0)' => h[1] = "in"
  BY <1>1, <1>2
<1> QED BY <1>1, <1>2, <1>3, <1>4, <1>5 DEF HoldInv

LEMMA OwnQuiet ==
    ASSUME OwnInv, WroteInv, UNCHANGED <<written, fates, names>>,
           \A p \in DOMAIN outputs' : Owner(p)' /\ Live(p)' =>
               p \in DOMAIN outputs /\ Owner(p) /\ Live(p) /\ outputs'[p].stamp = outputs[p].stamp
    PROVE  OwnInv' /\ WroteInv'
<1>1. OwnInv'
  BY DEF OwnInv
<1>2. WroteInv'
  BY DEF WroteInv
<1> QED BY <1>1, <1>2

\* The output that holds a descriptor.
LEMMA OutHas ==
    ASSUME IoTypes, NEW o \in DOMAIN outputs, Held(o), NEW d, outputs[o].fd = d
    PROVE  <<"out", o>> \in Holders /\ Has(<<"out", o>>, d)
<1>1. o \in Nat
  <2>1. PICK S : S = Output
    OBVIOUS
  <2>2. outputs \in Seq(S)
    BY <2>1 DEF IoTypes
  <2> QED BY <2>2
<1> QED BY <1>1 DEF Holders, Has

\* Descriptors 1 and 2 are not those of a file that is rotated.
LEMMA Nobody ==
    ASSUME FilesInv, IoTypes, HoldInv, NEW e \in names, NEW d \in {1, 2}
    PROVE  e.obj \notin fds[d]
<1>1. d \in 0..MaxFd
  BY ToolAssumption
<1>2. ASSUME e.obj \in fds[d] PROVE FALSE
  <2>1. PICK o \in DOMAIN outputs : Held(o) /\ outputs[o].fd = d
    BY <1>1, <1>2 DEF FilesInv, OpenInv
  <2>2. <<"out", o>> \in Holders /\ Has(<<"out", o>>, d)
    BY <2>1, OutHas
  <2> QED BY <1>1, <2>2 DEF HoldInv
<1> QED BY <1>2

LEMMA OwnWrite ==
    ASSUME FilesInv, FdTypes, IoTypes, HoldInv, OwnInv, WroteInv, NEW o \in DOMAIN outputs, Write(o)
    PROVE  OwnInv' /\ WroteInv'
<1>1. /\ UNCHANGED <<outputs, names, fates>> /\ Held(o)
      /\ written' = written \cup Reached(outputs[o].fd, o)
  BY DEF Write, Held, ioVars, fileVars
<1>2. ASSUME NEW w \in written', w \notin written
      PROVE  w[2] = o /\ w[1] \in fds[outputs[o].fd] /\ outputs[o].fd \in 0..MaxFd
  BY <1>1, <1>2, OutputIs, ReachedIs
<1>3. ASSUME NEW e \in names, NEW w \in written', NEW p \in DOMAIN outputs,
             Owner(p), Live(p), e.name.stamp = outputs[p].stamp, w[1] = e.obj
      PROVE  w[2] = p
  <2>1. CASE w \in written
    BY <1>3, <2>1 DEF OwnInv
  <2>2. CASE w \notin written
    <3>1. w[2] = o /\ e.obj \in fds[outputs[o].fd] /\ outputs[o].fd \in 0..MaxFd
      BY <1>2, <1>3, <2>2
    <3>2. PICK q \in DOMAIN outputs : Owner(q) /\ Held(q) /\ outputs[q].stamp = e.name.stamp
                                      /\ outputs[q].fd = outputs[o].fd
      BY <3>1 DEF FilesInv, OpenInv
    <3>3. q = p
      BY <1>3, <3>2 DEF FilesInv, StampInv
    <3>4. /\ <<"out", o>> \in Holders /\ Has(<<"out", o>>, outputs[o].fd)
          /\ <<"out", q>> \in Holders /\ Has(<<"out", q>>, outputs[o].fd)
      BY <1>1, <3>2, OutHas
    <3>5. <<"out", o>> = <<"out", q>>
      BY <3>1, <3>4 DEF HoldInv
    <3> QED BY <3>1, <3>3, <3>5
  <2> QED BY <2>1, <2>2
<1>4. OwnInv'
  BY <1>1, <1>3 DEF OwnInv, Owner, Live
<1>5. ASSUME NEW f \in fates, NEW w \in written', f.how = "handed", w[1] = f.obj PROVE w[2] = f.output
  <2>1. w \in written
    BY <1>2, <1>5 DEF FilesInv, FateInv
  <2> QED BY <1>5, <2>1 DEF WroteInv
<1> QED BY <1>1, <1>4, <1>5 DEF WroteInv

LEMMA OwnOpen ==
    ASSUME FilesInv, FdTypes, IoTypes, AskedInv, HoldInv, OwnInv, WroteInv, NEW o, NEW y, Opens(o, y),
           written' \subseteq written \cup {<<obj, Other>> : obj \in fds'[2]}
    PROVE  OwnInv' /\ WroteInv'
<1> DEFINE n == Len(made) + 1
           tmp == TmpAt(y.file, stamp + 1, cwd)
           new == [name |-> tmp, obj |-> n]
<1>1. /\ FreeFd \in 0..MaxFd /\ fds[FreeFd] = {} /\ fds'[FreeFd] = {n}
      /\ \A d \in 0..MaxFd : d # FreeFd => fds'[d] = fds[d]
      /\ names' = names \cup {new}
      /\ \A e \in names : e.obj # n /\ e.name.stamp # stamp + 1
      /\ \A d \in 0..MaxFd : n \notin fds[d]
      /\ Len(made) \in Nat
  BY OpensNew
<1>2. tmp.stamp = stamp + 1 /\ new.name = tmp /\ new.obj = n
  BY TmpAtIs
<1>3. \A w \in written : w[1] # n
  BY <1>1 DEF FdTypes
<1>4. /\ y.user = "kick" /\ y.stamp = stamp + 1 /\ UNCHANGED fates /\ stamp \in Nat
      /\ DOMAIN outputs' = DOMAIN outputs \cup {o} /\ outputs'[o] = y
      /\ \A p \in DOMAIN outputs : p # o => outputs'[p] = outputs[p]
  BY DEF Opens, Put, IoTypes
<1> HIDE DEF n, tmp, new
<1>5. 2 \in 0..MaxFd /\ fds'[2] = fds[2]
  BY <1>1, ToolAssumption DEF HoldInv
<1>6. \A e \in names' : e.obj \notin fds'[2]
  <2>1. \A e \in names : e.obj \notin fds[2]
    BY Nobody
  <2> QED BY <1>1, <1>2, <1>5, <2>1
<1>7. ASSUME NEW w \in written', NEW e \in names', w[1] = e.obj PROVE w \in written /\ e \in names
  <2>1. w \in written
    BY <1>6, <1>7
  <2> QED BY <1>1, <1>2, <1>3, <1>7, <2>1
<1>8. ASSUME NEW e \in names', NEW w \in written', NEW p \in DOMAIN outputs',
             Owner(p)', Live(p)', e.name.stamp = outputs'[p].stamp, w[1] = e.obj
      PROVE  w[2] = p
  <2>1. w \in written /\ e \in names
    BY <1>7, <1>8
  <2>2. p # o
    BY <1>1, <1>4, <1>8, <2>1
  <2>3. p \in DOMAIN outputs /\ outputs'[p] = outputs[p]
    BY <1>4, <2>2
  <2> QED BY <1>8, <2>1, <2>3 DEF OwnInv, Owner, Live
<1>9. OwnInv'
  BY <1>8 DEF OwnInv
<1>10. ASSUME NEW f \in fates, NEW w \in written', f.how = "handed", w[1] = f.obj PROVE w[2] = f.output
  <2>1. PICK e \in names : e.obj = f.obj
    BY <1>10 DEF FilesInv, FateInv
  <2>2. w \in written
    BY <1>1, <1>7, <1>10, <2>1
  <2> QED BY <1>10, <2>2 DEF WroteInv
<1> QED BY <1>4, <1>9, <1>10 DEF WroteInv

LEMMA OwnExec ==
    ASSUME FilesInv, FdTypes, IoTypes, HoldInv, OwnInv, WroteInv, NEW o \in DOMAIN outputs, Exec(o)
    PROVE  OwnInv' /\ WroteInv'
<1>1. PICK objs, cur : Execs(o, objs, cur)
  BY ExecIs
<1>2. PICK y : /\ Put(o, y) /\ SameOut(outputs[o], y) /\ y.stamp = outputs[o].stamp
               /\ ~y.open \/ y.step = "execed"
  BY ExecPut
<1>3. /\ outputs[o].step = "closed" /\ Owner(o) /\ Live(o)
  BY ExecPut DEF Output, Owner, Live
<1>4. /\ DOMAIN outputs' = DOMAIN outputs
      /\ \A p \in DOMAIN outputs : p # o => outputs'[p] = outputs[p] /\ (Live(p)' <=> Live(p))
                                            /\ (Owner(p)' <=> Owner(p))
      /\ ~Live(o)'
  BY <1>2 DEF Put, Owner, Live
<1>5. /\ cur.stamp = outputs[o].stamp
      /\ \A e \in names' : e \in names \/ \E b \in objs : e = [name |-> cur, obj |-> b]
  BY <1>1 DEF Execs
<1>6. ASSUME NEW e \in names, NEW w \in written', w[1] = e.obj PROVE w \in written
  <2>1. 1 \in Int /\ 2 \in Int /\ 1 \in 0..MaxFd /\ 2 \in 0..MaxFd
    BY ToolAssumption
  <2>2. \A v \in Reached(1, Other) \cup Reached(2, Other) : v[1] \in fds[1] \/ v[1] \in fds[2]
    BY <2>1, ReachedIs
  <2>3. e.obj \notin fds[1] /\ e.obj \notin fds[2]
    BY Nobody
  <2>4. written' \subseteq written \cup Reached(1, Other) \cup Reached(2, Other)
    BY <1>1 DEF Execs
  <2> QED BY <1>6, <2>2, <2>3, <2>4
<1>7. ASSUME NEW e \in names', NEW w \in written', NEW p \in DOMAIN outputs',
             Owner(p)', Live(p)', e.name.stamp = outputs'[p].stamp, w[1] = e.obj
      PROVE  w[2] = p
  <2>1. p # o /\ p \in DOMAIN outputs /\ outputs'[p] = outputs[p] /\ Owner(p) /\ Live(p)
    BY <1>4, <1>7
  <2>2. outputs[p].stamp # outputs[o].stamp
    BY <1>3, <2>1 DEF FilesInv, StampInv
  <2>3. e \in names
    <3>1. ASSUME NEW b \in objs, e = [name |-> cur, obj |-> b] PROVE FALSE
      <4>1. e.name = cur
        BY <3>1
      <4> QED BY <1>5, <1>7, <2>1, <2>2, <4>1
    <3> QED BY <1>5, <3>1
  <2>4. w \in written
    BY <1>6, <1>7, <2>3
  <2> QED BY <1>7, <2>1, <2>3, <2>4 DEF OwnInv
<1>8. OwnInv'
  BY <1>7 DEF OwnInv
<1>9. ASSUME NEW f \in fates', NEW w \in written', f.how = "handed", w[1] = f.obj PROVE w[2] = f.output
  <2>1. CASE f \in fates
    <3>1. PICK e \in names : e.obj = f.obj
      BY <1>9, <2>1 DEF FilesInv, FateInv
    <3>2. w \in written
      BY <1>6, <1>9, <3>1
    <3> QED BY <1>9, <2>1, <3>2 DEF WroteInv
  <2>2. CASE f \notin fates
    <3>1. f.output = o /\ f.obj \in objs /\ objs = {e.obj : e \in Found(o)}
      BY <1>1, <1>9, <2>2 DEF Execs
    <3>2. PICK e \in Found(o) : f.obj = e.obj
      BY <3>1
    <3>3. e \in names /\ e.name.stamp = outputs[o].stamp
      BY <3>2, FoundIs
    <3>4. w \in written
      BY <1>6, <1>9, <3>2, <3>3
    <3> QED BY <1>3, <1>9, <3>1, <3>2, <3>3, <3>4 DEF OwnInv
  <2> QED BY <2>1, <2>2
<1> QED BY <1>8, <1>9 DEF WroteInv

\* The steps, as far as descriptors go.
LEMMA HoldSame ==
    ASSUME HoldInv, Early' => Early, UNCHANGED <<fds, inputs, outputs, pidfile>>
    PROVE  HoldInv'
<1>1. \A h \in Holders, d \in 0..MaxFd : Has(h, d)' => Has(h, d)
  BY DEF Has, Held
<1> QED BY <1>1, HoldLess

LEMMA HoldPut ==
    ASSUME HoldInv, Early' => Early, FdTypes, AskedInv, UNCHANGED <<inputs, pidfile>>,
           NEW o, NEW y, Put(o, y), y.fd = FreeFd,
           FreeFd \in 0..MaxFd, fds[FreeFd] = {}, fds'[FreeFd] # {},
           \A d \in 0..MaxFd : d # FreeFd => fds'[d] = fds[d]
    PROVE  HoldInv'
<1>1. o \in Nat
  <2>1. PICK S : S = Output
    OBVIOUS
  <2>2. outputs' \in Seq(S) /\ o \in DOMAIN outputs'
    BY <2>1 DEF Put
  <2> QED BY <2>2
<1>2. PICK k \in Holders : k[1] = "out" /\ k[2] = o
  <2>1. <<"out", o>> \in Holders /\ <<"out", o>>[1] = "out" /\ <<"out", o>>[2] = o
    BY <1>1 DEF Holders
  <2> QED BY <2>1
<1>3. ASSUME NEW h \in Holders, NEW d \in 0..MaxFd, Has(h, d)', ~Has(h, d) PROVE h = k /\ d = FreeFd
  <2>1. h[1] = "out" /\ h[2] \in DOMAIN outputs' /\ Held(h[2])' /\ outputs'[h[2]].fd = d
    BY <1>3 DEF Has
  <2>2. h[2] = o
    BY <1>3, <2>1 DEF Has, Put, Held
  <2>3. h = k
    BY <1>2, <2>1, <2>2 DEF Holders
  <2> QED BY <2>1, <2>2, <2>3 DEF Put
<1>4. PICK m \in 0..MaxFd : m = FreeFd
  OBVIOUS
<1> QED BY <1>3, <1>4, HoldMore

\* An output that cannot be written to, or that has no descriptor.
LEMMA HoldShut ==
    ASSUME HoldInv, Early' => Early /\ fds'[0] = fds[0], UNCHANGED <<inputs, pidfile>>,
           NEW o, NEW y, Put(o, y), y.fd = -1 \/ ~y.open \/ y.step # "idle",
           \A d \in 0..MaxFd : \/ fds'[d] = fds[d]
                               \/ o \in DOMAIN outputs /\ Held(o) /\ outputs[o].fd = d, IoTypes
    PROVE  HoldInv'
<1>1. \A d \in 0..MaxFd : d # -1
  BY ToolAssumption
<1>2. ASSUME NEW h \in Holders, NEW d \in 0..MaxFd, Has(h, d)'
      PROVE  Has(h, d) /\ (h[1] = "out" => h[2] # o)
  <2>1. h[1] = "out" => h[2] # o /\ h[2] \in DOMAIN outputs /\ outputs'[h[2]] = outputs[h[2]]
    BY <1>1, <1>2 DEF Has, Put, Held
  <2> QED BY <1>2, <2>1 DEF Has, Held
<1>3. ASSUME NEW d \in 0..MaxFd, fds'[d] # fds[d]
      PROVE  (\E h \in Holders : Has(h, d)) /\ \A h \in Holders : ~Has(h, d)'
  <2>1. <<"out", o>> \in Holders /\ Has(<<"out", o>>, d)
    BY <1>3, OutHas
  <2>2. ASSUME NEW h \in Holders, Has(h, d)' PROVE FALSE
    <3>1. h = <<"out", o>>
      BY <1>2, <2>1, <2>2 DEF HoldInv
    <3> QED BY <1>2, <2>2, <3>1
  <2> QED BY <2>1, <2>2
<1> QED BY <1>2, <1>3, HoldLess

LEMMA InputIs ==
    ASSUME IoTypes, NEW i \in DOMAIN inputs PROVE i \in Nat /\ inputs[i].fd \in Int /\ inputs[i] \in Input
<1>1. PICK S : S = Input
  OBVIOUS
<1>2. inputs \in Seq(S)
  BY <1>1 DEF IoTypes
<1>3. inputs[i] \in S /\ i \in Nat
  BY <1>2
<1>4. PICK Confs : Input = [op : InOp, conf : Confs, open : BOOLEAN, fd : Int]
  BY DEF Input
<1> QED BY <1>1, <1>3, <1>4

LEMMA InHas ==
    ASSUME IoTypes, NEW i \in DOMAIN inputs, inputs[i].open, NEW d, inputs[i].fd = d
    PROVE  <<"in", i>> \in Holders /\ Has(<<"in", i>>, d)
<1>1. i \in Nat
  BY InputIs
<1> QED BY <1>1 DEF Holders, Has

LEMMA HoldEof ==
    ASSUME HoldInv, IoTypes, FdTypes, NEW i \in DOMAIN inputs, InputEof(i)
    PROVE  HoldInv'
<1>1. /\ ~Early' /\ UNCHANGED <<outputs, pidfile>> /\ inputs[i].open /\ fds' = Closed(inputs[i].fd)
  BY DEF InputEof, Early, procVars
<1>2. /\ DOMAIN inputs' = DOMAIN inputs /\ ~inputs'[i].open
      /\ \A j \in DOMAIN inputs : j # i => inputs'[j] = inputs[j]
  BY EofIs
<1>3. inputs[i].fd \in Int
  BY InputIs
<1>4. \A d \in 0..MaxFd : fds'[d] = IF d = inputs[i].fd THEN {} ELSE fds[d]
  BY <1>1, <1>3, ClosedFds
<1>5. ASSUME NEW h \in Holders, NEW d \in 0..MaxFd, Has(h, d)'
      PROVE  Has(h, d) /\ (h[1] = "in" => h[2] # i)
  <2>1. h[1] = "in" => h[2] # i /\ h[2] \in DOMAIN inputs /\ inputs'[h[2]] = inputs[h[2]]
    BY <1>2, <1>5 DEF Has
  <2> QED BY <1>1, <1>5, <2>1 DEF Has, Held
<1>6. ASSUME NEW d \in 0..MaxFd, fds'[d] # fds[d]
      PROVE  (\E h \in Holders : Has(h, d)) /\ \A h \in Holders : ~Has(h, d)'
  <2>1. <<"in", i>> \in Holders /\ Has(<<"in", i>>, d)
    BY <1>1, <1>4, <1>6, InHas
  <2>2. ASSUME NEW h \in Holders, Has(h, d)' PROVE FALSE
    <3>1. h = <<"in", i>>
      BY <1>5, <2>1, <2>2 DEF HoldInv
    <3> QED BY <1>5, <2>2, <3>1
  <2> QED BY <2>1, <2>2
<1> QED BY <1>1, <1>5, <1>6, HoldLess

LEMMA HoldEndInputs ==
    ASSUME HoldInv, IoTypes, FdTypes, EndInputs
    PROVE  HoldInv'
<1>1. /\ ~Early' /\ UNCHANGED <<outputs, pidfile>>
      /\ \A d \in 0..MaxFd :
           fds'[d] = IF \E i \in DOMAIN inputs : inputs[i].open /\ inputs[i].fd = d THEN {} ELSE fds[d]
  BY DEF EndInputs, Early, procVars
<1>2. DOMAIN inputs' = DOMAIN inputs /\ \A j \in DOMAIN inputs : ~inputs'[j].open
  BY EndInputsIs
<1>3. ASSUME NEW h \in Holders, NEW d \in 0..MaxFd, Has(h, d)' PROVE Has(h, d) /\ h[1] # "in"
  BY <1>1, <1>2, <1>3 DEF Has, Held
<1>4. ASSUME NEW d \in 0..MaxFd, fds'[d] # fds[d]
      PROVE  (\E h \in Holders : Has(h, d)) /\ \A h \in Holders : ~Has(h, d)'
  <2>1. PICK i \in DOMAIN inputs : inputs[i].open /\ inputs[i].fd = d
    BY <1>1, <1>4
  <2>2. <<"in", i>> \in Holders /\ Has(<<"in", i>>, d)
    BY <2>1, InHas
  <2>3. ASSUME NEW h \in Holders, Has(h, d)' PROVE FALSE
    <3>1. h = <<"in", i>>
      BY <1>3, <2>2, <2>3 DEF HoldInv
    <3> QED BY <1>3, <2>3, <3>1
  <2> QED BY <2>2, <2>3
<1> QED BY <1>1, <1>3, <1>4, HoldLess

\* What an input that is added takes: a descriptor of its own, standard input, or none.
AddsInput ==
    AddPcapifInput \/ AddPcapfileInput \/ AddSockInput \/ AddXsockInput \/ AddFileInput \/ AddPresInput

LEMMA AddsIs ==
    ASSUME AddsInput
    PROVE  /\ phase = "setup" /\ todo # <<>> /\ todo' = Tail(todo) /\ UNCHANGED <<phase, stop>>
           /\ Head(todo).op \in InOp
           /\ UNCHANGED <<envVars, procVars, names, stamp, outputs, histVars>>
           /\ \/ NewInput(FreeFd) /\ \E by : NewObject(by)
              \/ UNCHANGED <<fds, made>> /\ (NewInput(0) \/ NewInput(-1))
<1>1. \A fd : NewInput(fd) => /\ todo' = Tail(todo) /\ UNCHANGED <<phase, stop>>
                              /\ UNCHANGED <<envVars, procVars, names, stamp, outputs, histVars>>
  BY DEF NewInput, Next1
<1>2. phase = "setup" /\ todo # <<>> /\ Head(todo).op \in InOp
  BY DEF AddsInput, AddPcapifInput, AddPcapfileInput, AddSockInput, AddXsockInput, AddFileInput,
         AddPresInput, Item, InOp
<1>3. \/ NewInput(FreeFd) /\ \E by : NewObject(by)
      \/ UNCHANGED <<fds, made>> /\ (NewInput(0) \/ NewInput(-1))
  BY DEF AddsInput, AddPcapifInput, AddPcapfileInput, AddSockInput, AddXsockInput, AddFileInput,
         AddPresInput, OpenRfile
<1> QED BY <1>1, <1>2, <1>3

LEMMA HoldInput ==
    ASSUME HoldInv, IoTypes, FdTypes, AskedInv, AddsInput, ~StdinTwice'
    PROVE  HoldInv'
<1>1. /\ Early /\ Early' /\ UNCHANGED <<outputs, pidfile>> /\ Head(todo).op \in InOp
      /\ \/ NewInput(FreeFd) /\ \E by : NewObject(by)
         \/ UNCHANGED fds /\ (NewInput(0) \/ NewInput(-1))
  BY AddsIs DEF Early, procVars
<1>2. ASSUME NEW fd \in Int, NewInput(fd)
      PROVE  \E k \in Holders :
                /\ k[1] = "in" /\ k[2] \in DOMAIN inputs' /\ k[2] \notin DOMAIN inputs
                /\ inputs'[k[2]].fd = fd
                /\ DOMAIN inputs \subseteq DOMAIN inputs'
                /\ \A j \in DOMAIN inputs : inputs'[j] = inputs[j]
                /\ \A h \in Holders, d \in 0..MaxFd : Has(h, d)' => Has(h, d) \/ (h = k /\ d = fd)
  <2>1. PICK i : /\ DOMAIN inputs' = DOMAIN inputs \cup {i} /\ i \notin DOMAIN inputs
                 /\ inputs'[i].open /\ inputs'[i].fd = fd
                 /\ \A j \in DOMAIN inputs : inputs'[j] = inputs[j]
    BY <1>1, <1>2, NewInputIs
  <2>2. i \in Nat
    <3>1. PICK S : S = Input
      OBVIOUS
    <3>2. inputs' \in Seq(S) /\ i \in DOMAIN inputs'
      BY <1>1, <1>2, <2>1, <3>1, NewInputIs
    <3> QED BY <3>2
  <2>3. PICK k \in Holders : k[1] = "in" /\ k[2] = i
    <3>1. <<"in", i>> \in Holders /\ <<"in", i>>[1] = "in" /\ <<"in", i>>[2] = i
      BY <2>2 DEF Holders
    <3> QED BY <3>1
  <2>4. ASSUME NEW h \in Holders, NEW d \in 0..MaxFd, Has(h, d)', ~Has(h, d) PROVE h = k /\ d = fd
    <3>1. h[1] = "in" /\ h[2] = i
      BY <1>1, <2>1, <2>4 DEF Has, Held
    <3>2. h = k
      BY <2>3, <3>1 DEF Holders
    <3>3. inputs'[i].fd = d
      BY <2>4, <3>1 DEF Has
    <3> QED BY <2>1, <3>2, <3>3
  <2> QED BY <2>1, <2>3, <2>4
<1>3. CASE NewInput(FreeFd) /\ \E by : NewObject(by)
  <2>1. /\ FreeFd \in 0..MaxFd /\ fds[FreeFd] = {} /\ fds'[FreeFd] # {}
        /\ \A d \in 0..MaxFd : d # FreeFd => fds'[d] = fds[d]
    BY <1>3, NewObjectIs
  <2>2. PICK m \in 0..MaxFd : m = FreeFd
    BY <2>1
  <2>3. m \in Int
    BY <2>2, ToolAssumption
  <2> QED BY <1>1, <1>2, <1>3, <2>1, <2>2, <2>3, HoldMore
<1>4. CASE UNCHANGED fds /\ NewInput(-1)
  <2>1. \A d \in 0..MaxFd : d # -1
    BY ToolAssumption
  <2>2. \A h \in Holders, d \in 0..MaxFd : Has(h, d)' => Has(h, d)
    BY <1>2, <1>4, <2>1
  <2> QED BY <1>1, <1>4, <2>2, HoldLess
<1>5. CASE UNCHANGED fds /\ NewInput(0)
  <2>1. PICK k \in Holders :
                /\ k[1] = "in" /\ k[2] \in DOMAIN inputs' /\ k[2] \notin DOMAIN inputs
                /\ inputs'[k[2]].fd = 0
                /\ DOMAIN inputs \subseteq DOMAIN inputs'
                /\ \A j \in DOMAIN inputs : inputs'[j] = inputs[j]
                /\ \A h \in Holders, d \in 0..MaxFd : Has(h, d)' => Has(h, d) \/ (h = k /\ d = 0)
    BY <1>2, <1>5
  <2>2. ASSUME NEW h \in Holders, h[1] = "in", Has(h, 0) PROVE FALSE
    <3>1. h[2] \in DOMAIN inputs /\ inputs[h[2]].fd = 0
      BY <2>2 DEF Has
    <3> QED BY <2>1, <3>1 DEF StdinTwice
  <2> QED BY <1>1, <1>5, <2>1, <2>2, HoldStdin
<1> QED BY <1>1, <1>3, <1>4, <1>5

LEMMA HoldPidfile ==
    ASSUME HoldInv, FdTypes, AskedInv, PidfileOpen \/ PidfileWrite
    PROVE  HoldInv'
<1>1. PICK k \in Holders : k[1] = "pid" /\ k[2] = 0
  <2>1. <<"pid", 0>> \in Holders /\ <<"pid", 0>>[1] = "pid" /\ <<"pid", 0>>[2] = 0
    BY DEF Holders
  <2> QED BY <2>1
<1>2. UNCHANGED <<inputs, outputs>> /\ Early /\ Early'
  BY DEF PidfileOpen, PidfileWrite, Item, Next1, Early
<1>3. ASSUME NEW h \in Holders, NEW d \in 0..MaxFd, Has(h, d)', ~Has(h, d)
      PROVE  h = k /\ pidfile'.state = "open" /\ pidfile'.fd = d
  <2>1. h[1] = "pid" /\ h[2] = 0 /\ pidfile'.state = "open" /\ pidfile'.fd = d
    BY <1>2, <1>3 DEF Has, Held
  <2> QED BY <1>1, <2>1 DEF Holders
<1>4. CASE PidfileOpen
  <2>1. CASE UNCHANGED <<fds, pidfile>>
    BY <1>2, <2>1, HoldSame
  <2>2. CASE NewObject("pidfile") /\ pidfile' = [state |-> "open", fd |-> FreeFd]
    <3>1. /\ FreeFd \in 0..MaxFd /\ fds[FreeFd] = {} /\ fds'[FreeFd] # {}
          /\ \A d \in 0..MaxFd : d # FreeFd => fds'[d] = fds[d]
      BY <2>2, NewObjectIs
    <3>2. PICK m \in 0..MaxFd : m = FreeFd
      BY <3>1
    <3>3. \A h \in Holders, d \in 0..MaxFd : Has(h, d)' => Has(h, d) \/ (h = k /\ d = m)
      BY <1>3, <2>2, <3>2
    <3> QED BY <1>2, <3>1, <3>2, <3>3, HoldMore
  <2> QED BY <1>4, <2>1, <2>2 DEF PidfileOpen
<1>5. CASE PidfileWrite
  <2>1. CASE UNCHANGED <<fds, pidfile>>
    BY <1>2, <2>1, HoldSame
  <2>2. CASE /\ pidfile.state = "open" /\ pidfile'.state # "open"
             /\ fds' = [fds EXCEPT ![pidfile.fd] = {}]
    <3>1. \A h \in Holders, d \in 0..MaxFd : Has(h, d)' => Has(h, d)
      BY <1>3, <2>2
    <3>2. ASSUME NEW d \in 0..MaxFd, fds'[d] # fds[d]
          PROVE  pidfile.fd = d
      BY <2>2, <3>2 DEF FdTypes
    <3>3. ASSUME NEW d \in 0..MaxFd, fds'[d] # fds[d]
          PROVE  Has(k, d) /\ ~Has(k, d)'
      BY <1>1, <2>2, <3>2, <3>3 DEF Has
    <3>4. fds'[0] = fds[0]
      <4>1. 0 \in 0..MaxFd
        BY ToolAssumption
      <4>2. fds'[0] # fds[0] => Has(k, 0)
        BY <3>3, <4>1
      <4> QED BY <1>1, <1>2, <4>2 DEF HoldInv
    <3>5. \A d \in 0..MaxFd : \/ fds'[d] = fds[d]
                              \/ /\ \E h \in Holders : Has(h, d)
                                 /\ \A h \in Holders : ~Has(h, d)'
      <4>1. ASSUME NEW d \in 0..MaxFd, fds'[d] # fds[d], NEW h \in Holders, Has(h, d)' PROVE FALSE
        <5>1. h = k
          BY <3>1, <3>3, <4>1 DEF HoldInv
        <5> QED BY <3>3, <4>1, <5>1
      <4> QED BY <3>3, <4>1
    <3> QED BY <1>2, <3>1, <3>4, <3>5, HoldLess
  <2>3. pidfile.state = "open" => pidfile'.state = process /\ process # "open"
    BY <1>5 DEF PidfileWrite, AskedInv, AskedTypes
  <2> QED BY <1>5, <2>1, <2>2, <2>3 DEF PidfileWrite
<1> QED BY <1>4, <1>5

-----------------------------------------------------------------------------
\* The inductive invariant of HandedOver.
HandOwn == Undisturbed => OwnInv /\ WroteInv /\ HoldInv
HandInv == IF Kicked THEN FilesInv /\ HandOwn ELSE fates = {}

LEMMA SameInputs ==
    ASSUME UNCHANGED cmd, DOMAIN inputs \subseteq DOMAIN inputs',
           \A i \in DOMAIN inputs : inputs'[i].fd = inputs[i].fd
    PROVE  Undisturbed' => Undisturbed
  BY DEF Undisturbed, StdinTwice

\* Steps that leave files and their outputs alone.
LEMMA HandQuiet ==
    ASSUME FilesInv, HandOwn, FdTypes, AskedInv, UNCHANGED <<cmd, names, stamp, fates, written>>,
           cwd' = cwd \/ cmd.daemon,
           \A d \in 0..MaxFd : fds'[d] \subseteq fds[d] \cup {Len(made) + 1},
           DOMAIN outputs \subseteq DOMAIN outputs',
           \A p \in DOMAIN outputs : outputs'[p] = outputs[p],
           \A p \in DOMAIN outputs' : p \notin DOMAIN outputs => outputs'[p].user # "kick",
           Undisturbed' => Undisturbed, Undisturbed' /\ HoldInv => HoldInv'
    PROVE  FilesInv' /\ HandOwn'
<1>1. Len(made) \in Nat
  <2>1. PICK S : S = Made
    OBVIOUS
  <2>2. made \in Seq(S)
    BY <2>1 DEF AskedInv, AskedTypes
  <2> QED BY <2>2
<1>2. FilesInv'
  BY <1>1, FilesQuiet
<1>3. \A p \in DOMAIN outputs' : Owner(p)' /\ Live(p)' =>
               p \in DOMAIN outputs /\ Owner(p) /\ Live(p) /\ outputs'[p].stamp = outputs[p].stamp
  BY DEF Owner, Live
<1>4. HandOwn'
  BY <1>3, OwnQuiet DEF HandOwn
<1> QED BY <1>2, <1>4

\* Steps that open the next file of an output.
LEMMA HandOpens ==
    ASSUME FilesInv, HandOwn, FdTypes, IoTypes, AskedInv, NEW o, NEW y, Opens(o, y),
           UNCHANGED <<inputs, pidfile>>, Early' => Early,
           written' \subseteq written \cup {<<obj, Other>> : obj \in fds'[2]}
    PROVE  FilesInv' /\ HandOwn'
<1>1. FilesInv'
  BY FilesOpen
<1>2. Undisturbed' => Undisturbed
  BY SameInputs DEF Opens
<1>3. ASSUME OwnInv, WroteInv, HoldInv PROVE OwnInv' /\ WroteInv' /\ HoldInv'
  <2>1. OwnInv' /\ WroteInv'
    BY <1>3, OwnOpen
  <2>2. /\ FreeFd \in 0..MaxFd /\ fds[FreeFd] = {} /\ fds'[FreeFd] # {}
        /\ \A d \in 0..MaxFd : d # FreeFd => fds'[d] = fds[d]
    BY OpensNew
  <2>3. Put(o, y) /\ y.fd = FreeFd
    BY DEF Opens
  <2>4. HoldInv'
    BY <1>3, <2>2, <2>3, HoldPut
  <2> QED BY <2>1, <2>4
<1> QED BY <1>1, <1>2, <1>3 DEF HandOwn

LEMMA HandStep ==
    ASSUME FilesInv, HandOwn, Kicked, FdTypes, IoTypes, AskedInv, [Next]_vars
    PROVE  FilesInv' /\ HandOwn'
<1> USE DEF envVars, procVars, fileVars, ioVars, histVars
<1>1. ASSUME UNCHANGED <<cmd, names, stamp, fates, written, cwd, fds, inputs, outputs>>,
             HoldInv => HoldInv'
      PROVE  FilesInv' /\ HandOwn'
  <2>1. Undisturbed' => Undisturbed
    BY <1>1, SameInputs
  <2>2. /\ \A d \in 0..MaxFd : fds'[d] \subseteq fds[d] \cup {Len(made) + 1}
        /\ DOMAIN outputs \subseteq DOMAIN outputs'
        /\ \A p \in DOMAIN outputs : outputs'[p] = outputs[p]
        /\ \A p \in DOMAIN outputs' : p \notin DOMAIN outputs => outputs'[p].user # "kick"
    BY <1>1
  <2> QED BY <1>1, <2>1, <2>2, HandQuiet
<1>2. CASE Start \/ Settings \/ UsageItem \/ ItemFails \/ DropRoot \/ XsInit \/ Signals \/ Exit
           \/ Terminated \/ UNCHANGED vars
  <2>1. /\ UNCHANGED <<cmd, names, stamp, fates, written, cwd, fds, inputs, outputs, pidfile>>
        /\ Early' => Early
    BY <1>2 DEF Start, Settings, UsageItem, ItemFails, DropRoot, XsInit, Signals, Exit, Terminated,
                vars, UsageExit, Item, Next1, Early
  <2>2. HoldInv => HoldInv'
    BY <2>1, HoldSame
  <2> QED BY <1>1, <2>1, <2>2
<1>3. CASE LoopEnds
  <2>1. /\ UNCHANGED <<cmd, names, stamp, fates, written, cwd, fds, inputs, outputs>>
        /\ ~Early' /\ (pidfile' = pidfile \/ pidfile'.state = "none")
    BY <1>3 DEF LoopEnds, Early, AskedInv, AskedTypes
  <2>2. \A h \in Holders, d \in 0..MaxFd : Has(h, d)' => Has(h, d)
    BY <2>1 DEF Has, Held
  <2>3. HoldInv => HoldInv'
    BY <2>1, <2>2, HoldLess
  <2> QED BY <1>1, <2>1, <2>3
<1>4. CASE AddsInput
  <2>1. /\ UNCHANGED <<cmd, names, stamp, fates, written, cwd, outputs>>
        /\ \/ NewInput(FreeFd) /\ \E by : NewObject(by)
           \/ UNCHANGED <<fds, made>> /\ (NewInput(0) \/ NewInput(-1))
        /\ Head(todo).op \in InOp
    BY <1>4, AddsIs
  <2>2. \A d \in 0..MaxFd : fds'[d] \subseteq fds[d] \cup {Len(made) + 1}
    BY <2>1, NewObjectIs
  <2>3. PICK fd \in Int : NewInput(fd)
    BY <2>1, NewObjectIs, ToolAssumption
  <2>4. DOMAIN inputs \subseteq DOMAIN inputs' /\ \A i \in DOMAIN inputs : inputs'[i] = inputs[i]
    BY <2>1, <2>3, NewInputIs
  <2>5. Undisturbed' => Undisturbed
    BY <2>1, <2>4, SameInputs
  <2>6. Undisturbed' /\ HoldInv => HoldInv'
    BY <1>4, HoldInput DEF Undisturbed
  <2> QED BY <2>1, <2>2, <2>5, <2>6, HandQuiet
<1>5. CASE AddSockOutput \/ AddXsockOutput
  <2>1. /\ UNCHANGED <<cmd, names, stamp, fates, written, cwd, inputs, pidfile>> /\ Early /\ Early'
        /\ (\E by : NewObject(by)) \/ UNCHANGED <<fds, made>>
    BY <1>5 DEF AddSockOutput, AddXsockOutput, Next1, Item, Early
  <2>2. \A d \in 0..MaxFd : fds'[d] \subseteq fds[d] \cup {Len(made) + 1}
    BY <2>1, NewObjectIs
  <2>3. PICK y : /\ Put(Len(outputs) + 1, y) /\ Len(outputs) + 1 \notin DOMAIN outputs
                 /\ y.user # "kick"
                 /\ \/ y.fd = FreeFd /\ AddSockOutput
                    \/ y.fd = -1 /\ AddXsockOutput
    BY <1>5, SockPut, XsPut
  <2>4. /\ DOMAIN outputs \subseteq DOMAIN outputs'
        /\ \A p \in DOMAIN outputs : outputs'[p] = outputs[p]
        /\ \A p \in DOMAIN outputs' : p \notin DOMAIN outputs => outputs'[p].user # "kick"
    BY <2>3 DEF Put
  <2>5. Undisturbed' => Undisturbed
    BY <2>1, SameInputs
  <2>6. ASSUME HoldInv PROVE HoldInv'
    <3>1. PICK k : k = Len(outputs) + 1
      OBVIOUS
    <3>2. CASE y.fd = FreeFd /\ AddSockOutput
      <4>1. NewObject("output")
        BY <3>2 DEF AddSockOutput
      <4>2. /\ FreeFd \in 0..MaxFd /\ fds[FreeFd] = {} /\ fds'[FreeFd] # {}
            /\ \A d \in 0..MaxFd : d # FreeFd => fds'[d] = fds[d]
        BY <4>1, NewObjectIs
      <4> QED BY <2>1, <2>3, <2>6, <3>1, <3>2, <4>2, HoldPut
    <3>3. CASE y.fd = -1 /\ AddXsockOutput
      <4>1. UNCHANGED fds
        BY <3>3 DEF AddXsockOutput
      <4> QED BY <2>1, <2>3, <2>6, <3>1, <3>3, <4>1, HoldShut
    <3> QED BY <2>3, <3>2, <3>3
  <2> QED BY <2>1, <2>2, <2>4, <2>5, <2>6, HandQuiet
<1>6. ASSUME NEW type \in {"file", "pres"}, NEW file \in File \cup {Dash}, AddWfile(type, file),
             UNCHANGED <<cmd, fates, written, cwd, inputs, pidfile>>, Early' => Early
      PROVE  FilesInv' /\ HandOwn'
  <2>1. PICK y : /\ Put(Len(outputs) + 1, y) /\ Len(outputs) + 1 \notin DOMAIN outputs
                 /\ y.open /\ y.step = "idle" /\ y.file = file /\ y.user = "kick"
                 /\ y.stamp = stamp + 1 /\ y.fd = FreeFd
    BY <1>6, WfilePut DEF Kicked
  <2>2. OpenWfile(TmpName(file, stamp + 1)) /\ stamp' = stamp + 1
    BY <1>6 DEF AddWfile, Kicked
  <2>3. PICK k : k = Len(outputs) + 1
    OBVIOUS
  <2>4. Opens(k, y)
    BY <1>6, <2>1, <2>2, <2>3 DEF Opens
  <2> QED BY <1>6, <2>4, HandOpens
<1>7. CASE AddFileOutput \/ AddPresOutput
  <2>1. PICK type \in {"file", "pres"} : AddWfile(type, Head(todo).file)
    BY <1>7 DEF AddFileOutput, AddPresOutput
  <2>2. /\ Head(todo).file \in File
        /\ UNCHANGED <<cmd, fates, written, cwd, inputs, pidfile>> /\ Early
    BY <1>7, ItemIs DEF AddFileOutput, AddPresOutput, Item, Early
  <2> QED BY <1>6, <2>1, <2>2
<1>8. CASE Validate
  <2>1. UNCHANGED <<cmd, fates, written, cwd, inputs, pidfile>> /\ Early
    BY <1>8 DEF Validate, Item, Early
  <2>2. CASE UNCHANGED <<fds, names, stamp, outputs>>
    BY <1>1, <2>1, <2>2, HoldSame
  <2>3. CASE AddWfile("pres", Dash)
    BY <1>6, <2>1, <2>3
  <2> QED BY <1>8, <2>2, <2>3 DEF Validate
<1>9. CASE PidfileOpen \/ PidfileWrite
  <2>1. UNCHANGED <<cmd, names, stamp, fates, written, cwd, inputs, outputs>>
    BY <1>9 DEF PidfileOpen, PidfileWrite
  <2>2. \A d \in 0..MaxFd : fds'[d] \subseteq fds[d] \cup {Len(made) + 1}
    <3>1. CASE PidfileOpen
      BY <3>1, NewObjectIs DEF PidfileOpen
    <3>2. CASE PidfileWrite
      BY <3>2 DEF PidfileWrite, FdTypes
    <3> QED BY <1>9, <3>1, <3>2
  <2>3. /\ DOMAIN outputs \subseteq DOMAIN outputs'
        /\ \A p \in DOMAIN outputs : outputs'[p] = outputs[p]
        /\ \A p \in DOMAIN outputs' : p \notin DOMAIN outputs => outputs'[p].user # "kick"
    BY <2>1
  <2>4. Undisturbed' => Undisturbed
    BY <2>1, SameInputs
  <2>5. HoldInv => HoldInv'
    BY <1>9, HoldPidfile
  <2> QED BY <2>1, <2>2, <2>3, <2>4, <2>5, HandQuiet
<1>10. CASE Daemonize
  <2>1. phase = "setup" /\ todo # <<>> /\ Head(todo).op = "daemonize" /\ todo' = Tail(todo)
        /\ UNCHANGED <<cmd, names, stamp, fates, written, inputs, outputs>>
        /\ fds' = [d \in 0..MaxFd |-> IF d <= 2 THEN {} ELSE fds[d]]
    BY <1>10 DEF Daemonize, Item, Next1
  <2>2. cmd.daemon
    <3>1. Rank(Head(todo).op) = 6 /\ Rank(Head(todo).op) \in Ranks(todo)
      BY <2>1, ItemDone, RankFacts
    <3> QED BY <2>1, <3>1 DEF FdTypes, AskedInv, AskedTypes
  <2>3. ~Undisturbed'
    BY <2>1, <2>2 DEF Undisturbed
  <2>4. /\ \A d \in 0..MaxFd : fds'[d] \subseteq fds[d] \cup {Len(made) + 1}
        /\ DOMAIN outputs \subseteq DOMAIN outputs'
        /\ \A p \in DOMAIN outputs : outputs'[p] = outputs[p]
        /\ \A p \in DOMAIN outputs' : p \notin DOMAIN outputs => outputs'[p].user # "kick"
    BY <2>1
  <2> QED BY <2>1, <2>2, <2>3, <2>4, HandQuiet
<1>11. ASSUME (\E i \in DOMAIN inputs : InputEof(i)) \/ EndInputs PROVE FilesInv' /\ HandOwn'
  <2>1. UNCHANGED <<cmd, names, stamp, fates, written, cwd, outputs>>
    BY <1>11 DEF InputEof, EndInputs
  <2>2. \A d \in 0..MaxFd : fds'[d] \subseteq fds[d] \cup {Len(made) + 1}
    <3>1. ASSUME NEW i \in DOMAIN inputs, InputEof(i) PROVE \A d \in 0..MaxFd : fds'[d] \subseteq fds[d]
      <4>1. inputs[i].fd \in Int /\ fds' = Closed(inputs[i].fd)
        BY <3>1, InputIs DEF InputEof
      <4> QED BY <4>1, ClosedFds
    <3>2. CASE EndInputs
      BY <3>2 DEF EndInputs
    <3> QED BY <1>11, <3>1, <3>2
  <2>3. /\ DOMAIN outputs \subseteq DOMAIN outputs'
        /\ \A p \in DOMAIN outputs : outputs'[p] = outputs[p]
        /\ \A p \in DOMAIN outputs' : p \notin DOMAIN outputs => outputs'[p].user # "kick"
    BY <2>1
  <2>4. Undisturbed' => Undisturbed
    BY <1>11, <2>1, EofIs, EndInputsIs, SameInputs
  <2>5. HoldInv => HoldInv'
    BY <1>11, HoldEof, HoldEndInputs
  <2> QED BY <2>1, <2>2, <2>3, <2>4, <2>5, HandQuiet
<1>12. ASSUME NEW o \in DOMAIN outputs, Write(o) PROVE FilesInv' /\ HandOwn'
  <2>1. UNCHANGED <<cmd, names, stamp, fates, cwd, fds, made, inputs, outputs, pidfile, phase>>
    BY <1>12 DEF Write
  <2>2. FilesInv'
    <3>1. Len(made) \in Nat
      <4>1. PICK S : S = Made
        OBVIOUS
      <4>2. made \in Seq(S)
        BY <4>1 DEF AskedInv, AskedTypes
      <4> QED BY <4>2
    <3>2. /\ \A d \in 0..MaxFd : fds'[d] \subseteq fds[d] \cup {Len(made) + 1}
          /\ DOMAIN outputs \subseteq DOMAIN outputs'
          /\ \A p \in DOMAIN outputs : outputs'[p] = outputs[p]
          /\ \A p \in DOMAIN outputs' : p \notin DOMAIN outputs => outputs'[p].user # "kick"
      BY <2>1
    <3> QED BY <2>1, <3>1, <3>2, FilesQuiet
  <2>3. Undisturbed' => Undisturbed
    BY <2>1, SameInputs
  <2>4. Early' => Early
    BY <2>1 DEF Early
  <2> QED BY <1>12, <2>1, <2>2, <2>3, <2>4, OwnWrite, HoldSame DEF HandOwn
<1>13. ASSUME NEW o \in DOMAIN outputs, CloseOutput(o) \/ EndOutput(o) PROVE FilesInv' /\ HandOwn'
  <2>1. /\ UNCHANGED <<cmd, names, fates, written, inputs, pidfile>> /\ ~Early'
        /\ fds' = Closed(outputs[o].fd)
    BY <1>13 DEF CloseOutput, EndOutput, Early
  <2>2. FilesInv'
    BY <1>13, FilesClose
  <2>3. Undisturbed' => Undisturbed
    BY <2>1, SameInputs
  <2>4. PICK y : /\ Put(o, y) /\ SameOut(outputs[o], y) /\ y.stamp = outputs[o].stamp
                 /\ ~y.open \/ (y.open /\ y.step = "closed")
    BY <1>13, ClosePut
  <2>5. outputs[o].fd \in Int /\ Held(o)
    BY <1>13, OutputIs, ClosePut DEF Held
  <2>6. ASSUME OwnInv, WroteInv, HoldInv PROVE OwnInv' /\ WroteInv' /\ HoldInv'
    <3>1. \A p \in DOMAIN outputs' : Owner(p)' /\ Live(p)' =>
               p \in DOMAIN outputs /\ Owner(p) /\ Live(p) /\ outputs'[p].stamp = outputs[p].stamp
      BY <2>4, <2>5 DEF Put, SameOut, Owner, Live, Held
    <3>2. OwnInv' /\ WroteInv'
      BY <2>1, <2>6, <3>1, OwnQuiet
    <3>3. \A d \in 0..MaxFd : \/ fds'[d] = fds[d]
                              \/ o \in DOMAIN outputs /\ Held(o) /\ outputs[o].fd = d
      BY <2>1, <2>5, ClosedFds
    <3>4. HoldInv'
      BY <2>1, <2>4, <2>6, <3>3, HoldShut
    <3> QED BY <3>2, <3>4
  <2> QED BY <2>2, <2>3, <2>6 DEF HandOwn
<1>14. ASSUME NEW o \in DOMAIN outputs, phase \in {"running", "ending"}, Exec(o) PROVE FilesInv' /\ HandOwn'
  <2>1. UNCHANGED <<cmd, fds, inputs, pidfile, phase>>
    BY <1>14 DEF Exec
  <2>2. Early' => Early
    BY <2>1 DEF Early
  <2>3. FilesInv'
    BY <1>14, FilesExec
  <2>4. Undisturbed' => Undisturbed
    BY <2>1, SameInputs
  <2>5. PICK y : Put(o, y) /\ (~y.open \/ y.step = "execed")
    BY <1>14, ExecPut
  <2>6. ASSUME HoldInv PROVE HoldInv'
    BY <2>1, <2>2, <2>5, <2>6, HoldShut
  <2> QED BY <1>14, <2>3, <2>4, <2>6, OwnExec DEF HandOwn
<1>15. ASSUME NEW o \in DOMAIN outputs, phase \in {"running", "ending"}, Reopen(o) PROVE FilesInv' /\ HandOwn'
  <2>1. UNCHANGED <<cmd, cwd, inputs, pidfile, fates>> /\ (Early' => Early)
    BY <1>15 DEF Reopen, Early
  <2>2. CASE UNCHANGED <<fds, made, names, stamp, outputs, written>>
    BY <1>1, <2>1, <2>2, HoldSame
  <2>3. CASE \E y : /\ Put(o, y) /\ SameOut(outputs[o], y) /\ y.stamp = stamp + 1
                    /\ y.open /\ y.step = "idle" /\ y.fd = FreeFd
                    /\ OpenWfile(TmpName(outputs[o].file, stamp + 1)) /\ stamp' = stamp + 1
                    /\ written' \subseteq written \cup {<<obj, Other>> : obj \in fds'[2]}
    <3>1. PICK y : /\ Put(o, y) /\ SameOut(outputs[o], y) /\ y.stamp = stamp + 1
                   /\ y.open /\ y.step = "idle" /\ y.fd = FreeFd
                   /\ OpenWfile(TmpName(outputs[o].file, stamp + 1)) /\ stamp' = stamp + 1
                   /\ written' \subseteq written \cup {<<obj, Other>> : obj \in fds'[2]}
      BY <2>3
    <3>2. outputs[o].step = "execed" /\ outputs[o].user = "kick"
      BY <1>15, ReopenPut
    <3>3. Opens(o, y)
      BY <2>1, <3>1, <3>2 DEF Opens, SameOut
    <3> QED BY <2>1, <3>1, <3>3, HandOpens
  <2> QED BY <1>15, <2>2, <2>3, ReopenPut
<1> QED BY <1>2, <1>3, <1>4, <1>5, <1>7, <1>8, <1>9, <1>10, <1>11, <1>12, <1>13, <1>14, <1>15
        DEF Next, AddsInput

\* The command line and its environment stay what they are, and only
\* kickfile_exec() says what became of a file.
LEMMA EnvStep == ASSUME [Next]_vars PROVE UNCHANGED <<cmd, env>>
<1> USE DEF envVars, procVars, fileVars, ioVars, histVars
<1>1. CASE AddsInput
  BY <1>1, AddsIs
<1>2. CASE Start \/ Settings \/ AddSockOutput \/ AddXsockOutput \/ AddFileOutput \/ AddPresOutput
           \/ Validate \/ UsageItem \/ ItemFails \/ PidfileOpen \/ DropRoot \/ XsInit \/ Daemonize
           \/ PidfileWrite \/ Signals
  BY <1>2 DEF Start, Settings, AddSockOutput, AddXsockOutput, AddFileOutput, AddPresOutput,
              Validate, UsageItem, ItemFails, PidfileOpen, DropRoot, XsInit, Daemonize, PidfileWrite, Signals
<1>3. CASE (\E i \in DOMAIN inputs : InputEof(i)) \/ LoopEnds \/ EndInputs \/ Exit \/ Terminated
           \/ UNCHANGED vars
  BY <1>3 DEF InputEof, LoopEnds, EndInputs, Exit, Terminated, vars
<1>4. ASSUME NEW o \in DOMAIN outputs, Write(o) \/ CloseOutput(o) \/ EndOutput(o) \/ Exec(o) \/ Reopen(o)
      PROVE  UNCHANGED <<cmd, env>>
  BY <1>4 DEF Write, CloseOutput, EndOutput, Exec, Reopen
<1> QED BY <1>1, <1>2, <1>3, <1>4 DEF Next, AddsInput

LEMMA NoFates == ASSUME IoTypes, ~Kicked, [Next]_vars PROVE UNCHANGED fates
<1> USE DEF envVars, procVars, fileVars, ioVars, histVars
<1>1. CASE AddsInput
  BY <1>1, AddsIs
<1>2. CASE Start \/ Settings \/ AddSockOutput \/ AddXsockOutput \/ AddFileOutput \/ AddPresOutput
           \/ Validate \/ UsageItem \/ ItemFails \/ PidfileOpen \/ DropRoot \/ XsInit \/ Daemonize
           \/ PidfileWrite \/ Signals
  BY <1>2 DEF Start, Settings, AddSockOutput, AddXsockOutput, AddFileOutput, AddPresOutput,
              Validate, UsageItem, ItemFails, PidfileOpen, DropRoot, XsInit, Daemonize, PidfileWrite, Signals
<1>3. CASE (\E i \in DOMAIN inputs : InputEof(i)) \/ LoopEnds \/ EndInputs \/ Exit \/ Terminated
           \/ UNCHANGED vars
  BY <1>3 DEF InputEof, LoopEnds, EndInputs, Exit, Terminated, vars
<1>4. ASSUME NEW o \in DOMAIN outputs, Write(o) \/ CloseOutput(o) \/ EndOutput(o) \/ Reopen(o)
      PROVE  UNCHANGED fates
  BY <1>4 DEF Write, CloseOutput, EndOutput, Reopen
<1>5. ASSUME NEW o \in DOMAIN outputs, Exec(o) PROVE FALSE
  <2>1. outputs[o].user = "kick" /\ outputs[o] \in Output
    BY <1>5, ExecPut
  <2> QED BY <2>1 DEF Output, Kicked
<1> QED BY <1>1, <1>2, <1>3, <1>4, <1>5 DEF Next, AddsInput

LEMMA HandInit == ASSUME Init PROVE FdTypes /\ HandInv
<1>1. /\ fds = [d \in 0..MaxFd |-> IF d <= 2 THEN {d + 1} ELSE {}]
      /\ made = [i \in 1..3 |-> [by |-> "shell", uid |-> "root"]]
      /\ names = {} /\ written = {} /\ fates = {} /\ inputs = <<>> /\ outputs = <<>>
      /\ pidfile.state = "none" /\ phase = "start" /\ cwd = "start" /\ stamp = 0
  BY DEF Init
<1>2. Len(made) = 3
  <2>1. PICK r : made = [i \in 1..3 |-> r]
    BY <1>1
  <2>2. [i \in 1..3 |-> r] \in Seq({r}) /\ DOMAIN [i \in 1..3 |-> r] = 1..3
    OBVIOUS
  <2> QED BY <2>1, <2>2
<1>3. FdTypes
  <2>1. fds \in [0..MaxFd -> SUBSET (1..3)]
    BY <1>1, ToolAssumption
  <2> QED BY <1>1, <1>2, <2>1 DEF FdTypes
<1>4. FilesInv
  BY <1>1 DEF FilesInv, NameInv, StampInv, OpenInv, TmpInv, FateInv
<1>5. HoldInv
  <2>1. 0 \in 0..MaxFd /\ 1 \in 0..MaxFd /\ 2 \in 0..MaxFd
    BY ToolAssumption
  <2>2. fds[0] # {} /\ fds[1] # {} /\ fds[2] # {}
    BY <1>1, <2>1
  <2>3. \A h \in Holders, d \in 0..MaxFd : ~Has(h, d)
    BY <1>1 DEF Has
  <2> QED BY <2>1, <2>2, <2>3 DEF HoldInv
<1>6. OwnInv /\ WroteInv
  BY <1>1 DEF OwnInv, WroteInv
<1> QED BY <1>1, <1>3, <1>4, <1>5, <1>6 DEF HandInv, HandOwn

\* A file that kickfile_exec() of kickfile.c hands to the kicker's command is
\* complete: it has its final name, no descriptor is open on it, and nothing but its
\* own output wrote to it, unless a daemon or a second input on "-" closed descriptors
\* of others; and only a daemon that left its directory does not find a file it closed.
THEOREM HandedOverAlways == Spec => []HandedOver
<1> DEFINE Inv == AskedInv /\ IoTypes /\ FdTypes /\ HandInv
<1>1. Init => Inv
  <2>1. Init => AskedInv
    BY AskedInit
  <2>2. Init => IoTypes
    BY DEF Init, IoTypes
  <2> QED BY <2>1, <2>2, HandInit
<1>2. Inv /\ [Next]_vars => Inv'
  <2> SUFFICES ASSUME Inv, [Next]_vars PROVE Inv'
    OBVIOUS
  <2>1. AskedInv' /\ IoTypes' /\ FdTypes'
    BY AskedStep, IoStep, FdStep
  <2>2. Kicked' <=> Kicked
    BY EnvStep DEF Kicked, Kicker
  <2>3. HandInv'
    <3>1. CASE Kicked
      BY <2>2, <3>1, HandStep DEF HandInv
    <3>2. CASE ~Kicked
      BY <2>2, <3>2, NoFates DEF HandInv
    <3> QED BY <3>1, <3>2
  <2> QED BY <2>1, <2>3
<1>3. Inv => HandedOver
  <2> SUFFICES ASSUME HandInv PROVE HandedOver
    OBVIOUS
  <2>1. CASE ~Kicked
    BY <2>1 DEF HandInv, HandedOver
  <2>2. CASE Kicked
    <3>1. FateInv /\ (Undisturbed => WroteInv)
      BY <2>2 DEF HandInv, HandOwn, FilesInv
    <3> QED BY <3>1 DEF FateInv, WroteInv, Undisturbed, HandedOver
  <2> QED BY <2>1, <2>2
<1> QED BY <1>1, <1>2, <1>3, PTL DEF Spec

=============================================================================
