---------------------------- MODULE SDLogProofs ----------------------------
(***************************************************************************)
(* Proofs about SDLog, for every buffer length, every number of runs and   *)
(* every bound on rows and power cuts: the invariants of the run log, and  *)
(* that its flags implement SdSession.                                     *)
(***************************************************************************)
EXTENDS SDLog, SequenceTheorems, TLAPS

Card == [1 .. RUNS -> [KINDS -> File]]
Rows == [1 .. RUNS -> [KINDS -> Seq(Nat)]]

-----------------------------------------------------------------------------
(* The first rows of a sequence of rows.                                   *)

\* A buffer of rows is a sequence of what a file may hold.
LEMMA RowsInFile ==
  ASSUME NEW s \in Seq(Nat)
  PROVE  s \in Seq(Int)
  <1>1. \A i \in 1 .. Len(s) : s[i] \in Int
    BY ElementOfSeq
  <1>2. Len(s) \in Nat /\ DOMAIN s = 1 .. Len(s) /\ s = [i \in 1 .. Len(s) |-> s[i]]
    BY LenProperties
  <1> QED
    BY <1>1, <1>2, IsASeq

\* A sequence is the first rows of itself, and of what it is extended to.
LEMMA FirstOfConcat ==
  ASSUME NEW s \in Seq(Int), NEW u \in Seq(Int)
  PROVE  s \o u \in Seq(Int) /\ FirstRows(s, s \o u) /\ FirstRows(s, s)
  BY ConcatProperties, LenProperties DEF FirstRows

\* No rows at all are the first rows of any.
LEMMA FirstOfNone ==
  ASSUME NEW t \in Seq(Nat)
  PROVE  FirstRows(<< >>, t)
  BY EmptySeq, LenProperties DEF FirstRows

\* The first rows of first rows are first rows.
LEMMA FirstCut ==
  ASSUME NEW s \in Seq(Int), NEW t, FirstRows(s, t), Len(t) \in Nat, NEW n \in 0 .. Len(s)
  PROVE  /\ SubSeq(s, 1, n) \in Seq(Int) /\ Len(SubSeq(s, 1, n)) = n
         /\ FirstRows(SubSeq(s, 1, n), t)
  <1>0. Len(s) \in Nat
    BY LenProperties
  <1>1. \A i \in 1 .. n : s[i] \in Int
    BY <1>0, ElementOfSeq
  <1> DEFINE w == SubSeq(s, 1, n)
  <1>2. w \in Seq(Int) /\ Len(w) = n /\ \A i \in 1 .. n : w[i] = s[i]
    BY <1>0, <1>1, SubSeqProperties
  <1> HIDE DEF w
  <1>3. FirstRows(w, t)
    <2>1. /\ Len(s) <= Len(t)
          /\ \A i \in 1 .. Len(s) : s[i] = t[i] \/ (i = Len(s) /\ s[i] = Part(t[i]))
      BY DEF FirstRows
    <2>2. Len(w) <= Len(t)
      BY <1>0, <1>2, <2>1
    <2>3. ASSUME NEW i \in 1 .. Len(w)
          PROVE  w[i] = t[i] \/ (i = Len(w) /\ w[i] = Part(t[i]))
      <3>1. i \in 1 .. Len(s) /\ w[i] = s[i] /\ (i = Len(s) => i = Len(w))
        BY <1>0, <1>2
      <3> QED
        BY <2>1, <3>1
    <2> QED
      BY <2>2, <2>3 DEF FirstRows
  <1> QED
    BY <1>2, <1>3 DEF w

\* What handing over a row does to the rows handed over.
LEMMA RowHandedOver ==
  ASSUME NEW t \in Seq(Nat), NEW x \in Nat
  PROVE  /\ Append(t, x) \in Seq(Nat) /\ Append(t, x) # << >>
         /\ Len(Append(t, x)) = Len(t) + 1
         /\ \A i \in 1 .. Len(t) : Append(t, x)[i] = t[i]
  <1>1. \A S : \A seq \in Seq(S), elt \in S :
          /\ Append(seq, elt) \in Seq(S)
          /\ Append(seq, elt) # << >>
          /\ Len(Append(seq, elt)) = Len(seq) + 1
          /\ \A i \in 1 .. Len(seq) : Append(seq, elt)[i] = seq[i]
    BY AppendProperties
  <1> QED
    BY <1>1, Zenon

\* First rows stay first rows when a row is handed over.
LEMMA FirstAppend ==
  ASSUME NEW s \in Seq(Int), NEW t \in Seq(Nat), NEW x \in Nat, FirstRows(s, t)
  PROVE  Append(t, x) \in Seq(Nat) /\ Append(t, x) # << >> /\ FirstRows(s, Append(t, x))
  <1> DEFINE w == Append(t, x)
  <1>1. /\ w \in Seq(Nat) /\ w # << >> /\ Len(w) = Len(t) + 1
        /\ \A i \in 1 .. Len(t) : w[i] = t[i]
    BY RowHandedOver
  <1> HIDE DEF w
  <1>2. FirstRows(s, w)
    <2>1. Len(s) \in Nat /\ Len(t) \in Nat
      BY LenProperties
    <2>2. /\ Len(s) <= Len(t)
          /\ \A i \in 1 .. Len(s) : s[i] = t[i] \/ (i = Len(s) /\ s[i] = Part(t[i]))
      BY DEF FirstRows
    <2>3. \A i \in 1 .. Len(s) : w[i] = t[i]
      BY <1>1, <2>1, <2>2
    <2>4. Len(s) <= Len(w)
      BY <1>1, <2>1, <2>2
    <2> QED
      BY <2>2, <2>3, <2>4 DEF FirstRows
  <1> QED
    BY <1>1, <1>2 DEF w

\* What a write that fails leaves of row x may follow the rows before it.
LEMMA FirstTorn ==
  ASSUME NEW s \in Seq(Int), NEW t, Len(t) \in Nat, Len(s) < Len(t),
         FirstRows(s, t), \A i \in 1 .. Len(s) : s[i] = t[i],
         t[Len(s) + 1] \in Nat, NEW torn \in Torn(t[Len(s) + 1])
  PROVE  torn \in Seq(Int) /\ s \o torn \in Seq(Int) /\ FirstRows(s \o torn, t)
  <1>0. Len(s) \in Nat
    BY LenProperties
  <1>1. CASE torn = << >>
    <2>1. << >> \in Seq(Int) /\ s \o << >> = s
      BY EmptySeq, ConcatEmptySeq
    <2> QED
      BY <1>1, <2>1
  <1>2. CASE torn = <<Part(t[Len(s) + 1])>>
    <2> DEFINE x == Part(t[Len(s) + 1])
               w == s \o <<x>>
    <2>1. x \in Int
      BY DEF Part
    <2> HIDE DEF x
    <2>2. /\ <<x>> \in Seq(Int) /\ w = Append(s, x) /\ w \in Seq(Int)
          /\ Len(w) = Len(s) + 1 /\ w[Len(s) + 1] = x
          /\ \A i \in 1 .. Len(s) : w[i] = s[i]
      BY <1>0, <2>1, AppendIsConcat, AppendProperties
    <2> HIDE DEF w
    <2>3. FirstRows(w, t)
      BY <1>0, <2>2 DEF FirstRows, x
    <2> QED
      BY <1>2, <2>2, <2>3 DEF w, x
  <1> QED
    BY <1>1, <1>2 DEF Torn

\* Rows may be added in one step or in two.
LEMMA Associative ==
  \A r, w, u \in Seq(Int) : (r \o w) \o u = r \o (w \o u)
  <1>1. \A S : \A r, w, u \in Seq(S) : (r \o w) \o u = r \o (w \o u)
    BY ConcatAssociative
  <1> QED
    BY <1>1

\* The rows on the card, any first part of a waiting block, and what a write leaves of
\* the next row of it, are the first rows of everything that was handed over.
LEMMA FirstOfBlock ==
  ASSUME NEW s \in Seq(Int), NEW b \in Seq(Nat), NEW f \in Seq(Nat),
         NEW n \in 0 .. Len(b)
  PROVE  /\ SubSeq(b, 1, n) \in Seq(Int)
         /\ s \o SubSeq(b, 1, n) \in Seq(Int)
         /\ FirstRows(s \o SubSeq(b, 1, n), s \o b \o f)
         /\ \A torn : n < Len(b) /\ torn \in Torn(b[n + 1]) =>
              /\ torn \in Seq(Int) /\ SubSeq(b, 1, n) \o torn \in Seq(Int)
              /\ FirstRows(s \o (SubSeq(b, 1, n) \o torn), s \o b \o f)
  <1>0. Len(s) \in Nat /\ Len(b) \in Nat /\ Len(f) \in Nat /\ b \in Seq(Int) /\ f \in Seq(Int)
    BY LenProperties, RowsInFile
  <1>1. /\ SubSeq(b, 1, n) \in Seq(Int) /\ Len(SubSeq(b, 1, n)) = n
        /\ \A i \in 1 .. n : SubSeq(b, 1, n)[i] = b[i]
    BY <1>0, ElementOfSeq, SubSeqProperties
  <1> DEFINE w == SubSeq(b, 1, n)
            sw == s \o w
            sb == s \o b
            all == sb \o f
  <1>2. w \in Seq(Int) /\ Len(w) = n /\ \A i \in 1 .. n : w[i] = b[i]
    BY <1>1
  <1> HIDE DEF w
  <1>3. /\ sw \in Seq(Int) /\ Len(sw) = Len(s) + n
        /\ \A i \in 1 .. Len(s) + n : sw[i] = IF i <= Len(s) THEN s[i] ELSE w[i - Len(s)]
    BY <1>2, ConcatProperties
  <1>4. /\ sb \in Seq(Int) /\ Len(sb) = Len(s) + Len(b)
        /\ \A i \in 1 .. Len(s) + Len(b) :
             sb[i] = IF i <= Len(s) THEN s[i] ELSE b[i - Len(s)]
    BY <1>0, ConcatProperties
  <1> HIDE DEF sw, sb
  <1>5. /\ all \in Seq(Int) /\ Len(all) = Len(sb) + Len(f)
        /\ \A i \in 1 .. Len(sb) + Len(f) :
             all[i] = IF i <= Len(sb) THEN sb[i] ELSE f[i - Len(sb)]
    <2>1. sb \in Seq(Int)
      BY <1>4
    <2> QED
      BY <1>0, <2>1, ConcatProperties
  <1> HIDE DEF all
  <1>l. Len(sw) = Len(s) + n /\ Len(sb) = Len(s) + Len(b) /\ Len(all) = Len(sb) + Len(f)
    BY <1>3, <1>4, <1>5
  <1>6. Len(sw) <= Len(all) /\ \A i \in 1 .. Len(sw) : sw[i] = all[i]
    <2>1. Len(sw) <= Len(sb) /\ Len(sb) <= Len(all)
      BY <1>0, <1>l
    <2>2. ASSUME NEW i \in 1 .. Len(sw) PROVE sw[i] = all[i]
      <3>1. /\ i \in 1 .. Len(s) + n /\ i \in 1 .. Len(s) + Len(b)
            /\ i \in 1 .. Len(sb) + Len(f) /\ i <= Len(sb)
            /\ i > Len(s) => i - Len(s) \in 1 .. n
        BY <1>0, <1>l
      <3>2. all[i] = sb[i]
        BY <1>5, <3>1
      <3>3. sb[i] = IF i <= Len(s) THEN s[i] ELSE b[i - Len(s)]
        BY <1>4, <3>1
      <3>4. sw[i] = IF i <= Len(s) THEN s[i] ELSE w[i - Len(s)]
        BY <1>3, <3>1
      <3> QED
        BY <1>0, <1>2, <3>1, <3>2, <3>3, <3>4
    <2> QED
      BY <2>1, <2>2
  <1>7. FirstRows(sw, all)
    BY <1>6 DEF FirstRows
  <1>8. ASSUME NEW torn, n < Len(b), torn \in Torn(b[n + 1])
        PROVE  torn \in Seq(Int) /\ w \o torn \in Seq(Int) /\ FirstRows(s \o (w \o torn), all)
    <2>1. Len(sw) < Len(all) /\ Len(all) \in Nat /\ Len(sw) + 1 <= Len(sb)
      BY <1>0, <1>l, <1>8
    <2>2. all[Len(sw) + 1] = b[n + 1] /\ b[n + 1] \in Nat
      <3> DEFINE m == Len(sw) + 1
      <3>0. /\ m = Len(s) + n + 1 /\ m \in 1 .. Len(sb) /\ m \in 1 .. Len(sb) + Len(f)
            /\ m \in 1 .. Len(s) + Len(b) /\ m > Len(s) /\ m - Len(s) = n + 1
            /\ n + 1 \in 1 .. Len(b)
        BY <1>0, <1>l, <1>8, <2>1
      <3> HIDE DEF m
      <3>1. all[m] = sb[m]
        <4>1. all[m] = IF m <= Len(sb) THEN sb[m] ELSE f[m - Len(sb)]
          BY <1>5, <3>0, Zenon
        <4>2. m <= Len(sb)
          BY <3>0
        <4> QED
          BY <4>1, <4>2
      <3>2. sb[m] = b[n + 1]
        <4>1. sb[m] = IF m <= Len(s) THEN s[m] ELSE b[m - Len(s)]
          BY <1>4, <3>0, Zenon
        <4>2. ~(m <= Len(s))
          BY <1>0, <3>0
        <4> QED
          BY <3>0, <4>1, <4>2
      <3>3. b[n + 1] \in Nat
        BY <3>0, ElementOfSeq
      <3>4. all[m] = b[n + 1]
        BY <3>1, <3>2
      <3> QED
        BY <3>3, <3>4 DEF m
    <2>3. torn \in Seq(Int) /\ FirstRows(sw \o torn, all)
      BY <1>3, <1>6, <1>7, <1>8, <2>1, <2>2, FirstTorn
    <2>4. (s \o w) \o torn = s \o (w \o torn)
      <3>1. s \in Seq(Int) /\ w \in Seq(Int) /\ torn \in Seq(Int)
        BY <1>2, <2>3
      <3> QED
        BY <3>1, Associative, Zenon
    <2>5. w \o torn \in Seq(Int)
      BY <1>2, <2>3, ConcatProperties
    <2> QED
      BY <2>3, <2>4, <2>5 DEF sw
  <1> QED
    BY <1>2, <1>3, <1>7, <1>8 DEF w, sw, sb, all

-----------------------------------------------------------------------------
(* What FatFs does to the card.                                            *)

\* Every file holds the first rows of its run, and its directory entry covers
\* no more rows than were written.
FilesSound(c, g) ==
  \A i \in 1 .. RUNS, k \in KINDS :
    /\ FirstRows(c[i][k].rows, g[i][k])
    /\ c[i][k].synced <= Len(c[i][k].rows)
    /\ ~c[i][k].made => c[i][k].rows = << >>

\* The files of the runs K exist, and their entries cover all of the rows.
FilesComplete(c, g, K) ==
  \A i \in K, k \in KINDS :
    /\ c[i][k].made /\ g[i][k] # << >>
    /\ c[i][k].rows = g[i][k] /\ c[i][k].synced = Len(g[i][k])

\* f_sync and f_close change only how many rows the entries of this run cover.
LEMMA SyncedFields ==
  ASSUME NEW c \in Card, run \in 1 .. RUNS, NEW ks \in SUBSET KINDS
  PROVE  /\ WithSynced(c, ks) \in Card
         /\ \A i \in 1 .. RUNS, k \in KINDS :
              /\ WithSynced(c, ks)[i][k].rows = c[i][k].rows
              /\ WithSynced(c, ks)[i][k].made = c[i][k].made
              /\ WithSynced(c, ks)[i][k].synced =
                   IF i = run /\ k \in ks THEN Len(c[i][k].rows) ELSE c[i][k].synced
  <1> DEFINE d == WithSynced(c, ks)
  <1>1. \A k \in KINDS : c[run][k] \in File /\ Len(c[run][k].rows) \in Nat
    BY LenProperties DEF Card, File
  <1>2. DOMAIN d = 1 .. RUNS /\ \A i \in 1 .. RUNS : i # run => d[i] = c[i]
    BY DEF WithSynced, Card
  <1>3. d[run] = [k \in KINDS |->
          IF k \in ks THEN [c[run][k] EXCEPT !.synced = Len(c[run][k].rows)]
          ELSE c[run][k]]
    BY DEF WithSynced, Card
  <1>4. d = [i \in 1 .. RUNS |-> d[i]]
    BY DEF WithSynced, Card
  <1> HIDE DEF d
  <1>5. ASSUME NEW k \in KINDS
        PROVE  /\ d[run][k] \in File
               /\ d[run][k].rows = c[run][k].rows /\ d[run][k].made = c[run][k].made
               /\ d[run][k].synced = IF k \in ks THEN Len(c[run][k].rows)
                                     ELSE c[run][k].synced
    BY <1>1, <1>3 DEF File
  <1>6. d[run] \in [KINDS -> File]
    BY <1>3, <1>5
  <1>7. d \in Card
    BY <1>2, <1>4, <1>6 DEF Card
  <1> QED
    BY <1>2, <1>5, <1>7 DEF d

\* Writing rows adds them to one file of this run.
LEMMA WrittenFields ==
  ASSUME NEW c \in Card, run \in 1 .. RUNS, NEW k \in KINDS, NEW rows \in Seq(Int)
  PROVE  /\ WithRows(c, k, rows) \in Card
         /\ \A i \in 1 .. RUNS, j \in KINDS :
              /\ WithRows(c, k, rows)[i][j].rows =
                   IF i = run /\ j = k THEN c[i][j].rows \o rows ELSE c[i][j].rows
              /\ WithRows(c, k, rows)[i][j].made = c[i][j].made
              /\ WithRows(c, k, rows)[i][j].synced = c[i][j].synced
  <1> DEFINE d == WithRows(c, k, rows)
             old == c[run][k].rows
             new == old \o rows
  <1>1. c[run][k] \in File /\ old \in Seq(Int)
    BY DEF Card, File
  <1>2. new \in Seq(Int)
    BY <1>1, ConcatProperties
  <1>3. d = [c EXCEPT ![run] = [c[run] EXCEPT ![k] = [c[run][k] EXCEPT !.rows = new]]]
    BY DEF WithRows, Card
  <1> HIDE DEF d, new
  <1>4. [c[run][k] EXCEPT !.rows = new] \in File
    BY <1>1, <1>2 DEF File
  <1>5. d \in Card
    BY <1>3, <1>4 DEF Card
  <1>6. ASSUME NEW i \in 1 .. RUNS, NEW j \in KINDS
        PROVE  /\ d[i][j].rows = IF i = run /\ j = k THEN new ELSE c[i][j].rows
               /\ d[i][j].made = c[i][j].made
               /\ d[i][j].synced = c[i][j].synced
    BY <1>3, <1>1 DEF Card, File
  <1> QED
    BY <1>5, <1>6 DEF d, new

-----------------------------------------------------------------------------
(* The card while a run is written.                                        *)

\* Card contents the invariants allow.
Safe(c) == c \in Card /\ FilesSound(c, given) /\ FilesComplete(c, given, kept)

\* There is a run, and it is not one of those that were closed.
CurrentRun ==
  /\ given \in Rows /\ kept \subseteq 1 .. RUNS
  /\ run \in (1 .. RUNS) \ kept
  /\ \A k \in KINDS : given[run][k] # << >>

\* The MAG rows of the run are those of card contents c, then w, then f.
Holds(c, w, f) ==
  /\ Safe(c) /\ w \in Seq(Nat) /\ f \in Seq(Nat)
  /\ \A k \in KINDS : c[run][k].made
  /\ c[run]["mag"].rows \o w \o f = given[run]["mag"]
  /\ c[run]["puff"].rows = given[run]["puff"]

\* The rows of a file on the card, and those handed over for it.
LEMMA FileTypes ==
  ASSUME NEW c \in Card, NEW i \in 1 .. RUNS, NEW k \in KINDS
  PROVE  /\ c[i][k] \in File /\ c[i][k].rows \in Seq(Int) /\ c[i][k].synced \in Nat
         /\ Len(c[i][k].rows) \in Nat
  BY LenProperties DEF Card, File

\* Synchronising files of the current run does no harm, whatever else is there.
LEMMA SyncedIsSound ==
  ASSUME NEW c \in Card, NEW g, NEW K \in SUBSET (1 .. RUNS), run \in (1 .. RUNS) \ K,
         FilesSound(c, g), FilesComplete(c, g, K), NEW ks \in SUBSET KINDS
  PROVE  /\ WithSynced(c, ks) \in Card
         /\ FilesSound(WithSynced(c, ks), g) /\ FilesComplete(WithSynced(c, ks), g, K)
  <1> DEFINE d == WithSynced(c, ks)
  <1>2. /\ d \in Card
        /\ \A i \in 1 .. RUNS, k \in KINDS :
             /\ d[i][k].rows = c[i][k].rows /\ d[i][k].made = c[i][k].made
             /\ d[i][k].synced = IF i = run /\ k \in ks THEN Len(c[i][k].rows)
                                 ELSE c[i][k].synced
    BY SyncedFields
  <1> HIDE DEF d
  <1>3. FilesSound(d, g)
    <2> SUFFICES ASSUME NEW i \in 1 .. RUNS, NEW k \in KINDS
                 PROVE  /\ FirstRows(d[i][k].rows, g[i][k])
                        /\ d[i][k].synced <= Len(d[i][k].rows)
                        /\ ~d[i][k].made => d[i][k].rows = << >>
      BY DEF FilesSound
    <2>1. /\ FirstRows(c[i][k].rows, g[i][k]) /\ c[i][k].synced <= Len(c[i][k].rows)
          /\ ~c[i][k].made => c[i][k].rows = << >>
      BY DEF FilesSound
    <2>2. Len(c[i][k].rows) <= Len(c[i][k].rows)
      BY FileTypes
    <2> QED
      BY <1>2, <2>1, <2>2
  <1>4. FilesComplete(d, g, K)
    <2> SUFFICES ASSUME NEW i \in K, NEW k \in KINDS
                 PROVE  d[i][k].made /\ g[i][k] # << >>
                        /\ d[i][k].rows = g[i][k] /\ d[i][k].synced = Len(g[i][k])
      BY DEF FilesComplete
    <2>1. i \in 1 .. RUNS /\ i # run
      OBVIOUS
    <2> QED
      BY <1>2, <2>1 DEF FilesComplete
  <1> QED
    BY <1>2, <1>3, <1>4 DEF d

\* In particular, it keeps a card the invariants allow.
LEMMA SyncedIsSafe ==
  ASSUME CurrentRun, NEW c, Safe(c), NEW ks \in SUBSET KINDS
  PROVE  Safe(WithSynced(c, ks))
  BY SyncedIsSound DEF Safe, CurrentRun

\* Nor does writing rows to one of them that continue what it holds.
LEMMA WrittenIsSound ==
  ASSUME NEW c \in Card, NEW g, NEW K \in SUBSET (1 .. RUNS), run \in (1 .. RUNS) \ K,
         FilesSound(c, g), FilesComplete(c, g, K),
         NEW k \in KINDS, c[run][k].made,
         NEW rows \in Seq(Int), FirstRows(c[run][k].rows \o rows, g[run][k])
  PROVE  /\ WithRows(c, k, rows) \in Card
         /\ FilesSound(WithRows(c, k, rows), g)
         /\ FilesComplete(WithRows(c, k, rows), g, K)
  <1> DEFINE d == WithRows(c, k, rows)
             new == c[run][k].rows \o rows
  <1>1. c \in Card /\ run \in 1 .. RUNS /\ run \notin K /\ K \subseteq 1 .. RUNS
    OBVIOUS
  <1>2. /\ d \in Card
        /\ \A i \in 1 .. RUNS, j \in KINDS :
             /\ d[i][j].rows = IF i = run /\ j = k THEN new ELSE c[i][j].rows
             /\ d[i][j].made = c[i][j].made /\ d[i][j].synced = c[i][j].synced
    BY <1>1, WrittenFields
  <1>3. FirstRows(new, g[run][k])
    OBVIOUS
  <1>4. Len(c[run][k].rows) <= Len(new) /\ Len(new) \in Nat
    BY <1>1, FileTypes, ConcatProperties, LenProperties
  <1> HIDE DEF d, new
  <1>5. FilesSound(d, g)
    <2> SUFFICES ASSUME NEW i \in 1 .. RUNS, NEW j \in KINDS
                 PROVE  /\ FirstRows(d[i][j].rows, g[i][j])
                        /\ d[i][j].synced <= Len(d[i][j].rows)
                        /\ ~d[i][j].made => d[i][j].rows = << >>
      BY DEF FilesSound
    <2>1. /\ FirstRows(c[i][j].rows, g[i][j]) /\ c[i][j].synced <= Len(c[i][j].rows)
          /\ ~c[i][j].made => c[i][j].rows = << >>
      BY DEF FilesSound
    <2>2. CASE i = run /\ j = k
      <3>1. d[i][j].rows = new /\ d[i][j].made = c[i][j].made /\ d[i][j].synced = c[i][j].synced
        BY <1>2, <2>2
      <3>2. c[i][j].synced \in Nat /\ Len(c[i][j].rows) \in Nat
        BY FileTypes, LenProperties
      <3>3. c[i][j].synced <= Len(new)
        BY <1>4, <2>1, <2>2, <3>2
      <3> QED
        BY <1>3, <2>2, <3>1, <3>3
    <2>3. CASE ~(i = run /\ j = k)
      BY <1>2, <2>1, <2>3
    <2> QED
      BY <2>2, <2>3
  <1>6. FilesComplete(d, g, K)
    <2> SUFFICES ASSUME NEW i \in K, NEW j \in KINDS
                 PROVE  /\ d[i][j].made /\ g[i][j] # << >>
                        /\ d[i][j].rows = g[i][j] /\ d[i][j].synced = Len(g[i][j])
      BY DEF FilesComplete
    <2>1. i \in 1 .. RUNS /\ i # run
      BY <1>1
    <2>2. /\ c[i][j].made /\ g[i][j] # << >>
          /\ c[i][j].rows = g[i][j] /\ c[i][j].synced = Len(g[i][j])
      BY DEF FilesComplete
    <2> QED
      BY <1>2, <2>1, <2>2
  <1> QED
    BY <1>2, <1>5, <1>6 DEF d

\* Any first part of the block that comes next may be written, and a part of the row
\* after it.
LEMMA BlockPartIsSafe ==
  ASSUME CurrentRun, NEW c, NEW b, NEW f, Holds(c, b, f), NEW n \in 0 .. Len(b)
  PROVE  /\ Safe(WithRows(c, "mag", SubSeq(b, 1, n)))
         /\ \A torn : n < Len(b) /\ torn \in Torn(b[n + 1]) =>
              Safe(WithRows(c, "mag", SubSeq(b, 1, n) \o torn))
  <1> DEFINE s == c[run]["mag"].rows
             w == SubSeq(b, 1, n)
  <1>1. c \in Card /\ run \in 1 .. RUNS /\ "mag" \in KINDS
    BY DEF Holds, Safe, CurrentRun, KINDS
  <1>2. s \in Seq(Int) /\ b \in Seq(Nat) /\ f \in Seq(Nat) /\ s \o b \o f = given[run]["mag"]
    BY <1>1, FileTypes DEF Holds
  <1>3. Safe(c) /\ c[run]["mag"].made
    BY <1>1 DEF Holds
  <1> HIDE DEF s
  <1>4. /\ w \in Seq(Int) /\ FirstRows(s \o w, given[run]["mag"])
        /\ \A torn : n < Len(b) /\ torn \in Torn(b[n + 1]) =>
             w \o torn \in Seq(Int) /\ FirstRows(s \o (w \o torn), given[run]["mag"])
    BY <1>2, FirstOfBlock
  <1>5. kept \in SUBSET (1 .. RUNS) /\ run \in (1 .. RUNS) \ kept
    BY DEF CurrentRun
  <1> HIDE DEF w
  <1>6. ASSUME NEW rows \in Seq(Int), FirstRows(s \o rows, given[run]["mag"])
        PROVE  Safe(WithRows(c, "mag", rows))
    BY <1>1, <1>3, <1>5, <1>6, WrittenIsSound DEF s, Safe
  <1> QED
    BY <1>4, <1>6 DEF w

\* A block written whole moves from the buffer to the card.
LEMMA BlockWrittenHolds ==
  ASSUME CurrentRun, NEW c, NEW b, NEW f, Holds(c, b, f), NEW d \in WithBlock(c, b)
  PROVE  Holds(d, << >>, f)
  <1> DEFINE s == c[run]["mag"].rows
             e == WithRows(c, "mag", b)
  <1>1. c \in Card /\ run \in 1 .. RUNS /\ "mag" \in KINDS /\ "puff" \in KINDS /\ Safe(c)
    BY DEF Holds, Safe, CurrentRun, KINDS
  <1>2. s \in Seq(Int) /\ b \in Seq(Nat) /\ b \in Seq(Int) /\ f \in Seq(Nat) /\ s \o b \o f = given[run]["mag"]
    BY <1>1, FileTypes, RowsInFile DEF Holds
  <1>3. << >> \in Seq(Nat) /\ << >> \in Seq(Int)
    BY EmptySeq
  <1>4. CASE b = << >>
    BY <1>4 DEF WithBlock
  <1>5. CASE b # << >>
    <2>1. PICK ks \in {{}, KINDS} : d = WithSynced(e, ks)
      BY <1>5 DEF WithBlock
    <2>2. Safe(e)
      <3>1. SubSeq(b, 1, Len(b)) = b /\ Len(b) \in 0 .. Len(b)
        BY <1>2, SubSeqFull, LenProperties
      <3> QED
        BY <3>1, BlockPartIsSafe
    <2>3. Safe(d)
      BY <2>1, <2>2, SyncedIsSafe
    <2>w. /\ e \in Card
          /\ \A i \in 1 .. RUNS, j \in KINDS :
               /\ e[i][j].rows = IF i = run /\ j = "mag" THEN c[i][j].rows \o b
                                 ELSE c[i][j].rows
               /\ e[i][j].made = c[i][j].made /\ e[i][j].synced = c[i][j].synced
      BY <1>1, <1>2, WrittenFields
    <2> HIDE DEF e
    <2>4. /\ e \in Card
          /\ e[run]["mag"].rows = s \o b /\ e[run]["puff"].rows = c[run]["puff"].rows
          /\ \A k \in KINDS : e[run][k].made = c[run][k].made
      BY <1>1, <2>w
    <2>5. \A k \in KINDS : d[run][k].rows = e[run][k].rows /\ d[run][k].made = e[run][k].made
      BY <1>1, <2>1, <2>4, SyncedFields
    <2>6. (s \o b) \o << >> = s \o b
      BY <1>2, ConcatProperties, ConcatEmptySeq
    <2> QED
      BY <1>1, <1>2, <1>3, <2>3, <2>4, <2>5, <2>6 DEF Holds
  <1> QED
    BY <1>4, <1>5

\* With nothing left to write, closing the files makes the run complete.
LEMMA ClosedIsComplete ==
  ASSUME CurrentRun, NEW c, Holds(c, << >>, << >>)
  PROVE  /\ Safe(WithSynced(c, KINDS))
         /\ FilesComplete(WithSynced(c, KINDS), given, kept \cup {run})
  <1> DEFINE d == WithSynced(c, KINDS)
             s == c[run]["mag"].rows
  <1>1. c \in Card /\ run \in 1 .. RUNS /\ KINDS \in SUBSET KINDS /\ Safe(c)
    BY DEF Holds, Safe, CurrentRun
  <1>2. Safe(d)
    BY <1>1, SyncedIsSafe
  <1>3. \A k \in KINDS : c[run][k].rows = given[run][k]
    <2>1. s \in Seq(Int)
      BY <1>1, FileTypes DEF KINDS
    <2>2. s \o << >> \o << >> = given[run]["mag"] /\ c[run]["puff"].rows = given[run]["puff"]
      BY DEF Holds
    <2> HIDE DEF s
    <2>3. s = given[run]["mag"]
      BY <2>1, <2>2, ConcatEmptySeq
    <2> QED
      BY <2>2, <2>3 DEF KINDS, s
  <1>4. \A k \in KINDS : /\ d[run][k].rows = c[run][k].rows /\ d[run][k].made = c[run][k].made
                          /\ d[run][k].synced = Len(c[run][k].rows)
    BY <1>1, SyncedFields
  <1>5. \A k \in KINDS : c[run][k].made /\ given[run][k] # << >>
    BY DEF Holds, CurrentRun
  <1> HIDE DEF d
  <1>6. FilesComplete(d, given, kept \cup {run})
    BY <1>2, <1>3, <1>4, <1>5 DEF Safe, FilesComplete
  <1> QED
    BY <1>2, <1>6 DEF d

-----------------------------------------------------------------------------
(* The inductive invariant.                                                *)

\* While a run is logged its files are open and made, its number is not one of
\* those kept, the files and the two buffers hold its rows, and the block the
\* last sample completed is written before the next command or sample.
RunInv ==
  /\ CurrentRun
  /\ sd_mounted /\ open = KINDS
  /\ Holds(card, Waiting, mag_fill)
  /\ pc \in {"command", "sample"} => ~mag_buffer_ready

IInv == TypeOK /\ Safe(card) /\ (sd_logging => RunInv)

BuffersTyped ==
  /\ mag_fill \in Seq(Nat) /\ Len(mag_fill) <= MAG_BUF_LEN
  /\ mag_write \in Seq(Nat) /\ Len(mag_write) <= MAG_BUF_LEN
  /\ mag_buffer_ready \in BOOLEAN /\ mag_overrun \in BOOLEAN

\* An empty buffer is a buffer.
LEMMA EmptyBuffer == << >> \in Seq(Nat) /\ Len(<< >>) <= MAG_BUF_LEN
  BY LogConstants, EmptySeq

\* The invariants of the runs follow from it.
LEMMA IInvImplies ==
  IInv => LogInv /\ RowsAccountedFor /\ EveryRunIsAPrefix /\ CleanRunIsComplete
  <1> SUFFICES ASSUME IInv
               PROVE  LogInv /\ RowsAccountedFor /\ EveryRunIsAPrefix /\ CleanRunIsComplete
    OBVIOUS
  <1>1. LogInv
    BY DEF IInv, RunInv, Holds, LogInv, LogsToOpenFiles
  <1>2. RowsAccountedFor
    BY DEF IInv, RunInv, Holds, Waiting, RowsAccountedFor
  <1>3. EveryRunIsAPrefix /\ CleanRunIsComplete
    BY DEF IInv, Safe, FilesSound, FilesComplete, EveryRunIsAPrefix, CleanRunIsComplete
  <1> QED
    BY <1>1, <1>2, <1>3

\* The program starts in it.
LEMMA InitIInv == Init => IInv
  <1> SUFFICES ASSUME Init PROVE IInv
    OBVIOUS
  <1>1. TypeOK
    <2>1. NoFile \in File
      BY EmptyBuffer, RowsInFile DEF NoFile, File
    <2>2. card \in [1 .. RUNS -> [KINDS -> File]] /\ given \in [1 .. RUNS -> [KINDS -> Seq(Nat)]]
      BY <2>1, EmptyBuffer DEF Init
    <2>3. serial \in Nat /\ kept \subseteq 1 .. RUNS /\ cuts \in Nat
      BY DEF Init
    <2>4. BuffersTyped
      BY EmptyBuffer DEF Init, RamInit, BuffersTyped
    <2>5. sd_mounted \in BOOLEAN /\ sd_logging \in BOOLEAN /\ sd_faulted \in BOOLEAN
      BY Zenon DEF Init, RamInit
    <2>6. run \in 0 .. RUNS
      BY LogConstants DEF Init, RamInit
    <2>7. open \subseteq KINDS /\ pc \in {"command", "sample", "puff", "service"}
      BY Zenon DEF Init, RamInit
    <2> QED
      BY <2>2, <2>3, <2>4, <2>5, <2>6, <2>7 DEF TypeOK, BuffersTyped
  <1>2. FirstRows(<< >>, << >>) /\ Len(<< >>) = 0
    BY EmptySeq, FirstOfNone
  <1>3. \A i \in 1 .. RUNS, k \in KINDS : card[i][k] = NoFile /\ given[i][k] = << >>
    BY DEF Init
  <1>4. Safe(card)
    BY <1>1, <1>2, <1>3 DEF Safe, Card, TypeOK, Init, FilesSound, FilesComplete, NoFile
  <1> QED
    BY <1>1, <1>4 DEF IInv, Init, RamInit

-----------------------------------------------------------------------------
(* The ways a run ends.                                                    *)

FlagsTyped == sd_mounted \in BOOLEAN /\ sd_logging \in BOOLEAN /\ sd_faulted \in BOOLEAN
PlaceTyped ==
  run \in 0 .. RUNS /\ open \subseteq KINDS /\ pc \in {"command", "sample", "puff", "service"}
HistoryTyped == serial \in Nat /\ given \in Rows /\ kept \subseteq 1 .. RUNS /\ cuts \in Nat

\* The type invariant in its parts, before and after a step.
LEMMA TypeParts ==
  /\ TypeOK <=> FlagsTyped /\ BuffersTyped /\ PlaceTyped /\ HistoryTyped /\ card \in Card
  /\ TypeOK' <=> FlagsTyped' /\ BuffersTyped' /\ PlaceTyped' /\ HistoryTyped' /\ card' \in Card
  BY DEF TypeOK, FlagsTyped, BuffersTyped, PlaceTyped, HistoryTyped, Card, Rows

\* What SDLog_Abort leaves of the session.
Aborted ==
  /\ sd_faulted' = TRUE /\ sd_logging' = FALSE /\ sd_mounted' = FALSE
  /\ open' = {} /\ run' = run

\* SDLog_Abort leaves the rows that were written.
LEMMA AbortIsSafe ==
  ASSUME CurrentRun, NEW c, Safe(c), SDLog_Abort(c)
  PROVE  Safe(card') /\ Aborted
  BY SyncedIsSafe DEF SDLog_Abort, Aborted

\* A block that fails leaves a first part of it on the card, the last row perhaps torn.
LEMMA BlockFailsIsSafe ==
  ASSUME CurrentRun, NEW c, NEW b, NEW f, NEW rest, Holds(c, b, f),
         BlockFails(c, b, rest), BuffersTyped, Len(b) <= MAG_BUF_LEN,
         rest \in Seq(Nat), Len(rest) <= MAG_BUF_LEN
  PROVE  Safe(card') /\ Aborted /\ BuffersTyped'
  <1>1. b \in Seq(Nat) /\ Len(b) \in Nat
    BY LenProperties DEF Holds
  <1>2. BuffersTyped'
    BY <1>1, EmptyBuffer DEF BlockFails, BuffersTyped
  <1>3. ASSUME NEW n \in 0 .. Len(b) - 1, NEW torn \in Torn(b[n + 1]),
               SDLog_Abort(WithRows(c, "mag", SubSeq(b, 1, n) \o torn))
        PROVE  Safe(card') /\ Aborted
    <2>1. n \in 0 .. Len(b) /\ n < Len(b)
      BY <1>1
    <2>2. Safe(WithRows(c, "mag", SubSeq(b, 1, n) \o torn))
      BY <2>1, BlockPartIsSafe
    <2> QED
      BY <1>3, <2>2, AbortIsSafe
  <1>4. ASSUME SDLog_Abort(WithRows(c, "mag", b))
        PROVE  Safe(card') /\ Aborted
    <2>1. SubSeq(b, 1, Len(b)) = b /\ Len(b) \in 0 .. Len(b)
      BY <1>1, SubSeqFull
    <2>2. Safe(WithRows(c, "mag", b))
      BY <2>1, BlockPartIsSafe
    <2> QED
      BY <1>4, <2>2, AbortIsSafe
  <1> QED
    BY <1>2, <1>3, <1>4 DEF BlockFails

\* The rows in the second buffer come next once the first is empty.
LEMMA NextBlock ==
  ASSUME CurrentRun, NEW c, NEW f, Holds(c, << >>, f)
  PROVE  Holds(c, f, << >>)
  <1> DEFINE s == c[run]["mag"].rows
  <1>1. s \in Seq(Int) /\ f \in Seq(Nat) /\ f \in Seq(Int) /\ s \o << >> \o f = given[run]["mag"]
    BY FileTypes, RowsInFile DEF Holds, Safe, CurrentRun, KINDS
  <1>2. s \o f \o << >> = given[run]["mag"]
    <2> HIDE DEF s
    <2>1. s \o f \in Seq(Int)
      BY <1>1, ConcatProperties
    <2>2. s \o << >> = s /\ (s \o f) \o << >> = s \o f
      BY <1>1, <2>1, ConcatEmptySeq
    <2> QED
      BY <1>1, <2>2
  <1>3. << >> \in Seq(Nat)
    BY EmptySeq
  <1> QED
    BY <1>1, <1>2, <1>3 DEF Holds

\* SDLog_FlushMagBuffers that fails keeps a first part of the run.
LEMMA FlushFailsIsSafe ==
  ASSUME IInv, sd_logging, FlushFails
  PROVE  Safe(card') /\ Aborted /\ BuffersTyped' /\ kept' = kept
  <1>1. CurrentRun /\ BuffersTyped /\ Holds(card, Waiting, mag_fill)
    BY TypeParts DEF IInv, RunInv
  <1>2. CASE mag_buffer_ready /\ BlockFails(card, mag_write, mag_fill)
    <2>1. Holds(card, mag_write, mag_fill)
      BY <1>1, <1>2 DEF Waiting
    <2> QED
      BY <1>1, <1>2, <2>1, BlockFailsIsSafe DEF BuffersTyped, FlushFails
  <1>3. ASSUME NEW c \in WithBlock(card, Waiting), BlockFails(c, mag_fill, << >>)
        PROVE  Safe(card') /\ Aborted /\ BuffersTyped'
    <2>1. Holds(c, mag_fill, << >>)
      BY <1>1, <1>3, BlockWrittenHolds, NextBlock
    <2> QED
      BY <1>1, <1>3, <2>1, BlockFailsIsSafe, EmptyBuffer DEF BuffersTyped
  <1> QED
    BY <1>2, <1>3 DEF FlushFails

\* SDLog_FlushMagBuffers that succeeds leaves every row of the run on the card.
LEMMA FlushedHolds ==
  ASSUME IInv, sd_logging, NEW c \in Flushed
  PROVE  CurrentRun /\ Holds(c, << >>, << >>)
  <1>1. CurrentRun /\ Holds(card, Waiting, mag_fill)
    BY DEF IInv, RunInv
  <1>2. PICK d \in WithBlock(card, Waiting) : c \in WithBlock(d, mag_fill)
    BY DEF Flushed
  <1>3. Holds(d, mag_fill, << >>)
    BY <1>1, <1>2, BlockWrittenHolds, NextBlock
  <1> QED
    BY <1>1, <1>2, <1>3, BlockWrittenHolds

\* The buffers after a flush.
LEMMA FlushSucceedsIsTyped ==
  ASSUME BuffersTyped, FlushSucceeds
  PROVE  BuffersTyped' /\ run' = run
  BY EmptyBuffer DEF BuffersTyped, FlushSucceeds

-----------------------------------------------------------------------------
(* The steps, one call after the other.                                    *)

\* When no run is logged, the card alone matters.
LEMMA WithoutRun ==
  ASSUME TypeOK', ~sd_logging', FilesSound(card', given'),
         FilesComplete(card', given', kept')
  PROVE  IInv'
  BY TypeParts DEF IInv, Safe

\* What is in the files where SDLog_Start gives up, or opens the run.
LEMMA HeaderRows ==
  ASSUME NEW f \in Unfinished \cup {[made |-> KINDS, rows |-> HeaderWhole]}
  PROVE  /\ f.made \in SUBSET KINDS
         /\ \A k \in KINDS : f.rows[k] \in Seq(Int) /\ FirstRows(f.rows[k], <<Header>>)
  <1> DEFINE h == <<Header>>
             e == << >>
             p == <<Part(Header)>>
  <1>1. /\ h \in Seq(Int) /\ e \in Seq(Int) /\ p \in Seq(Int)
        /\ FirstRows(h, h) /\ FirstRows(e, h) /\ FirstRows(p, h)
    <2>1. Header \in Nat /\ Part(Header) \in Int
      BY DEF Header, Part
    <2>2. h \in Seq(Int) /\ e \in Seq(Int) /\ p \in Seq(Int)
          /\ Len(h) = 1 /\ Len(p) = 1 /\ Len(e) = 0 /\ h[1] = Header /\ p[1] = Part(Header)
      BY <2>1, EmptySeq
    <2> HIDE DEF h, e, p
    <2> QED
      BY <2>2 DEF FirstRows
  <1>2. HeaderWhole = [k \in KINDS |-> h] /\ Torn(Header) = {e, p}
    BY DEF HeaderWhole, Torn
  <1> HIDE DEF h, e, p
  <1>3. f.made \in SUBSET KINDS /\ \A k \in KINDS : f.rows[k] \in {h, e, p}
    <2>1. CASE f = [made |-> {"puff"}, rows |-> [k \in KINDS |-> e]]
      BY <2>1 DEF KINDS
    <2>2. CASE f = [made |-> KINDS, rows |-> HeaderWhole]
      BY <1>2, <2>2
    <2>3. ASSUME NEW torn \in {e, p},
                 f = [made |-> KINDS, rows |-> [k \in KINDS |-> IF k = "puff" THEN torn ELSE e]]
          PROVE  f.made = KINDS /\ \A k \in KINDS : f.rows[k] \in {h, e, p}
      BY <2>3
    <2>4. ASSUME NEW torn \in {e, p},
                 f = [made |-> KINDS, rows |-> [k \in KINDS |-> IF k = "mag" THEN torn ELSE h]]
          PROVE  f.made = KINDS /\ \A k \in KINDS : f.rows[k] \in {h, e, p}
      BY <2>4
    <2>5. Unfinished =
            {[made |-> {"puff"}, rows |-> [k \in KINDS |-> e]],
             [made |-> KINDS, rows |-> HeaderWhole]}
            \cup {[made |-> KINDS, rows |-> [k \in KINDS |-> IF k = "puff" THEN torn ELSE e]] :
                   torn \in {e, p}}
            \cup {[made |-> KINDS, rows |-> [k \in KINDS |-> IF k = "mag" THEN torn ELSE h]] :
                   torn \in {e, p}}
      BY <1>2 DEF Unfinished, h, e
    <2> QED
      BY <2>1, <2>2, <2>3, <2>4, <2>5
  <1> QED
    BY <1>1, <1>3 DEF h

\* A file that was made, and what is in it.
HasRows(file, rows) == file.made /\ file.rows = rows

\* The files SDLog_Start makes belong to a run that has none.
LEMMA NewFilesAreSound ==
  ASSUME IInv, NEW i \in NextRun, NEW made \in SUBSET KINDS, NEW rows, NEW unsynced,
         \A k \in KINDS : rows[k] \in Seq(Int) /\ FirstRows(rows[k], <<Header>>),
         NewFiles(i, made, rows, unsynced)
  PROVE  /\ i \in (1 .. RUNS) \ kept /\ run' = i
         /\ card' \in Card /\ given' \in Rows
         /\ FilesSound(card', given') /\ FilesComplete(card', given', kept)
         /\ \A k \in KINDS : given'[i][k] = <<Header>>
         /\ \A k \in made : HasRows(card'[i][k], rows[k])
  <1> DEFINE h == <<Header>>
             e == << >>
  <1>1. h \in Seq(Nat) /\ e \in Seq(Nat) /\ Len(e) = 0 /\ FirstRows(e, h)
    <2>1. h \in Seq(Nat) /\ e \in Seq(Nat) /\ Len(e) = 0
      BY EmptySeq DEF Header
    <2> HIDE DEF h
    <2> QED
      BY <2>1, FirstOfNone
  <1>2. \A k \in KINDS : rows[k] \in Seq(Int) /\ Len(rows[k]) \in Nat /\ FirstRows(rows[k], h)
    BY LenProperties
  <1>3. i \in 1 .. RUNS /\ \A k \in KINDS : ~card[i][k].made
    BY DEF NextRun, Free
  <1>4. card \in Card /\ given \in Rows /\ FilesSound(card, given)
        /\ FilesComplete(card, given, kept) /\ kept \subseteq 1 .. RUNS
    BY TypeParts DEF IInv, Safe, HistoryTyped
  <1>5. i \notin kept
    BY <1>3, <1>4 DEF FilesComplete, KINDS
  <1> DEFINE F(k) == IF k \in made
                       THEN [made |-> TRUE, rows |-> rows[k],
                             synced |-> IF k \in unsynced THEN 0 ELSE Len(rows[k])]
                       ELSE card[i][k]
  <1>6. /\ run' = i
        /\ card' = [card EXCEPT ![i] = [k \in KINDS |-> F(k)]]
        /\ given' = [given EXCEPT ![i] = [k \in KINDS |-> h]]
    BY <1>3, <1>4 DEF NewFiles, Card
  <1> HIDE DEF h, e
  <1>7. ASSUME NEW k \in KINDS
        PROVE  /\ F(k) \in File /\ FirstRows(F(k).rows, h) /\ F(k).synced <= Len(F(k).rows)
               /\ ~F(k).made => F(k).rows = e
               /\ k \in made => F(k).made /\ F(k).rows = rows[k]
    <2>1. CASE k \in made
      BY <1>1, <1>2, <2>1 DEF File
    <2>2. CASE k \notin made
      <3>1. card[i][k] \in File /\ card[i][k].synced <= Len(card[i][k].rows)
            /\ card[i][k].rows = e
        BY <1>3, <1>4, FileTypes DEF FilesSound, e
      <3> QED
        BY <1>1, <2>2, <3>1
    <2> QED
      BY <2>1, <2>2
  <1> HIDE DEF F
  <1>8. card' \in Card /\ given' \in Rows
    BY <1>1, <1>3, <1>4, <1>6, <1>7 DEF Card, Rows
  <1>9. \A k \in KINDS : card'[i][k] = F(k) /\ given'[i][k] = h
    BY <1>3, <1>4, <1>6 DEF Card, Rows
  <1>10. \A j \in 1 .. RUNS : j # i => card'[j] = card[j] /\ given'[j] = given[j]
    BY <1>3, <1>4, <1>6 DEF Card, Rows
  <1>11. FilesSound(card', given')
    BY <1>4, <1>7, <1>9, <1>10 DEF FilesSound, e
  <1>12. FilesComplete(card', given', kept)
    BY <1>4, <1>5, <1>10 DEF FilesComplete
  <1>13. \A k \in made : HasRows(card'[i][k], rows[k])
    BY <1>7, <1>9 DEF HasRows
  <1> QED
    BY <1>3, <1>5, <1>6, <1>8, <1>9, <1>11, <1>12, <1>13 DEF h

\* The command 'd'.
LEMMA StartKeepsIInv ==
  ASSUME IInv, SDLog_Start, pc' = "sample", serial' = serial, cuts' = cuts
  PROVE  IInv'
  <1>0. /\ FlagsTyped /\ BuffersTyped /\ PlaceTyped /\ HistoryTyped /\ card \in Card
        /\ FilesSound(card, given) /\ FilesComplete(card, given, kept)
    BY TypeParts DEF IInv, Safe
  <1>1. ~sd_logging /\ kept' = kept
    BY DEF SDLog_Start
  <1>2. CASE MountFails \/ FindOrOpenFails
    <2>1. /\ sd_mounted' \in BOOLEAN /\ open' = {} /\ sd_logging' = sd_logging
          /\ sd_faulted' = sd_faulted /\ UNCHANGED buffers
          /\ run' = run /\ card' = card /\ given' = given
      BY <1>2 DEF MountFails, FindOrOpenFails
    <2>2. FlagsTyped' /\ BuffersTyped' /\ PlaceTyped' /\ HistoryTyped' /\ card' \in Card
      BY <1>0, <1>1, <2>1 DEF FlagsTyped, BuffersTyped, PlaceTyped, HistoryTyped, buffers
    <2> QED
      BY <1>0, <1>1, <2>1, <2>2, TypeParts, WithoutRun
  <1>3. CASE HeaderFails
    <2>1. PICK i \in NextRun, f \in Unfinished, left \in SUBSET KINDS,
               unsynced \in SUBSET KINDS :
            NewFiles(i, f.made, f.rows, unsynced) /\ open' = left
      BY <1>3 DEF HeaderFails
    <2>2. /\ i \in 1 .. RUNS /\ run' = i /\ card' \in Card /\ given' \in Rows
          /\ FilesSound(card', given') /\ FilesComplete(card', given', kept)
      <3>1. /\ f.made \in SUBSET KINDS
            /\ \A k \in KINDS : f.rows[k] \in Seq(Int) /\ FirstRows(f.rows[k], <<Header>>)
        BY HeaderRows
      <3> QED
        BY <2>1, <3>1, NewFilesAreSound
    <2>3. sd_mounted' = TRUE /\ sd_logging' = sd_logging /\ sd_faulted' = sd_faulted
          /\ UNCHANGED buffers
      BY <1>3 DEF HeaderFails
    <2>4. FlagsTyped' /\ BuffersTyped' /\ PlaceTyped' /\ HistoryTyped'
      BY <1>0, <1>1, <2>1, <2>2, <2>3
         DEF FlagsTyped, BuffersTyped, PlaceTyped, HistoryTyped, buffers
    <2> QED
      BY <1>1, <2>2, <2>3, <2>4, TypeParts, WithoutRun
  <1>4. CASE RunOpens
    <2>1. PICK i \in NextRun : NewFiles(i, KINDS, HeaderWhole, {})
      BY <1>4 DEF RunOpens
    <2>h. \A k \in KINDS : /\ HeaderWhole[k] \in Seq(Int) /\ HeaderWhole[k] = <<Header>>
                          /\ FirstRows(HeaderWhole[k], <<Header>>)
      <3> DEFINE f == [made |-> KINDS, rows |-> HeaderWhole]
      <3>1. f \in Unfinished \cup {f} /\ f.rows = HeaderWhole
        OBVIOUS
      <3> HIDE DEF f
      <3>2. \A k \in KINDS : f.rows[k] \in Seq(Int) /\ FirstRows(f.rows[k], <<Header>>)
        BY <3>1, HeaderRows DEF f
      <3>3. \A k \in KINDS : HeaderWhole[k] = <<Header>>
        BY DEF HeaderWhole
      <3> QED
        BY <3>1, <3>2, <3>3
    <2>2. /\ i \in (1 .. RUNS) \ kept /\ run' = i /\ card' \in Card /\ given' \in Rows
          /\ FilesSound(card', given') /\ FilesComplete(card', given', kept)
          /\ \A k \in KINDS : /\ given'[i][k] = <<Header>> /\ card'[i][k].made
                              /\ card'[i][k].rows = <<Header>>
      <3>1. KINDS \in SUBSET KINDS
        OBVIOUS
      <3>2. \A k \in KINDS : HeaderWhole[k] \in Seq(Int) /\ FirstRows(HeaderWhole[k], <<Header>>)
        BY <2>h
      <3>3. /\ i \in (1 .. RUNS) \ kept /\ run' = i /\ card' \in Card /\ given' \in Rows
            /\ FilesSound(card', given') /\ FilesComplete(card', given', kept)
        BY <2>1, <3>1, <3>2, NewFilesAreSound
      <3>4. \A k \in KINDS : given'[i][k] = <<Header>>
        BY <2>1, <3>1, <3>2, NewFilesAreSound
      <3>5. \A k \in KINDS : HasRows(card'[i][k], HeaderWhole[k])
        BY <2>1, <3>1, <3>2, NewFilesAreSound
      <3>6. \A k \in KINDS : card'[i][k].made /\ card'[i][k].rows = <<Header>>
        BY <2>h, <3>5 DEF HasRows
      <3> QED
        BY <3>3, <3>4, <3>6
    <2>3. open' = KINDS /\ sd_mounted' = TRUE /\ sd_logging' = TRUE /\ sd_faulted' = FALSE
          /\ mag_fill' = << >> /\ mag_write' = << >> /\ mag_buffer_ready' = FALSE
          /\ mag_overrun' = FALSE
      BY <1>4 DEF RunOpens, ResetBuffers, SetLogging
    <2>4. FlagsTyped' /\ BuffersTyped' /\ PlaceTyped' /\ HistoryTyped'
      <3>1. FlagsTyped'
        BY <2>3 DEF FlagsTyped
      <3>2. BuffersTyped'
        BY <2>3, EmptyBuffer DEF BuffersTyped
      <3>3. PlaceTyped'
        BY <2>2, <2>3 DEF PlaceTyped
      <3>4. HistoryTyped'
        BY <1>0, <1>1, <2>2 DEF HistoryTyped
      <3> QED
        BY <3>1, <3>2, <3>3, <3>4
    <2>5. CurrentRun'
      <3>1. <<Header>> # << >>
        OBVIOUS
      <3> QED
        BY <1>1, <2>2, <2>4, <3>1 DEF CurrentRun, HistoryTyped
    <2>6. Holds(card, Waiting, mag_fill)'
      <3>1. <<Header>> \o << >> \o << >> = <<Header>>
        OBVIOUS
      <3>2. Waiting' = << >>
        BY <2>3 DEF Waiting
      <3>3. Safe(card)'
        BY <1>1, <2>2 DEF Safe
      <3> QED
        BY <2>2, <2>3, <3>1, <3>2, <3>3, EmptyBuffer DEF Holds, KINDS
    <2> QED
      BY <1>1, <2>2, <2>3, <2>4, <2>5, <2>6, TypeParts DEF IInv, RunInv, Safe
  <1> QED
    BY <1>2, <1>3, <1>4 DEF SDLog_Start

\* A sync or a close that fails leaves every row that was written.
LEMMA CloseFailsIsSafe ==
  ASSUME IInv, sd_logging, CloseFails
  PROVE  /\ Safe(card') /\ BuffersTyped' /\ kept' = kept /\ run' = run
         /\ sd_logging' = FALSE /\ sd_faulted' = TRUE /\ open' \subseteq KINDS
  <1>1. PICK c \in Flushed, synced \in SUBSET KINDS, closed \in SUBSET KINDS :
          card' = WithSynced(c, synced \cup closed) /\ open' = KINDS \ closed
    BY DEF CloseFails
  <1>2. CurrentRun /\ Safe(c)
    BY FlushedHolds DEF Holds
  <1>3. Safe(card')
    <2>1. synced \cup closed \in SUBSET KINDS
      OBVIOUS
    <2> QED
      BY <1>1, <1>2, <2>1, SyncedIsSafe
  <1>4. BuffersTyped
    BY TypeParts DEF IInv
  <1> QED
    BY <1>1, <1>3, <1>4, FlushSucceedsIsTyped DEF CloseFails

\* A run that is closed without a fault is complete.
LEMMA ClosesCleanlyIsSafe ==
  ASSUME IInv, sd_logging, ClosesCleanly
  PROVE  /\ Safe(card') /\ BuffersTyped' /\ kept' = kept \cup {run} /\ run' = run
         /\ FilesComplete(card', given, kept')
         /\ run \in 1 .. RUNS /\ sd_logging' = FALSE /\ open' = {}
  <1>1. PICK c \in Flushed : card' = WithSynced(c, KINDS)
    BY DEF ClosesCleanly
  <1>2. CurrentRun /\ Holds(c, << >>, << >>)
    BY FlushedHolds
  <1>3. Safe(card') /\ FilesComplete(card', given, kept \cup {run})
    BY <1>1, <1>2, ClosedIsComplete
  <1>4. BuffersTyped
    BY TypeParts DEF IInv
  <1> QED
    BY <1>2, <1>3, <1>4, FlushSucceedsIsTyped DEF ClosesCleanly, CurrentRun

\* The commands that end a run, or find none: 's', 'e' and a 'boot' that is cancelled.
LEMMA EndKeepsIInv ==
  ASSUME IInv, SDLog_Stop \/ SDLog_Eject \/ BootCancelled,
         pc' = "sample", serial' = serial, cuts' = cuts
  PROVE  IInv'
  <1>0. /\ FlagsTyped /\ BuffersTyped /\ PlaceTyped /\ HistoryTyped /\ card \in Card
        /\ FilesSound(card, given) /\ FilesComplete(card, given, kept)
    BY TypeParts DEF IInv, Safe
  <1>1. given' = given
    BY DEF SDLog_Stop, SDLog_Eject, BootCancelled
  <1>2. CASE ~sd_logging
    <2>1. /\ sd_logging' = sd_logging /\ UNCHANGED buffers /\ run' = run /\ card' = card
          /\ kept' = kept /\ sd_faulted' = FALSE
          /\ \/ sd_mounted' = FALSE /\ open' = {}
             \/ sd_mounted' = sd_mounted /\ open' = open
      BY <1>2 DEF SDLog_Stop, SDLog_Eject, BootCancelled
    <2>2. FlagsTyped' /\ BuffersTyped' /\ PlaceTyped' /\ HistoryTyped' /\ card' \in Card
      BY <1>0, <1>1, <2>1 DEF FlagsTyped, BuffersTyped, PlaceTyped, HistoryTyped, buffers
    <2> QED
      BY <1>0, <1>1, <1>2, <2>1, <2>2, TypeParts, WithoutRun
  <1>3. CASE sd_logging
    <2>1. CASE FlushFails
      <3>1. Safe(card') /\ Aborted /\ BuffersTyped' /\ kept' = kept
        BY <1>3, <2>1, FlushFailsIsSafe
      <3>2. FlagsTyped' /\ PlaceTyped' /\ HistoryTyped'
        BY <1>0, <1>1, <3>1 DEF FlagsTyped, PlaceTyped, HistoryTyped, Aborted
      <3> QED
        BY <1>1, <3>1, <3>2, TypeParts, WithoutRun DEF Safe, Aborted
    <2>2. CASE CloseFails /\ UNCHANGED sd_mounted
      <3>1. /\ Safe(card') /\ BuffersTyped' /\ kept' = kept /\ run' = run
            /\ sd_logging' = FALSE /\ sd_faulted' = TRUE /\ open' \subseteq KINDS
        BY <1>3, <2>2, CloseFailsIsSafe
      <3>2. FlagsTyped' /\ PlaceTyped' /\ HistoryTyped'
        BY <1>0, <1>1, <2>2, <3>1 DEF FlagsTyped, PlaceTyped, HistoryTyped
      <3> QED
        BY <1>1, <3>1, <3>2, TypeParts, WithoutRun DEF Safe
    <2>3. CASE ClosesCleanly /\ sd_mounted' \in BOOLEAN /\ sd_faulted' \in BOOLEAN
      <3>1. /\ Safe(card') /\ BuffersTyped' /\ kept' = kept \cup {run} /\ run' = run
            /\ FilesComplete(card', given, kept')
            /\ run \in 1 .. RUNS /\ sd_logging' = FALSE /\ open' = {}
        BY <1>3, <2>3, ClosesCleanlyIsSafe
      <3>2. FlagsTyped' /\ PlaceTyped' /\ HistoryTyped'
        BY <1>0, <1>1, <2>3, <3>1 DEF FlagsTyped, PlaceTyped, HistoryTyped
      <3> QED
        BY <1>1, <3>1, <3>2, TypeParts, WithoutRun DEF Safe
    <2>4. \/ FlushFails
          \/ CloseFails /\ UNCHANGED sd_mounted
          \/ ClosesCleanly /\ sd_mounted' \in BOOLEAN /\ sd_faulted' \in BOOLEAN
      BY <1>0, <1>3 DEF SDLog_Stop, SDLog_Eject, BootCancelled, FlagsTyped
    <2> QED
      BY <2>1, <2>2, <2>3, <2>4
  <1> QED
    BY <1>2, <1>3

\* A row handed over changes no file, and lengthens what the run holds.
LEMMA GivenIsSafe ==
  ASSUME CurrentRun, NEW c, Safe(c), serial \in Nat, NEW k \in KINDS, Given(k)
  PROVE  /\ FilesSound(c, given') /\ FilesComplete(c, given', kept)
         /\ given' \in Rows /\ serial' \in Nat
         /\ \A j \in KINDS : given'[run][j] =
                IF j = k THEN Append(given[run][k], serial) ELSE given[run][j]
         /\ \A j \in KINDS : given'[run][j] # << >>
  <1>1. c \in Card /\ given \in Rows /\ run \in 1 .. RUNS /\ run \notin kept
        /\ kept \subseteq 1 .. RUNS
    BY DEF Safe, CurrentRun
  <1> DEFINE g == given[run][k]
             a == Append(g, serial)
  <1>2. g \in Seq(Nat) /\ a \in Seq(Nat) /\ a # << >>
    <2>1. g \in Seq(Nat)
      BY <1>1 DEF Rows
    <2> HIDE DEF g
    <2> QED
      BY <2>1, AppendProperties
  <1>3. \A s \in Seq(Int) : FirstRows(s, g) => FirstRows(s, a)
    BY <1>2, FirstAppend
  <1>4. given' = [given EXCEPT ![run] = [given[run] EXCEPT ![k] = a]] /\ serial' = serial + 1
    BY <1>1 DEF Given, Rows
  <1> HIDE DEF a
  <1>5. given' \in Rows
    BY <1>1, <1>2, <1>4 DEF Rows
  <1>6. \A i \in 1 .. RUNS, j \in KINDS :
          given'[i][j] = IF i = run /\ j = k THEN a ELSE given[i][j]
    BY <1>1, <1>4 DEF Rows
  <1>7. FilesSound(c, given')
    <2> SUFFICES ASSUME NEW i \in 1 .. RUNS, NEW j \in KINDS
                 PROVE  FirstRows(c[i][j].rows, given'[i][j])
      BY DEF Safe, FilesSound
    <2>1. c[i][j].rows \in Seq(Int) /\ FirstRows(c[i][j].rows, given[i][j])
      BY <1>1, FileTypes DEF Safe, FilesSound
    <2> QED
      BY <1>3, <1>6, <2>1
  <1>8. FilesComplete(c, given', kept)
    <2> SUFFICES ASSUME NEW i \in kept, NEW j \in KINDS
                 PROVE  given'[i][j] = given[i][j]
      BY DEF Safe, FilesComplete
    <2> QED
      BY <1>1, <1>6
  <1>9. \A j \in KINDS : given'[run][j] # << >>
    BY <1>1, <1>2, <1>6 DEF CurrentRun
  <1> QED
    BY <1>1, <1>4, <1>5, <1>6, <1>7, <1>8, <1>9 DEF a

\* A sample goes to the end of the rows of the run: an overrun cannot happen, for
\* the loop serves the waiting block before the next sample.
LEMMA SampleKeepsIInv ==
  ASSUME IInv, Sample
  PROVE  IInv'
  <1>0. /\ FlagsTyped /\ BuffersTyped /\ PlaceTyped /\ HistoryTyped /\ Safe(card)
        /\ RunInv /\ CurrentRun /\ sd_logging
    BY TypeParts DEF IInv, RunInv, Sample, SDLog_WriteSample
  <1>1. Given("mag") /\ UNCHANGED <<flags, files, kept, cuts>> /\ pc' = "puff" /\ ~mag_buffer_ready
    BY <1>0 DEF Sample, SDLog_WriteSample, After, RunInv
  <1>2. /\ FilesSound(card, given') /\ FilesComplete(card, given', kept)
        /\ given' \in Rows /\ serial' \in Nat
        /\ given'[run]["mag"] = Append(given[run]["mag"], serial)
        /\ given'[run]["puff"] = given[run]["puff"]
        /\ \A j \in KINDS : given'[run][j] # << >>
    BY <1>0, <1>1, GivenIsSafe DEF HistoryTyped, KINDS
  <1>3. card' = card /\ run' = run /\ open' = open /\ kept' = kept
        /\ sd_mounted' = sd_mounted /\ sd_logging' = sd_logging /\ sd_faulted' = sd_faulted
        /\ cuts' = cuts
    BY <1>1 DEF flags, files
  <1>4. Safe(card') /\ Safe(card)'
    BY <1>0, <1>2, <1>3 DEF Safe
  <1>5. CurrentRun'
    BY <1>0, <1>2, <1>3 DEF CurrentRun
  <1> DEFINE s == card[run]["mag"].rows
  <1>6. s \in Seq(Int) /\ mag_fill \in Seq(Nat) /\ mag_fill \in Seq(Int) /\ serial \in Nat
        /\ s \o << >> \o mag_fill = given[run]["mag"]
    BY <1>0, <1>1, FileTypes, RowsInFile
       DEF RunInv, Holds, Waiting, Safe, CurrentRun, KINDS, BuffersTyped, HistoryTyped
  <1>7. /\ BuffersTyped'
        /\ s \o Waiting' \o mag_fill' = Append(given[run]["mag"], serial)
        /\ Waiting' \in Seq(Nat)
    <2> HIDE DEF s
    <2>1. CASE ~FillFull
      <3>1. mag_fill' = Append(mag_fill, serial) /\ mag_write' = mag_write
            /\ mag_buffer_ready' = mag_buffer_ready /\ mag_overrun' = mag_overrun
        BY <2>1 DEF Sample, SDLog_WriteSample
      <3>2. mag_fill' \in Seq(Nat) /\ Len(mag_fill') <= MAG_BUF_LEN
        <4>1. Len(mag_fill) \in Nat /\ Len(Append(mag_fill, serial)) = Len(mag_fill) + 1
          BY <1>6, AppendProperties, LenProperties
        <4> QED
          BY <1>6, <2>1, <3>1, <4>1, AppendProperties, LogConstants DEF FillFull
      <3>3. Waiting' = << >>
        BY <1>1, <3>1 DEF Waiting
      <3>4. s \o << >> \o Append(mag_fill, serial) = Append(s \o << >> \o mag_fill, serial)
        <4>1. s \o << >> \in Seq(Int) /\ serial \in Int
          BY <1>6, ConcatProperties, EmptySeq
        <4> QED
          BY <1>6, <4>1, AppendIsConcat, ConcatAssociative, ConcatProperties
      <3> QED
        BY <1>0, <1>6, <3>1, <3>2, <3>3, <3>4, EmptySeq DEF BuffersTyped
    <2>2. CASE FillFull
      <3>1. mag_fill' = <<serial>> /\ mag_write' = mag_fill
            /\ mag_buffer_ready' = TRUE /\ mag_overrun' = mag_overrun
        BY <1>1, <2>2 DEF Sample, SDLog_WriteSample
      <3>2. <<serial>> \in Seq(Nat) /\ Len(<<serial>>) = 1
        BY <1>6
      <3>3. Waiting' = mag_fill
        BY <3>1 DEF Waiting
      <3>4. s \o mag_fill \o <<serial>> = Append(s \o << >> \o mag_fill, serial)
        <4>1. s \o << >> = s /\ s \o mag_fill \in Seq(Int) /\ serial \in Int
          BY <1>6, ConcatEmptySeq, ConcatProperties
        <4> QED
          BY <1>6, <4>1, AppendIsConcat
      <3>5. BuffersTyped'
        BY <1>0, <3>1, <3>2, LogConstants DEF BuffersTyped
      <3> QED
        BY <1>6, <3>1, <3>3, <3>4, <3>5
    <2> QED
      BY <2>1, <2>2
  <1>8. Holds(card, Waiting, mag_fill)'
    BY <1>0, <1>2, <1>3, <1>4, <1>7 DEF Holds, RunInv, BuffersTyped
  <1>9. FlagsTyped' /\ PlaceTyped' /\ HistoryTyped'
    BY <1>0, <1>1, <1>2, <1>3 DEF FlagsTyped, PlaceTyped, HistoryTyped
  <1>10. TypeOK' /\ RunInv'
    BY <1>0, <1>1, <1>3, <1>4, <1>5, <1>7, <1>8, <1>9, TypeParts DEF RunInv, Safe
  <1> QED
    BY <1>4, <1>10 DEF IInv

\* A puff row is written through to its file, or the run is aborted.
LEMMA PuffKeepsIInv ==
  ASSUME IInv, Puff
  PROVE  IInv'
  <1>0. /\ FlagsTyped /\ BuffersTyped /\ PlaceTyped /\ HistoryTyped /\ Safe(card)
        /\ RunInv /\ CurrentRun /\ sd_logging /\ "puff" \in KINDS /\ "mag" \in KINDS
    BY TypeParts DEF IInv, RunInv, Puff, SDLog_WritePuffEvent, KINDS
  <1>1. Given("puff") /\ UNCHANGED <<buffers, kept, cuts, pc>>
    BY DEF Puff, SDLog_WritePuffEvent
  <1>2. /\ FilesSound(card, given') /\ FilesComplete(card, given', kept)
        /\ given' \in Rows /\ serial' \in Nat
        /\ given'[run]["puff"] = Append(given[run]["puff"], serial)
        /\ given'[run]["mag"] = given[run]["mag"]
        /\ \A j \in KINDS : given'[run][j] # << >>
    BY <1>0, <1>1, GivenIsSafe DEF HistoryTyped
  <1>3. BuffersTyped' /\ HistoryTyped' /\ pc' = pc /\ kept' = kept
    BY <1>0, <1>1, <1>2 DEF BuffersTyped, HistoryTyped, buffers
  <1>c. /\ card \in Card /\ run \in (1 .. RUNS) \ kept /\ kept \in SUBSET (1 .. RUNS)
        /\ \A k \in KINDS : card[run][k].made
        /\ card[run]["puff"].rows \in Seq(Int) /\ card[run]["puff"].rows = given[run]["puff"]
        /\ serial \in Nat /\ given[run]["puff"] \in Seq(Nat)
    BY <1>0, FileTypes DEF CurrentRun, RunInv, Holds, Safe, HistoryTyped, Rows
  <1>4. ASSUME NEW torn \in Torn(serial), SDLog_Abort(WithRows(card, "puff", torn))
        PROVE  IInv'
    <2> DEFINE s == given[run]["puff"]
               t == Append(s, serial)
               c == WithRows(card, "puff", torn)
    <2>1. torn \in Seq(Int) /\ FirstRows(s \o torn, t)
      <3>1. s \in Seq(Nat) /\ s \in Seq(Int) /\ Len(s) \in Nat
        BY <1>c, RowsInFile, LenProperties
      <3>2. FirstRows(s, t)
        BY <1>c, <3>1, FirstAppend, FirstOfConcat, EmptySeq
      <3> HIDE DEF s
      <3>3. /\ Len(t) = Len(s) + 1 /\ t[Len(s) + 1] = serial
            /\ \A i \in 1 .. Len(s) : s[i] = t[i]
        BY <1>c, <3>1, AppendProperties
      <3> HIDE DEF t
      <3>4. Len(t) \in Nat /\ Len(s) < Len(t) /\ t[Len(s) + 1] \in Nat
            /\ torn \in Torn(t[Len(s) + 1])
        BY <1>c, <1>4, <3>1, <3>3
      <3> QED
        BY <3>1, <3>2, <3>3, <3>4, FirstTorn
    <2>2. /\ card[run]["puff"].rows = s /\ given'[run]["puff"] = t
      BY <1>2, <1>c
    <2> HIDE DEF s, t
    <2>3. FirstRows(card[run]["puff"].rows \o torn, given'[run]["puff"])
      BY <2>1, <2>2
    <2>4. c \in Card /\ FilesSound(c, given') /\ FilesComplete(c, given', kept)
      BY <1>0, <1>2, <1>c, <2>1, <2>3, WrittenIsSound
    <2> HIDE DEF c
    <2>5. PICK closed \in SUBSET KINDS : card' = WithSynced(c, closed)
      BY <1>4 DEF SDLog_Abort, c
    <2>6. card' \in Card /\ FilesSound(card', given') /\ FilesComplete(card', given', kept')
      BY <1>3, <1>c, <2>4, <2>5, SyncedIsSound
    <2>7. Aborted
      BY <1>4 DEF SDLog_Abort, Aborted
    <2>8. FlagsTyped' /\ PlaceTyped'
      BY <1>0, <1>3, <2>7 DEF FlagsTyped, PlaceTyped, Aborted
    <2> QED
      BY <1>3, <2>6, <2>7, <2>8, TypeParts, WithoutRun DEF Aborted
  <1>5. CASE card' = WithRows(card, "puff", <<serial>>) /\ UNCHANGED <<flags, run, open>>
    <2> DEFINE s == card[run]["puff"].rows
               x == <<serial>>
               d == WithRows(card, "puff", x)
    <2>1. card \in Card /\ run \in (1 .. RUNS) \ kept /\ kept \in SUBSET (1 .. RUNS)
          /\ \A k \in KINDS : card[run][k].made
      BY <1>c
    <2>2. s \in Seq(Int) /\ serial \in Int /\ s = given[run]["puff"] /\ x \in Seq(Int)
      BY <1>c
    <2>3. s \o x = given'[run]["puff"]
      BY <1>2, <2>2, AppendIsConcat
    <2>4. FirstRows(s \o x, given'[run]["puff"])
      <3>1. s \o x \in Seq(Int)
        BY <2>2, ConcatProperties
      <3> QED
        BY <2>3, <3>1, FirstOfConcat, EmptySeq
    <2>5. d \in Card /\ FilesSound(d, given') /\ FilesComplete(d, given', kept)
      BY <1>0, <1>2, <2>1, <2>2, <2>4, WrittenIsSound
    <2>w. \A i \in 1 .. RUNS, j \in KINDS :
            /\ d[i][j].rows = IF i = run /\ j = "puff" THEN card[i][j].rows \o x
                              ELSE card[i][j].rows
            /\ d[i][j].made = card[i][j].made
      <3>1. card \in Card /\ run \in 1 .. RUNS /\ "puff" \in KINDS /\ x \in Seq(Int)
        BY <1>0, <2>1, <2>2
      <3> HIDE DEF x
      <3> QED
        BY <3>1, WrittenFields
    <2> HIDE DEF d, x
    <2>6. /\ d[run]["mag"].rows = card[run]["mag"].rows /\ d[run]["puff"].rows = s \o x
          /\ \A k \in KINDS : d[run][k].made
      BY <1>0, <2>1, <2>w
    <2> HIDE DEF s
    <2>7. card' = d /\ run' = run /\ open' = open /\ sd_mounted' = sd_mounted
          /\ sd_logging' = sd_logging /\ sd_faulted' = sd_faulted
      BY <1>5 DEF d, x, flags
    <2>8. Waiting' = Waiting /\ mag_fill' = mag_fill /\ mag_buffer_ready' = mag_buffer_ready
      BY <1>1 DEF Waiting, buffers
    <2>9. Safe(card)'
      BY <1>3, <2>5, <2>7 DEF Safe
    <2>10. CurrentRun'
      BY <1>0, <1>2, <1>3, <2>7 DEF CurrentRun
    <2>11. Holds(card, Waiting, mag_fill)'
      BY <1>0, <1>2, <2>3, <2>6, <2>7, <2>8, <2>9 DEF Holds, RunInv
    <2>12. FlagsTyped' /\ PlaceTyped'
      BY <1>0, <1>3, <2>7 DEF FlagsTyped, PlaceTyped
    <2>13. RunInv'
      BY <1>0, <1>3, <2>7, <2>8, <2>10, <2>11 DEF RunInv
    <2> QED
      BY <1>3, <2>5, <2>7, <2>9, <2>12, <2>13, TypeParts DEF IInv
  <1> QED
    BY <1>4, <1>5 DEF Puff, SDLog_WritePuffEvent

\* The waiting block is written, or the run is aborted.
LEMMA ServiceKeepsIInv ==
  ASSUME IInv, Service
  PROVE  IInv'
  <1>0. /\ FlagsTyped /\ BuffersTyped /\ PlaceTyped /\ HistoryTyped /\ Safe(card)
        /\ RunInv /\ CurrentRun /\ sd_logging /\ mag_buffer_ready
    BY TypeParts DEF IInv, RunInv, Service, SDLog_Service
  <1>1. serial' = serial /\ given' = given /\ kept' = kept /\ cuts' = cuts /\ pc' = "command"
    BY DEF Service, SDLog_Service, After
  <1>2. HistoryTyped'
    BY <1>0, <1>1 DEF HistoryTyped
  <1>3. Holds(card, mag_write, mag_fill)
    BY <1>0 DEF RunInv, Waiting
  <1>4. CASE BlockFails(card, mag_write, mag_fill)
    <2>1. Safe(card') /\ Aborted /\ BuffersTyped'
      BY <1>0, <1>3, <1>4, BlockFailsIsSafe DEF BuffersTyped
    <2>2. FlagsTyped' /\ PlaceTyped'
      BY <1>0, <1>1, <2>1 DEF FlagsTyped, PlaceTyped, Aborted
    <2> QED
      BY <1>1, <1>2, <2>1, <2>2, TypeParts, WithoutRun DEF Safe, Aborted
  <1>5. CASE BlockWritten
    <2>1. /\ card' \in WithBlock(card, mag_write)
          /\ mag_write' = << >> /\ mag_buffer_ready' = FALSE /\ mag_overrun' = FALSE
          /\ mag_fill' = mag_fill /\ run' = run /\ open' = open /\ sd_mounted' = sd_mounted
          /\ sd_logging' = sd_logging /\ sd_faulted' = sd_faulted
      BY <1>5 DEF BlockWritten, flags
    <2>2. Holds(card', << >>, mag_fill)
      BY <1>0, <1>3, <2>1, BlockWrittenHolds
    <2>3. Waiting' = << >>
      BY <2>1 DEF Waiting
    <2>4. Safe(card)'
      BY <1>1, <2>2 DEF Safe, Holds
    <2>5. Holds(card, Waiting, mag_fill)'
      BY <1>1, <2>1, <2>2, <2>3, <2>4 DEF Holds
    <2>6. CurrentRun'
      BY <1>0, <1>1, <2>1 DEF CurrentRun
    <2>7. RunInv'
      BY <1>0, <2>1, <2>5, <2>6 DEF RunInv
    <2>8. FlagsTyped' /\ PlaceTyped'
      BY <1>0, <1>1, <2>1 DEF FlagsTyped, PlaceTyped
    <2>9. BuffersTyped'
      BY <1>0, <2>1, EmptyBuffer DEF BuffersTyped
    <2> QED
      BY <1>2, <2>4, <2>7, <2>8, <2>9, TypeParts DEF IInv, Safe
  <1> QED
    BY <1>4, <1>5 DEF Service, SDLog_Service

\* Going round the loop: the service has no block left when it is passed.
LEMMA IdleKeepsIInv ==
  ASSUME IInv, Idle
  PROVE  IInv'
  <1>0. FlagsTyped /\ BuffersTyped /\ PlaceTyped /\ HistoryTyped /\ Safe(card)
    BY TypeParts DEF IInv
  <1>1. /\ UNCHANGED <<flags, buffers, files, serial, given, kept, cuts>>
        /\ pc' = After(pc) /\ ~(pc = "service" /\ sd_logging /\ mag_buffer_ready)
    BY DEF Idle
  <1>2. \/ pc = "command" /\ pc' = "sample"
        \/ pc = "sample" /\ pc' = "puff"
        \/ pc = "puff" /\ pc' = "service"
        \/ pc = "service" /\ pc' = "command"
    BY <1>0, <1>1 DEF PlaceTyped, After
  <1>3. FlagsTyped' /\ BuffersTyped' /\ PlaceTyped' /\ HistoryTyped' /\ card' = card
    BY <1>0, <1>1, <1>2
       DEF FlagsTyped, BuffersTyped, PlaceTyped, HistoryTyped, flags, buffers, files
  <1>4. Safe(card)'
    BY <1>0, <1>1 DEF Safe, files
  <1>5. ASSUME sd_logging PROVE RunInv'
    <2>1. RunInv
      BY <1>5 DEF IInv
    <2>2. CurrentRun'
      BY <1>1, <2>1 DEF RunInv, CurrentRun, files
    <2>3. Holds(card, Waiting, mag_fill)'
      BY <1>1, <1>4, <2>1 DEF RunInv, Holds, Waiting, files, buffers
    <2>4. sd_mounted' /\ open' = KINDS
      BY <1>1, <2>1 DEF RunInv, flags, files
    <2>5. pc' \in {"command", "sample"} => ~mag_buffer_ready'
      BY <1>1, <1>2, <1>5, <2>1 DEF RunInv, buffers
    <2> QED
      BY <2>2, <2>3, <2>4, <2>5 DEF RunInv
  <1>6. sd_logging' = sd_logging
    BY <1>1 DEF flags
  <1> QED
    BY <1>3, <1>4, <1>5, <1>6, TypeParts DEF IInv, Safe

\* A restart cuts the files to what their entries cover: a prefix stays one, and a
\* complete file, which is not empty, keeps all of its rows.
LEMMA RestartIsSafe ==
  ASSUME NEW c \in Card, NEW K, given \in Rows, K \subseteq 1 .. RUNS,
         FilesSound(c, given), FilesComplete(c, given, K), Restart(c)
  PROVE  card' \in Card /\ FilesSound(card', given) /\ FilesComplete(card', given, K)
  <1>0. c \in Card /\ given \in Rows /\ K \subseteq 1 .. RUNS
    OBVIOUS
  <1>1. PICK lost \in SUBSET {ik \in (1 .. RUNS) \X KINDS : c[ik[1]][ik[2]].synced = 0} :
          card' = [i \in 1 .. RUNS |-> [k \in KINDS |->
            IF <<i, k>> \in lost THEN NoFile
            ELSE [c[i][k] EXCEPT !.rows = SubSeq(@, 1, c[i][k].synced)]]]
    BY DEF Restart
  <1> DEFINE cut(i, k) == SubSeq(c[i][k].rows, 1, c[i][k].synced)
  <1>2. ASSUME NEW i \in 1 .. RUNS, NEW k \in KINDS
        PROVE  /\ cut(i, k) \in Seq(Int) /\ Len(cut(i, k)) = c[i][k].synced
               /\ FirstRows(cut(i, k), given[i][k])
               /\ c[i][k].synced \in Nat /\ c[i][k] \in File
    <2>1. c[i][k] \in File /\ c[i][k].rows \in Seq(Int) /\ c[i][k].synced \in Nat
          /\ Len(c[i][k].rows) \in Nat
      BY FileTypes
    <2>2. c[i][k].synced \in 0 .. Len(c[i][k].rows) /\ FirstRows(c[i][k].rows, given[i][k])
      BY <2>1 DEF FilesSound
    <2>3. Len(given[i][k]) \in Nat
      BY LenProperties DEF Rows
    <2> QED
      BY <2>1, <2>2, <2>3, FirstCut
  <1>3. ASSUME NEW i \in 1 .. RUNS, NEW k \in KINDS
        PROVE  \/ card'[i][k] = NoFile /\ c[i][k].synced = 0
               \/ card'[i][k] = [c[i][k] EXCEPT !.rows = cut(i, k)]
    <2>1. card'[i][k] = IF <<i, k>> \in lost THEN NoFile
                        ELSE [c[i][k] EXCEPT !.rows = cut(i, k)]
      BY <1>1
    <2>2. <<i, k>> \in lost => c[i][k].synced = 0
      BY <1>1
    <2> QED
      BY <2>1, <2>2
  <1>4. card' = [i \in 1 .. RUNS |-> [k \in KINDS |-> card'[i][k]]]
    BY <1>1
  <1> HIDE DEF cut
  <1>5. NoFile \in File /\ NoFile.rows = << >> /\ NoFile.synced = 0 /\ ~NoFile.made
    BY EmptyBuffer, RowsInFile DEF NoFile, File
  <1>6. ASSUME NEW i \in 1 .. RUNS, NEW k \in KINDS
        PROVE  card'[i][k] \in File
    <2>1. c[i][k] \in File /\ cut(i, k) \in Seq(Int)
      BY <1>2
    <2>2. [c[i][k] EXCEPT !.rows = cut(i, k)] \in File
      BY <2>1 DEF File
    <2> QED
      BY <1>3, <1>5, <2>2
  <1>7. card' \in Card
    BY <1>4, <1>6 DEF Card
  <1>8. FilesSound(card', given)
    <2> SUFFICES ASSUME NEW i \in 1 .. RUNS, NEW k \in KINDS
                 PROVE  /\ FirstRows(card'[i][k].rows, given[i][k])
                        /\ card'[i][k].synced <= Len(card'[i][k].rows)
                        /\ ~card'[i][k].made => card'[i][k].rows = << >>
      BY DEF FilesSound
    <2>1. CASE card'[i][k] = NoFile
      <3>1. given[i][k] \in Seq(Nat)
        BY <1>0 DEF Rows
      <3>2. Len(<< >>) = 0 /\ FirstRows(<< >>, given[i][k])
        BY <3>1, FirstOfNone, EmptySeq
      <3> QED
        BY <1>5, <2>1, <3>2
    <2>2. CASE card'[i][k] = [c[i][k] EXCEPT !.rows = cut(i, k)]
      <3>1. /\ card'[i][k].rows = cut(i, k) /\ card'[i][k].synced = c[i][k].synced
            /\ card'[i][k].made = c[i][k].made
        BY <1>2, <2>2 DEF File
      <3>2. ~c[i][k].made => cut(i, k) = << >>
        <4>1. ~c[i][k].made => c[i][k].rows = << >> /\ c[i][k].synced <= Len(c[i][k].rows)
          BY DEF FilesSound
        <4>2. ~c[i][k].made => Len(cut(i, k)) = 0
          BY <1>2, <4>1, EmptySeq
        <4> QED
          BY <1>2, <4>2, EmptySeq
      <3> QED
        BY <1>2, <3>1, <3>2
    <2> QED
      BY <1>3, <2>1, <2>2
  <1>9. FilesComplete(card', given, K)
    <2> SUFFICES ASSUME NEW i \in K, NEW k \in KINDS
                 PROVE  /\ card'[i][k].made /\ given[i][k] # << >>
                        /\ card'[i][k].rows = given[i][k]
                        /\ card'[i][k].synced = Len(given[i][k])
      BY DEF FilesComplete
    <2>1. i \in 1 .. RUNS
      BY <1>0
    <2>2. /\ c[i][k].made /\ given[i][k] # << >>
          /\ c[i][k].rows = given[i][k] /\ c[i][k].synced = Len(given[i][k])
      BY DEF FilesComplete
    <2>3. given[i][k] \in Seq(Nat)
      BY <1>0, <2>1 DEF Rows
    <2>4. c[i][k].synced # 0
      BY <2>2, <2>3, EmptySeq
    <2>5. cut(i, k) = given[i][k]
      BY <2>2, <2>3, SubSeqFull DEF cut
    <2>6. card'[i][k] = [c[i][k] EXCEPT !.rows = cut(i, k)] /\ c[i][k] \in File
      BY <1>2, <1>3, <2>1, <2>4
    <2> QED
      BY <2>2, <2>5, <2>6 DEF File
  <1> QED
    BY <1>7, <1>8, <1>9

\* A power cut, or a reset into the bootloader after a clean stop.
LEMMA RestartKeepsIInv ==
  ASSUME IInv, Boot \/ PowerCut
  PROVE  IInv'
  <1>0. /\ HistoryTyped /\ card \in Card /\ given \in Rows /\ kept \subseteq 1 .. RUNS
        /\ FilesSound(card, given) /\ FilesComplete(card, given, kept)
    BY TypeParts DEF IInv, Safe, HistoryTyped
  <1>1. ASSUME NEW c, Restart(c), c \in Card, FilesSound(c, given),
               FilesComplete(c, given, kept'), kept' \subseteq 1 .. RUNS, cuts' = cuts + 1
        PROVE  IInv'
    <2>1. card' \in Card /\ FilesSound(card', given) /\ FilesComplete(card', given, kept')
      BY <1>0, <1>1, RestartIsSafe
    <2>2. /\ sd_mounted' = FALSE /\ sd_logging' = FALSE /\ sd_faulted' = FALSE
          /\ mag_fill' = << >> /\ mag_write' = << >>
          /\ mag_buffer_ready' = FALSE /\ mag_overrun' = FALSE
          /\ run' = 0 /\ open' = {} /\ pc' = "command"
          /\ serial' = serial /\ given' = given
      BY <1>1 DEF Restart
    <2>3. FlagsTyped'
      BY <2>2 DEF FlagsTyped
    <2>4. BuffersTyped'
      BY <2>2, EmptyBuffer DEF BuffersTyped
    <2>5. PlaceTyped'
      BY <2>2, LogConstants DEF PlaceTyped
    <2>6. HistoryTyped'
      BY <1>0, <1>1, <2>2 DEF HistoryTyped
    <2> QED
      BY <2>1, <2>2, <2>3, <2>4, <2>5, <2>6, TypeParts, WithoutRun
  <1>2. CASE PowerCut \/ (Boot /\ ~sd_logging)
    BY <1>0, <1>1, <1>2 DEF PowerCut, Boot, BootResets
  <1>3. CASE Boot /\ sd_logging
    <2>1. PICK c \in Flushed : Restart(WithSynced(c, KINDS))
      BY <1>3 DEF Boot, BootResets
    <2>2. CurrentRun /\ Holds(c, << >>, << >>)
      BY <1>3, FlushedHolds
    <2>3. /\ Safe(WithSynced(c, KINDS))
          /\ FilesComplete(WithSynced(c, KINDS), given, kept \cup {run})
      BY <2>2, ClosedIsComplete
    <2>4. kept' = kept \cup {run} /\ cuts' = cuts + 1
      BY <1>3 DEF Boot, BootResets
    <2> QED
      BY <1>0, <1>1, <2>1, <2>2, <2>3, <2>4 DEF Safe, CurrentRun
  <1> QED
    BY <1>2, <1>3

\* Every step of the main loop keeps the invariant.
LEMMA StepIInv == IInv /\ [Next]_vars => IInv'
  <1> SUFFICES ASSUME IInv, [Next]_vars PROVE IInv'
    OBVIOUS
  <1>1. CASE Command
    BY <1>1, StartKeepsIInv, EndKeepsIInv DEF Command, After
  <1>2. CASE Sample
    BY <1>2, SampleKeepsIInv
  <1>3. CASE Puff
    BY <1>3, PuffKeepsIInv
  <1>4. CASE Service
    BY <1>4, ServiceKeepsIInv
  <1>5. CASE Idle
    BY <1>5, IdleKeepsIInv
  <1>6. CASE Boot \/ PowerCut
    BY <1>6, RestartKeepsIInv
  <1>7. CASE UNCHANGED vars
    <2>1. UNCHANGED <<flags, buffers, files, pc, serial, given, kept, cuts>>
      BY <1>7 DEF vars
    <2>2. TypeOK'
      BY <2>1 DEF IInv, TypeOK, flags, buffers, files
    <2>3. Safe(card)'
      BY <2>1 DEF IInv, Safe, files
    <2>4. sd_logging => RunInv'
      BY <2>1 DEF IInv, RunInv, CurrentRun, Holds, Safe, Waiting, flags, buffers, files
    <2> QED
      BY <2>1, <2>2, <2>3, <2>4 DEF IInv, flags
  <1> QED
    BY <1>1, <1>2, <1>3, <1>4, <1>5, <1>6, <1>7 DEF Next

-----------------------------------------------------------------------------
(* The theorems.                                                           *)

\* The invariant holds of every behaviour.
LEMMA Inductive == Spec => []IInv
  BY InitIInv, StepIInv, PTL DEF Spec

\* No failure path of SDLog_Start, SDLog_Stop or SDLog_Abort leaves the log running
\* without the files it writes to.
THEOREM LogsToItsFiles == Spec => []LogInv
  BY Inductive, IInvImplies, PTL

\* The double buffer between SDLog_WriteSample and SDLog_Service loses, repeats and
\* swaps no row, whatever MAG_BUF_LEN is.
THEOREM NoRowIsLost == Spec => []RowsAccountedFor
  BY Inductive, IInvImplies, PTL

\* However a run ends, with writes that fail or end short among the ways, its files hold
\* its first rows and at most a part of the next one after them.
THEOREM FilesArePrefixes == Spec => []EveryRunIsAPrefix
  BY Inductive, IInvImplies, PTL

\* A run that was stopped without a fault stays complete on the card.
THEOREM CleanStopKeepsTheRun == Spec => []CleanRunIsComplete
  BY Inductive, IInvImplies, PTL

-----------------------------------------------------------------------------
(* Refinement: the flags implement SdSession.                              *)

Session(m, l, f) == [mounted |-> m, logging |-> l, faulted |-> f]
Flags == Session(sd_mounted, sd_logging, sd_faulted)

FIELDS == {"mounted", "logging", "faulted"}

\* A session as a function of its fields.
LEMMA SessionAsFunction ==
  ASSUME NEW m, NEW l, NEW f
  PROVE  Session(m, l, f) =
           [i \in FIELDS |-> IF i = "mounted" THEN m ELSE IF i = "logging" THEN l ELSE f]
  BY DEF Session, FIELDS

\* The field that SDLog_Stop and SDLog_Eject test.
LEMMA SessionLogging ==
  ASSUME NEW m, NEW l, NEW f
  PROVE  Session(m, l, f).logging = l
  BY DEF Session

\* A session with sd_mounted changed.
LEMMA SetMounted ==
  ASSUME NEW m, NEW l, NEW f, NEW x
  PROVE  [Session(m, l, f) EXCEPT !.mounted = x] = Session(x, l, f)
  <1> DEFINE s == Session(m, l, f)
  <1>1. s = [i \in FIELDS |-> IF i = "mounted" THEN m ELSE IF i = "logging" THEN l ELSE f]
    BY SessionAsFunction
  <1> HIDE DEF s
  <1>2. [s EXCEPT !.mounted = x] =
          [i \in FIELDS |-> IF i = "mounted" THEN x ELSE IF i = "logging" THEN l ELSE f]
    BY <1>1 DEF FIELDS
  <1> QED
    BY <1>2, SessionAsFunction DEF s, FIELDS

\* A session with sd_logging changed.
LEMMA SetLoggingTo ==
  ASSUME NEW m, NEW l, NEW f, NEW x
  PROVE  [Session(m, l, f) EXCEPT !.logging = x] = Session(m, x, f)
  <1> DEFINE s == Session(m, l, f)
  <1>1. s = [i \in FIELDS |-> IF i = "mounted" THEN m ELSE IF i = "logging" THEN l ELSE f]
    BY SessionAsFunction
  <1> HIDE DEF s
  <1>2. [s EXCEPT !.logging = x] =
          [i \in FIELDS |-> IF i = "mounted" THEN m ELSE IF i = "logging" THEN x ELSE f]
    BY <1>1 DEF FIELDS
  <1> QED
    BY <1>2, SessionAsFunction DEF s, FIELDS

\* A session with sd_faulted changed.
LEMMA SetFaulted ==
  ASSUME NEW m, NEW l, NEW f, NEW x
  PROVE  [Session(m, l, f) EXCEPT !.faulted = x] = Session(m, l, x)
  <1> DEFINE s == Session(m, l, f)
  <1>1. s = [i \in FIELDS |-> IF i = "mounted" THEN m ELSE IF i = "logging" THEN l ELSE f]
    BY SessionAsFunction
  <1> HIDE DEF s
  <1>2. [s EXCEPT !.faulted = x] =
          [i \in FIELDS |-> IF i = "mounted" THEN m ELSE IF i = "logging" THEN l ELSE x]
    BY <1>1 DEF FIELDS
  <1> QED
    BY <1>2, SessionAsFunction DEF s, FIELDS

\* The values of a flag, named so that they can be hidden.
On == TRUE
Off == FALSE

\* What a start without a run, and a stop with or without one, may leave.
LEMMA StartAndStop ==
  ASSUME NEW m, NEW f
  PROVE  /\ Abstract!AfterStart(Session(m, Off, f)) =
              {Session(Off, Off, f), Session(On, Off, f), Session(On, On, Off)}
         /\ Abstract!AfterStop(Session(m, On, f)) =
              {Session(Off, Off, On), Session(m, Off, On), Session(m, Off, f)}
         /\ Abstract!AfterStop(Session(m, Off, f)) = {Session(m, Off, f)}
  <1>1. ASSUME NEW s, ~s.logging
        PROVE  /\ Abstract!AfterStart(s) =
                    {[s EXCEPT !.mounted = Off], [s EXCEPT !.mounted = On], Session(On, On, Off)}
               /\ Abstract!AfterStop(s) = {s}
    BY <1>1 DEF Abstract!AfterStart, Abstract!AfterStop, Session, On, Off
  <1>2. ASSUME NEW s, s.logging
        PROVE  Abstract!AfterStop(s) =
                 {Session(Off, Off, On), [[s EXCEPT !.logging = Off] EXCEPT !.faulted = On],
                  [s EXCEPT !.logging = Off]}
    BY <1>2 DEF Abstract!AfterStop, Abstract!AfterAbort, Session, On, Off
  <1>3. Session(m, Off, f).logging = Off /\ Session(m, On, f).logging = On
    BY SessionLogging
  <1>4. ~Session(m, Off, f).logging /\ Session(m, On, f).logging
    BY <1>3 DEF On, Off
  <1>5. /\ [Session(m, Off, f) EXCEPT !.mounted = Off] = Session(Off, Off, f)
        /\ [Session(m, Off, f) EXCEPT !.mounted = On] = Session(On, Off, f)
    BY SetMounted
  <1>6. [Session(m, On, f) EXCEPT !.logging = Off] = Session(m, Off, f)
    BY SetLoggingTo
  <1>7. [[Session(m, On, f) EXCEPT !.logging = Off] EXCEPT !.faulted = On] =
          Session(m, Off, On)
    <2> DEFINE s == [Session(m, On, f) EXCEPT !.logging = Off]
    <2>1. s = Session(m, Off, f)
      BY <1>6
    <2>2. [Session(m, Off, f) EXCEPT !.faulted = On] = Session(m, Off, On)
      BY SetFaulted
    <2> HIDE DEF s
    <2>3. [s EXCEPT !.faulted = On] = Session(m, Off, On)
      BY <2>1, <2>2, Zenon
    <2> QED
      BY <2>3 DEF s
  <1>8. Abstract!AfterStart(Session(m, Off, f)) =
          {Session(Off, Off, f), Session(On, Off, f), Session(On, On, Off)}
    BY <1>1, <1>4, <1>5
  <1>9. Abstract!AfterStop(Session(m, On, f)) =
          {Session(Off, Off, On), Session(m, Off, On), Session(m, Off, f)}
    BY <1>2, <1>4, <1>6, <1>7
  <1>10. Abstract!AfterStop(Session(m, Off, f)) = {Session(m, Off, f)}
    BY <1>1, <1>4
  <1> QED
    BY <1>8, <1>9, <1>10

\* The stop at the start of an eject or a 'boot' first forgets an old fault.
LEMMA SafeStop ==
  ASSUME NEW m, NEW f
  PROVE  /\ Abstract!AfterSafeStop(Session(m, On, f)) =
              {Session(Off, Off, On), Session(m, Off, On), Session(m, Off, Off)}
         /\ Abstract!AfterSafeStop(Session(m, Off, f)) = {Session(m, Off, Off)}
  <1>1. \A l : [Session(m, l, f) EXCEPT !.faulted = Off] = Session(m, l, Off)
    BY SetFaulted
  <1>2. \A s : Abstract!AfterSafeStop(s) = Abstract!AfterStop([s EXCEPT !.faulted = Off])
    BY DEF Abstract!AfterSafeStop, Off
  <1> QED
    BY <1>1, <1>2, StartAndStop

\* An eject that a fault or a failed unmount cancels leaves the stopped session; one
\* that goes on leaves it unmounted.
LEMMA EjectOutcomes ==
  ASSUME NEW s, NEW t0 \in Abstract!AfterSafeStop(s)
  PROVE  /\ t0.faulted \/ t0.mounted =>
              \E r \in Abstract!AfterEject(s) : r.state = t0
         /\ ~t0.faulted =>
              \E r \in Abstract!AfterEject(s) : r.state = [t0 EXCEPT !.mounted = FALSE]
  <1> DEFINE all == Abstract!AfterSafeStop(s)
             cancelled == {t \in all : t.faulted}
             stopped == all \ cancelled
             stays == {t \in stopped : t.mounted}
             gone == {[t EXCEPT !.mounted = FALSE] : t \in stopped}
  <1>1. Abstract!AfterEject(s) =
          [state : cancelled \cup stays, go : {FALSE}] \cup [state : gone, go : {TRUE}]
    BY DEF Abstract!AfterEject
  <1>2. ASSUME t0.faulted \/ t0.mounted
        PROVE  \E r \in Abstract!AfterEject(s) : r.state = t0
    <2>1. t0 \in cancelled \cup stays
      BY <1>2
    <2> DEFINE r0 == [state |-> t0, go |-> FALSE]
    <2> HIDE DEF cancelled, stopped, stays, gone
    <2>2. r0 \in [state : cancelled \cup stays, go : {FALSE}] /\ r0.state = t0
      BY <2>1
    <2> QED
      BY <1>1, <2>2
  <1>3. ASSUME ~t0.faulted
        PROVE  \E r \in Abstract!AfterEject(s) : r.state = [t0 EXCEPT !.mounted = FALSE]
    <2> DEFINE u0 == [t0 EXCEPT !.mounted = FALSE]
               r0 == [state |-> u0, go |-> TRUE]
    <2>1. u0 \in gone
      BY <1>3
    <2> HIDE DEF cancelled, stopped, stays, gone, u0
    <2>2. r0 \in [state : gone, go : {TRUE}] /\ r0.state = u0
      BY <2>1
    <2> QED
      BY <1>1, <2>2 DEF u0
  <1> QED
    BY <1>2, <1>3

\* The three flags before and after a step.
LEMMA FlagsOf ==
  ASSUME IInv
  PROVE  /\ sd_mounted \in {On, Off} /\ sd_logging \in {On, Off} /\ sd_faulted \in {On, Off}
         /\ Flags' = Session(sd_mounted', sd_logging', sd_faulted')
         /\ sd_logging => Flags = Session(sd_mounted, On, sd_faulted)
         /\ ~sd_logging => Flags = Session(sd_mounted, Off, sd_faulted)
  <1>1. sd_mounted \in BOOLEAN /\ sd_logging \in BOOLEAN /\ sd_faulted \in BOOLEAN
    BY TypeParts DEF IInv, FlagsTyped
  <1>2. sd_logging => sd_logging = On
    BY <1>1 DEF On
  <1>3. ~sd_logging => sd_logging = Off
    BY <1>1 DEF Off
  <1>4. Flags' = Session(sd_mounted', sd_logging', sd_faulted')
    BY DEF Flags
  <1>5. sd_mounted \in {On, Off} /\ sd_logging \in {On, Off} /\ sd_faulted \in {On, Off}
    BY <1>1 DEF On, Off
  <1> QED
    BY <1>2, <1>3, <1>4, <1>5 DEF Flags

\* SDLog_Start has the outcomes of the session's Start.
LEMMA StartIsStart ==
  ASSUME IInv, SDLog_Start
  PROVE  Flags' \in Abstract!AfterStart(Flags)
  <1>1. Flags = Session(sd_mounted, Off, sd_faulted) /\ sd_logging = Off
        /\ Flags' = Session(sd_mounted', sd_logging', sd_faulted')
    BY FlagsOf DEF SDLog_Start, On, Off
  <1>2. \/ sd_mounted' \in {On, Off} /\ sd_logging' = Off /\ sd_faulted' = sd_faulted
        \/ sd_mounted' = On /\ sd_logging' = On /\ sd_faulted' = Off
    BY <1>1 DEF SDLog_Start, MountFails, FindOrOpenFails, HeaderFails, RunOpens, SetLogging,
                On, Off
  <1> QED
    BY <1>1, <1>2, StartAndStop

\* What the ends of a run do to the flags.
LEMMA EndFlags ==
  ASSUME IInv, sd_logging
  PROVE  /\ FlushFails => sd_mounted' = Off /\ sd_logging' = Off /\ sd_faulted' = On
         /\ CloseFails => sd_logging' = Off /\ sd_faulted' = On
         /\ ClosesCleanly => sd_logging' = Off
  BY FlushFailsIsSafe DEF Aborted, CloseFails, ClosesCleanly, On, Off

\* SDLog_Stop has the outcomes of the session's Stop.
LEMMA StopIsStop ==
  ASSUME IInv, SDLog_Stop
  PROVE  Flags' \in Abstract!AfterStop(Flags)
  <1>1. Flags = Session(sd_mounted, On, sd_faulted)
        /\ Flags' = Session(sd_mounted', sd_logging', sd_faulted')
    BY FlagsOf DEF SDLog_Stop
  <1>2. \/ sd_mounted' = Off /\ sd_logging' = Off /\ sd_faulted' = On
        \/ sd_mounted' = sd_mounted /\ sd_logging' = Off /\ sd_faulted' = On
        \/ sd_mounted' = sd_mounted /\ sd_logging' = Off /\ sd_faulted' = sd_faulted
    BY EndFlags DEF SDLog_Stop
  <1> QED
    BY <1>1, <1>2, StartAndStop

\* SDLog_Eject has the outcomes of the session's Eject: a fault or a failed unmount
\* cancels it.
LEMMA EjectIsEject ==
  ASSUME IInv, SDLog_Eject
  PROVE  \E r \in Abstract!AfterEject(Flags) : Flags' = r.state
  <1> DEFINE all == Abstract!AfterSafeStop(Flags)
             aborted == Session(Off, Off, On)
             failed == Session(sd_mounted, Off, On)
             stopped == Session(sd_mounted, Off, Off)
  <1>1. /\ ~sd_logging => stopped \in all
        /\ sd_logging => aborted \in all /\ failed \in all /\ stopped \in all
    BY FlagsOf, SafeStop
  <1>2. Flags' = Session(sd_mounted', sd_logging', sd_faulted') /\ sd_mounted \in {On, Off}
    BY FlagsOf
  <1>3. \/ sd_logging /\ sd_mounted' = Off /\ sd_logging' = Off /\ sd_faulted' = On
        \/ sd_logging /\ sd_mounted' = sd_mounted /\ sd_logging' = Off /\ sd_faulted' = On
        \/ sd_logging' = Off /\ sd_faulted' = Off /\ sd_mounted' = Off
        \/ sd_logging' = Off /\ sd_faulted' = Off /\ sd_mounted' = sd_mounted
    <2>1. CASE sd_logging
      BY <2>1, EndFlags DEF SDLog_Eject, ClosesCleanly, Off
    <2>2. CASE ~sd_logging
      BY <2>2, FlagsOf DEF SDLog_Eject, On, Off
    <2> QED
      BY <2>1, <2>2
  <1>4. /\ aborted.faulted = On /\ failed.faulted = On /\ stopped.faulted = Off
        /\ stopped.mounted = sd_mounted
        /\ [stopped EXCEPT !.mounted = Off] = Session(Off, Off, Off)
    BY SetMounted DEF Session
  <1> HIDE DEF all, aborted, failed, stopped
  <1>5. CASE sd_logging /\ (Flags' = aborted \/ Flags' = failed)
    <2>1. PICK t \in Abstract!AfterSafeStop(Flags) : Flags' = t /\ t.faulted = On
      BY <1>1, <1>4, <1>5 DEF all
    <2>2. t.faulted
      BY <2>1 DEF On
    <2>3. \E r \in Abstract!AfterEject(Flags) : r.state = t
      BY <2>2, EjectOutcomes
    <2> QED
      BY <2>1, <2>3
  <1>6. stopped \in Abstract!AfterSafeStop(Flags)
    BY <1>1 DEF all
  <1>7. CASE Flags' = Session(Off, Off, Off)
    <2>1. ~stopped.faulted
      BY <1>4 DEF Off
    <2>2. \E r \in Abstract!AfterEject(Flags) : r.state = [stopped EXCEPT !.mounted = FALSE]
      BY <1>6, <2>1, EjectOutcomes
    <2>3. [stopped EXCEPT !.mounted = FALSE] = Flags'
      BY <1>4, <1>7 DEF Off
    <2> QED
      BY <2>2, <2>3
  <1>8. CASE Flags' = stopped /\ sd_mounted = On
    <2>1. stopped.mounted
      BY <1>4, <1>8 DEF On
    <2>2. \E r \in Abstract!AfterEject(Flags) : r.state = stopped
      BY <1>6, <2>1, EjectOutcomes
    <2> QED
      BY <1>8, <2>2
  <1> QED
    BY <1>2, <1>3, <1>5, <1>7, <1>8 DEF aborted, failed, stopped

\* A 'boot' that is cancelled leaves a fault, as the session says.
LEMMA BootCancelledIsBootCancelled ==
  ASSUME IInv, BootCancelled
  PROVE  Abstract!BootCancelled
  <1>1. Flags = Session(sd_mounted, On, sd_faulted)
        /\ Flags' = Session(sd_mounted', sd_logging', sd_faulted')
    BY FlagsOf DEF BootCancelled
  <1>2. \/ sd_mounted' = Off /\ sd_logging' = Off /\ sd_faulted' = On
        \/ sd_mounted' = sd_mounted /\ sd_logging' = Off /\ sd_faulted' = On
    BY EndFlags DEF BootCancelled
  <1>3. Flags' \in Abstract!AfterSafeStop(Flags)
    BY <1>1, <1>2, SafeStop
  <1>4. Flags'.faulted
    BY <1>1, <1>2 DEF Session, On
  <1>5. \E t \in Abstract!AfterSafeStop(Flags) : t.faulted /\ Flags' = t
    BY <1>3, <1>4
  <1> QED
    BY <1>5 DEF Abstract!BootCancelled, Flags, Session

\* Every step of the main loop is a step of the session, or leaves the flags alone.
LEMMA StepIsSessionStep ==
  IInv /\ [Next]_vars => [Abstract!SessionNext]_Flags
  <1> SUFFICES ASSUME IInv, [Next]_vars
               PROVE  Abstract!SessionNext \/ Flags' = Flags
    OBVIOUS
  <1> USE DEF Abstract!SessionNext
  <1>1. CASE Command /\ SDLog_Start
    BY <1>1, StartIsStart DEF Abstract!Start, Flags, Session
  <1>2. CASE Command /\ SDLog_Stop
    BY <1>2, StopIsStop DEF Abstract!Stop, Flags, Session
  <1>3. CASE Command /\ SDLog_Eject
    BY <1>3, EjectIsEject DEF Abstract!Eject, Flags, Session
  <1>4. CASE Command /\ BootCancelled
    BY <1>4, BootCancelledIsBootCancelled
  <1>5. CASE Service \/ Puff
    <2>1. sd_logging
      BY <1>5 DEF Service, SDLog_Service, Puff, SDLog_WritePuffEvent
    <2>2. \/ sd_mounted' = FALSE /\ sd_logging' = FALSE /\ sd_faulted' = TRUE
          \/ sd_mounted' = sd_mounted /\ sd_logging' = sd_logging /\ sd_faulted' = sd_faulted
      BY <1>5 DEF Service, SDLog_Service, Puff, SDLog_WritePuffEvent, BlockFails,
                  BlockWritten, SDLog_Abort, flags
    <2> QED
      BY <2>1, <2>2 DEF Abstract!WriteFails, Abstract!AfterAbort, Flags, Session
  <1>6. CASE Sample \/ Idle \/ UNCHANGED vars
    BY <1>6 DEF Sample, SDLog_WriteSample, Idle, vars, flags, Flags, Session
  <1>7. CASE Boot \/ PowerCut
    <2>1. sd_mounted' = FALSE /\ sd_logging' = FALSE /\ sd_faulted' = FALSE
      BY <1>7 DEF Boot, BootResets, PowerCut, Restart
    <2> QED
      BY <2>1 DEF Abstract!Restart, Abstract!PowerUp
  <1> QED
    BY <1>1, <1>2, <1>3, <1>4, <1>5, <1>6, <1>7 DEF Next, Command

\* main() starts with the three flags of PowerUp.
LEMMA InitIsSessionInit == Init => Abstract!SessionInit
  BY DEF Init, RamInit, Abstract!SessionInit, Abstract!PowerUp

\* Whatever FatFs fails at, and wherever the power is cut, the flags sd_mounted,
\* sd_logging and sd_faulted change as SdSession says.
THEOREM LogImplementsSession == Spec => ImplementsSession
  BY InitIsSessionInit, Inductive, StepIsSessionStep, PTL
     DEF Spec, ImplementsSession, Abstract!SessionSpec, Flags, Session

=============================================================================
