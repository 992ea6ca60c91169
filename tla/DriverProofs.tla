---------------------------- MODULE DriverProofs ----------------------------
(***************************************************************************)
(* The two drivers of the sensor's USB port and card, proved for every     *)
(* value of their constants.                                               *)
(*                                                                         *)
(* The console (CdcConsole).  LineInFlightIsKept alone is not inductive:   *)
(* USB_CDC_Print looks at TxState once and copies later, so one also needs *)
(* that nothing else puts a line in flight meanwhile (NothingElseSends)    *)
(* and that what is handed to the library is what the buffer holds         *)
(* (BufferIsText).  That the command carried out is the one meant needs    *)
(* that SDLog_ProcessCommand reads every line as its user does             *)
(* (MeaningIsCommand), whatever its length.                                *)
(*                                                                         *)
(* The card driver (SdSpi).  What a write promised is followed through     *)
(* what the sectors WILL hold once the card has stored its block (Will);   *)
(* the rest is what the driver believes of the card: the kind it is        *)
(* addressed by, the sector it is at, and what `count' still stands for.   *)
(***************************************************************************)
EXTENDS CdcConsole, SdSpi, SequenceTheorems, FiniteSetTheorems,
        WellFoundedInduction, TLAPS

\* Between the test of TxState and the transfer no line is in flight: the
\* interrupt only ends transfers.
NothingElseSends == print_pc # "out" => in_flight = {}

\* What CDC_Transmit_FS is called for has been copied.
BufferIsText == print_pc = "transmit" => tx_buf = print_text

ConsoleIInv == ConsoleTypeOK /\ NothingElseSends /\ BufferIsText /\ LineInFlightIsKept

INK == CHARS \cup {" "}

\* Deleting the last character leaves a shorter line of the same characters.
LEMMA FrontShrinks ==
  ASSUME NEW S, NEW s \in Seq(S), s # << >>
  PROVE  Front(s) \in Seq(S) /\ Len(Front(s)) = Len(s) - 1
<1>1. Len(s) \in Nat /\ Len(s) # 0
  BY EmptySeq
<1>2. \A i \in 1 .. Len(s) - 1 : s[i] \in S
  BY <1>1, ElementOfSeq
<1>3. /\ SubSeq(s, 1, Len(s) - 1) \in Seq(S)
      /\ Len(SubSeq(s, 1, Len(s) - 1)) =
           IF 1 <= Len(s) - 1 THEN Len(s) - 1 - 1 + 1 ELSE 0
  BY <1>1, <1>2, SubSeqProperties
<1>4. Len(SubSeq(s, 1, Len(s) - 1)) = Len(s) - 1
  <2> DEFINE n == Len(s)  m == Len(SubSeq(s, 1, Len(s) - 1))
  <2>1. n \in Nat /\ n # 0 /\ m = IF 1 <= n - 1 THEN n - 1 - 1 + 1 ELSE 0
    BY <1>1, <1>3
  <2> HIDE DEF n, m
  <2>2. m = n - 1
    BY <2>1
  <2> QED  BY <2>2 DEF n, m
<1> QED  BY <1>3, <1>4, Zenon DEF Front

\* A line that fits in cdc_rx_line.
IsLine(s) == s \in Seq(INK) /\ Len(s) <= ROOM

\* The empty line is one.
LEMMA EmptyLine == IsLine(<< >>)
<1>1. << >> \in Seq(INK) /\ Len(<< >>) = 0
  BY EmptySeq, Zenon
<1>2. ROOM \in Nat
  BY ConsoleConstants DEF ConsoleConstants
<1>3. 0 <= ROOM
  BY <1>2
<1> QED  BY <1>1, <1>3, Zenon DEF IsLine

\* WithChar appends only where there is room.
LEMMA LongerLine ==
  ASSUME NEW s, IsLine(s), Len(s) < ROOM, NEW ch \in INK
  PROVE  IsLine(Append(s, ch))
<1>1. s \in Seq(INK)
  BY DEF IsLine
<1>2. Append(s, ch) \in Seq(INK) /\ Len(Append(s, ch)) = Len(s) + 1
  BY <1>1, AppendProperties, Zenon
<1>3. Len(s) \in Nat /\ ROOM \in Nat
  BY <1>1, LenProperties, ConsoleConstants DEF ConsoleConstants
<1>4. Len(s) + 1 <= ROOM
  BY <1>3
<1> QED  BY <1>2, <1>4, Zenon DEF IsLine

\* A deletion leaves a line.
LEMMA ShorterLine ==
  ASSUME NEW s, IsLine(s), s # << >>
  PROVE  IsLine(Front(s))
<1>1. s \in Seq(INK) /\ Len(s) <= ROOM
  BY DEF IsLine
<1>2. Front(s) \in Seq(INK) /\ Len(Front(s)) = Len(s) - 1
  BY <1>1, FrontShrinks, Zenon
<1>3. Len(s) \in Nat /\ ROOM \in Nat
  BY <1>1, LenProperties, ConsoleConstants DEF ConsoleConstants
<1>4. Len(s) - 1 <= ROOM
  BY <1>1, <1>3
<1> QED  BY <1>2, <1>4, Zenon DEF IsLine

\* ConsoleTypeOK in those terms: the part CDC_Receive_FS changes, and the rest.
LineTypes == IsLine(cdc_rx_line) /\ IsLine(cdc_cmd_line) /\ typed \in Seq(INK)
OtherTypes ==
  /\ configured \in BOOLEAN /\ class_data \in BOOLEAN
  /\ tx_buf \in TEXTS /\ in_flight \in SUBSET TEXTS
  /\ print_pc \in {"out", "copy", "transmit"} /\ print_text \in TEXTS
  /\ overlong \in BOOLEAN

\* ConsoleTypeOK is the two parts.
LEMMA TypeParts == ConsoleTypeOK <=> LineTypes /\ OtherTypes
  BY Zenon DEF ConsoleTypeOK, LineTypes, OtherTypes, IsLine, INK

\* The same of the next state.
LEMMA TypePartsNext == ConsoleTypeOK' <=> LineTypes' /\ OtherTypes'
  BY Zenon DEF ConsoleTypeOK, LineTypes, OtherTypes, IsLine, INK

-----------------------------------------------------------------------------
(* The command carried out is the one meant.                               *)

\* Every nonempty set of natural numbers has a least one.
LEMMA Least ==
  ASSUME NEW T \in SUBSET Nat, T # {}
  PROVE  \E x \in T : \A y \in T : x <= y
<1>1. PICK n \in T : TRUE
  OBVIOUS
<1> DEFINE S == 0 .. n
           R == StrictSubsetOrdering(S)
           F == {0 .. k : k \in T \cap S}
<1>2. IsWellFoundedOn(R, SUBSET S)
  <2>1. IsFiniteSet(S)
    BY FS_Interval
  <2> HIDE DEF S
  <2>2. FiniteSubsetsOf(S) = SUBSET S
    BY <2>1, FS_FiniteSubsetsOfFinite
  <2>3. IsWellFoundedOn(R, FiniteSubsetsOf(S))
    BY FS_StrictSubsetOrderingWellFounded
  <2> QED  BY <2>2, <2>3
<1>3. F \subseteq SUBSET S /\ F # {}
  OBVIOUS
<1>4. PICK s \in F : \A r \in F : ~ (<<r, s>> \in R)
  <2> HIDE DEF F, R, S
  <2> QED  BY <1>2, <1>3, WFMin
<1>5. PICK k \in T \cap S : s = 0 .. k
  BY <1>4
<1>6. ASSUME NEW j \in T, j < k
      PROVE  FALSE
  <2>1. j \in T \cap S
    BY <1>6
  <2>2. 0 .. j \in F /\ 0 .. j \in SUBSET S /\ s \in SUBSET S
    BY <2>1, <1>5
  <2>3. 0 .. j \subseteq s /\ 0 .. j # s
    BY <1>5, <1>6
  <2>4. <<0 .. j, s>> \in R
    BY <2>2, <2>3 DEF StrictSubsetOrdering
  <2> QED  BY <1>4, <2>2, <2>4
<1> QED  BY <1>5, <1>6

\* What FromInk skips is blank, and what it keeps begins with a letter.
LEMMA InkStart ==
  ASSUME NEW s \in Seq(INK), Ink(s) # {}
  PROVE  \E k \in 1 .. Len(s) :
           /\ k \in Ink(s) /\ (\A i \in Ink(s) : k <= i)
           /\ FromInk(s) = SubSeq(s, k, Len(s))
<1>1. Ink(s) \in SUBSET Nat /\ Ink(s) \subseteq 1 .. Len(s)
  <2> DEFINE n == Len(s)
  <2>1. DOMAIN s = 1 .. n /\ n \in Nat
    BY LenProperties, Zenon
  <2> HIDE DEF n
  <2>2. Ink(s) \subseteq 1 .. n
    BY <2>1 DEF Ink
  <2>3. 1 .. n \subseteq Nat
    BY <2>1
  <2> QED  BY <2>2, <2>3 DEF n
<1>2. PICK x \in Ink(s) : \A y \in Ink(s) : x <= y
  BY <1>1, Least
<1> DEFINE k == CHOOSE i \in Ink(s) : \A j \in Ink(s) : i <= j
<1>3. k \in Ink(s) /\ \A j \in Ink(s) : k <= j
  BY <1>2
<1>4. FromInk(s) = SubSeq(s, k, Len(s))
  BY DEF FromInk
<1> QED  BY <1>1, <1>3, <1>4

\* The part of a line from one place to another.
LEMMA Part ==
  ASSUME NEW s \in Seq(INK), NEW m \in 1 .. Len(s), NEW n \in 0 .. Len(s)
  PROVE  /\ SubSeq(s, m, n) \in Seq(INK)
         /\ Len(SubSeq(s, m, n)) = IF m <= n THEN n - m + 1 ELSE 0
         /\ \A i \in 1 .. n - m + 1 : SubSeq(s, m, n)[i] = s[m + i - 1]
<1>1. Len(s) \in Nat
  BY LenProperties
<1>2. m \in Int /\ n \in Int /\ m .. n \subseteq 1 .. Len(s)
  BY <1>1
<1>3. \A i \in m .. n : s[i] \in INK
  BY <1>2, ElementOfSeq
<1> QED  BY <1>2, <1>3, SubSeqProperties

\* The word, of letters only.
LEMMA Word == /\ BOOT \in Seq(INK) /\ Len(BOOT) \in Nat /\ 1 <= Len(BOOT)
              /\ \A i \in 1 .. Len(BOOT) : BOOT[i] # " "
<1>1. BOOT \in Seq(CHARS) /\ Len(BOOT) \in 1 .. ROOM /\ ROOM \in Nat /\ " " \notin CHARS
  BY ConsoleConstants DEF ConsoleConstants
<1>2. \A i \in 1 .. Len(BOOT) : BOOT[i] \in CHARS
  BY <1>1, ElementOfSeq
<1>3. BOOT \in Seq(INK)
  <2>1. CHARS \subseteq INK
    BY DEF INK
  <2> QED  BY <1>1, <2>1, SeqMonotonic, Zenon
<1>4. Len(BOOT) \in Nat /\ 1 <= Len(BOOT)
  <2> DEFINE b == Len(BOOT)
  <2>1. b \in 1 .. ROOM /\ ROOM \in Nat
    BY <1>1
  <2> HIDE DEF b
  <2>2. b \in Nat /\ 1 <= b
    BY <2>1
  <2> QED  BY <2>2 DEF b
<1> QED  BY <1>1, <1>2, <1>3, <1>4

\* A place of the line behind the word, counted from the word's first letter.
LEMMA PastTheWord ==
  \A n, b \in Nat, i, j \in Int :
    0 <= i /\ b = j - (i + 1) + 1 =>
      \A m \in b + 1 .. n - i : m \in 1 .. n - i /\ i + m \in 1 .. n /\ i + m \notin i + 1 .. j
  OBVIOUS

\* A line that holds the word and else only blanks is taken for 'boot'.
LEMMA WordIsFound ==
  ASSUME NEW s \in Seq(INK),
         NEW k \in 1 .. Len(s), k \in Ink(s), \A i \in Ink(s) : k <= i,
         NEW i \in 0 .. Len(s), NEW j \in 0 .. Len(s),
         SubSeq(s, i + 1, j) = BOOT, Ink(s) \subseteq i + 1 .. j
  PROVE  LET p == SubSeq(s, k, Len(s)) IN p[1] = BOOT[1] /\ Cmd_IsWord(p)
<1> DEFINE p == SubSeq(s, k, Len(s))
           n == Len(s)
           b == Len(BOOT)
<1>1. n \in Nat /\ b \in Nat /\ 1 <= b /\ k \in i + 1 .. j
  BY Word, LenProperties
<1>2. i + 1 \in 1 .. n
  BY <1>1
<1>3. b = j - (i + 1) + 1 /\ \A m \in 1 .. b : BOOT[m] = s[i + 1 + m - 1]
  <2>1. /\ Len(SubSeq(s, i + 1, j)) = IF i + 1 <= j THEN j - (i + 1) + 1 ELSE 0
        /\ \A m \in 1 .. j - (i + 1) + 1 : SubSeq(s, i + 1, j)[m] = s[i + 1 + m - 1]
    BY <1>2, Part
  <2>2. i + 1 <= j
    BY <1>1
  <2> HIDE DEF n
  <2> QED  BY <2>1, <2>2
<1>4. \A m \in 1 .. b : BOOT[m] = s[i + m]
  BY <1>1, <1>3
<1>5. i + 1 \in Ink(s)
  <2>1. s[i + 1] = BOOT[1] /\ BOOT[1] # " "
    <3>1. \A m \in 1 .. b : BOOT[m] # " "
      BY Word
    <3>2. b \in Nat /\ 1 <= b
      BY <1>1
    <3> HIDE DEF b
    <3>3. 1 \in 1 .. b
      BY <3>2
    <3> QED  BY <3>1, <3>3, <1>4
  <2>2. DOMAIN s = 1 .. n
    BY LenProperties
  <2> QED  BY <1>2, <2>1, <2>2 DEF Ink
<1>6. k = i + 1
  BY <1>1, <1>5
<1>7. /\ p \in Seq(INK) /\ Len(p) = n - i
      /\ \A m \in 1 .. n - i : p[m] = s[i + m]
  <2>1. /\ p \in Seq(INK)
        /\ Len(p) = IF k <= n THEN n - k + 1 ELSE 0
        /\ \A m \in 1 .. n - k + 1 : p[m] = s[k + m - 1]
    BY <1>1, Part
  <2> HIDE DEF p, n
  <2>2. n - k + 1 = n - i /\ k <= n /\ \A m \in Int : k + m - 1 = i + m
    BY <1>1, <1>2, <1>6
  <2>3. Len(p) = n - i /\ 1 .. n - k + 1 = 1 .. n - i
    BY <2>1, <2>2
  <2>4. \A m \in 1 .. n - i : p[m] = s[i + m]
    <3> TAKE m \in 1 .. n - i
    <3>1. m \in 1 .. n - k + 1 /\ k + m - 1 = i + m
      BY <2>2, <2>3
    <3>2. p[m] = s[k + m - 1]
      BY <2>1, <3>1
    <3> QED  BY <3>1, <3>2
  <2> QED  BY <2>1, <2>3, <2>4
<1> HIDE DEF p
<1>8. b <= n - i
  BY <1>1, <1>3
<1>9. p[1] = BOOT[1]
  <2>1. 1 \in 1 .. b /\ 1 \in 1 .. n - i
    BY <1>1, <1>8
  <2> QED  BY <1>4, <1>7, <2>1
<1>10. SubSeq(p, 1, b) = BOOT
  <2>1. 1 \in 1 .. Len(p) /\ b \in 0 .. Len(p)
    BY <1>1, <1>7, <1>8
  <2> DEFINE w == SubSeq(p, 1, b)
  <2>2. /\ w \in Seq(INK)
        /\ Len(w) = IF 1 <= b THEN b - 1 + 1 ELSE 0
        /\ \A m \in 1 .. b - 1 + 1 : w[m] = p[1 + m - 1]
    BY <1>7, <2>1, Part
  <2> HIDE DEF w
  <2>3. Len(w) = b /\ \A m \in 1 .. b : w[m] = p[m]
    <3>1. b \in Nat /\ 1 <= b
      BY <1>1
    <3> HIDE DEF b
    <3>2. b - 1 + 1 = b /\ \A m \in Int : 1 + m - 1 = m
      BY <3>1
    <3> QED  BY <2>2, <3>1, <3>2
  <2>4. \A m \in 1 .. b : w[m] = BOOT[m]
    <3>1. \A m \in 1 .. b : m \in 1 .. n - i
      BY <1>1, <1>8
    <3> QED  BY <1>4, <1>7, <2>3, <3>1
  <2>5. w = BOOT
    BY <2>2, <2>3, <2>4, Word, SeqEqual
  <2> QED  BY <2>5 DEF w
<1>11. \A m \in b + 1 .. Len(p) : p[m] = " "
  <2>1. SUFFICES ASSUME NEW m, m \in b + 1 .. n - i, p[m] # " "
                 PROVE  FALSE
    BY <1>7
  <2>2. m \in 1 .. n - i /\ i + m \in 1 .. n /\ i + m \notin i + 1 .. j
    <3>1. n \in Nat /\ b \in Nat /\ i \in Int /\ j \in Int /\ 0 <= i /\ b = j - (i + 1) + 1
      BY <1>1, <1>3
    <3>2. m \in b + 1 .. n - i
      BY <2>1, Zenon
    <3> HIDE DEF b, n
    <3> QED  BY <3>1, <3>2, PastTheWord
  <2>3. s[i + m] # " " /\ DOMAIN s = 1 .. n
    BY <1>7, <2>1, <2>2, LenProperties
  <2>4. i + m \in Ink(s)
    BY <2>2, <2>3 DEF Ink
  <2> QED  BY <2>2, <2>4, Zenon
<1>12. Len(p) >= b
  BY <1>7, <1>8
<1>13. Cmd_IsWord(p)
  BY <1>10, <1>11, <1>12 DEF Cmd_IsWord
<1> QED  BY <1>9, <1>13 DEF p

\* A line taken for 'boot' holds the word and else only blanks.
LEMMA WordIsThere ==
  ASSUME NEW s \in Seq(INK),
         NEW k \in 1 .. Len(s), k \in Ink(s), \A i \in Ink(s) : k <= i,
         Cmd_IsWord(SubSeq(s, k, Len(s)))
  PROVE  \E i, j \in 0 .. Len(s) :
           SubSeq(s, i + 1, j) = BOOT /\ Ink(s) \subseteq i + 1 .. j
<1> DEFINE p == SubSeq(s, k, Len(s))
           n == Len(s)
           b == Len(BOOT)
           i == k - 1
           j == k - 1 + b
<1>1. n \in Nat /\ b \in Nat /\ 1 <= b
  BY Word, LenProperties
<1>2. /\ p \in Seq(INK) /\ Len(p) = n - i
      /\ \A m \in 1 .. n - i : p[m] = s[i + m]
  <2>1. /\ p \in Seq(INK)
        /\ Len(p) = IF k <= n THEN n - k + 1 ELSE 0
        /\ \A m \in 1 .. n - k + 1 : p[m] = s[k + m - 1]
    BY <1>1, Part
  <2> HIDE DEF p, n
  <2>2. n - k + 1 = n - i /\ k <= n /\ \A m \in Int : k + m - 1 = i + m
    BY <1>1 DEF n
  <2> QED  BY <2>1, <2>2
<1>3. /\ Len(p) >= b /\ SubSeq(p, 1, b) = BOOT
      /\ \A m \in b + 1 .. Len(p) : p[m] = " "
  BY DEF Cmd_IsWord
<1> HIDE DEF p
<1>4. i \in 0 .. n /\ j \in 0 .. n /\ i + 1 = k /\ j - k + 1 = b /\ k <= j
  <2>1. n - i >= b /\ n \in Nat /\ b \in Nat /\ 1 <= b /\ k \in 1 .. n
    BY <1>1, <1>2, <1>3
  <2> HIDE DEF n, b
  <2> QED  BY <2>1
<1>5. \A m \in 1 .. b : BOOT[m] = s[k + m - 1]
  <2>1. 1 \in 1 .. Len(p) /\ b \in 0 .. Len(p)
    <3> DEFINE q == Len(p)
    <3>1. q = n - i /\ q >= b /\ n \in Nat /\ b \in Nat /\ 1 <= b /\ i \in 0 .. n
      BY <1>1, <1>2, <1>3, <1>4
    <3> HIDE DEF q, n, b, i
    <3>2. 1 \in 1 .. q /\ b \in 0 .. q
      BY <3>1
    <3> QED  BY <3>2 DEF q
  <2>2. \A m \in 1 .. b - 1 + 1 : SubSeq(p, 1, b)[m] = p[1 + m - 1]
    BY <1>2, <2>1, Part
  <2>3. \A m \in 1 .. b : m \in 1 .. b - 1 + 1 /\ 1 + m - 1 = m /\ m \in 1 .. n - i
                          /\ i + m = k + m - 1
    <3>1. /\ n \in Nat /\ b \in Nat /\ 1 <= b /\ i + 1 = k /\ i \in 0 .. n
          /\ j \in 0 .. n /\ j - k + 1 = b
      BY <1>1, <1>4
    <3> HIDE DEF n, b, i, j
    <3> QED  BY <3>1
  <2> HIDE DEF i
  <2> QED  BY <1>2, <1>3, <2>2, <2>3
<1>6. SubSeq(s, i + 1, j) = BOOT
  <2> DEFINE w == SubSeq(s, k, j)
  <2>1. /\ w \in Seq(INK)
        /\ Len(w) = IF k <= j THEN j - k + 1 ELSE 0
        /\ \A m \in 1 .. j - k + 1 : w[m] = s[k + m - 1]
    BY <1>4, Part
  <2> HIDE DEF w, j
  <2>2. Len(w) = b /\ \A m \in 1 .. b : w[m] = BOOT[m]
    BY <1>4, <1>5, <2>1
  <2>3. w = BOOT
    BY <2>1, <2>2, Word, SeqEqual
  <2> QED  BY <1>4, <2>3 DEF w
<1>7. Ink(s) \subseteq i + 1 .. j
  <2>1. SUFFICES ASSUME NEW x, x \in Ink(s), x \notin k .. j
                 PROVE  FALSE
    BY <1>4
  <2> DEFINE m == x - i
  <2>2. x \in 1 .. n /\ s[x] # " " /\ k <= x
    BY <2>1, LenProperties DEF Ink
  <2>3. m \in b + 1 .. n - i /\ m \in 1 .. n - i /\ i + m = x
    <3>1. /\ n \in Nat /\ b \in Nat /\ 1 <= b /\ i \in Int /\ j \in Int
          /\ i + 1 = k /\ j - k + 1 = b
      BY <1>1, <1>4
    <3>2. x \in 1 .. n /\ k <= x /\ x \notin k .. j
      BY <2>1, <2>2, Zenon
    <3> HIDE DEF n, b, i, j
    <3> QED  BY <3>1, <3>2
  <2> HIDE DEF m, i
  <2> QED  BY <1>2, <1>3, <2>2, <2>3
<1> QED  BY <1>4, <1>6, <1>7

\* Whatever a line holds, SDLog_ProcessCommand does what the line says.
LEMMA MeaningIsCommand ==
  ASSUME NEW s \in Seq(INK)
  PROVE  Meaning(s) = CommandOf(s)
<1>1. CASE Ink(s) = {}
  BY <1>1 DEF Meaning, CommandOf
<1>2. CASE Ink(s) # {}
  <2>1. PICK k \in 1 .. Len(s) :
          /\ k \in Ink(s) /\ (\A i \in Ink(s) : k <= i)
          /\ FromInk(s) = SubSeq(s, k, Len(s))
    BY <1>2, InkStart
  <2> DEFINE p == SubSeq(s, k, Len(s))
             Held == \E i, j \in 0 .. Len(s) :
                       SubSeq(s, i + 1, j) = BOOT /\ Ink(s) \subseteq i + 1 .. j
  <2>2. Held => p[1] = BOOT[1] /\ Cmd_IsWord(p)
    BY <2>1, WordIsFound
  <2>3. Cmd_IsWord(p) => Held
    BY <2>1, WordIsThere
  <2>4. Meaning(s) = IF Held THEN "boot" ELSE IF p[1] = BOOT[1] THEN "hint" ELSE p[1]
    <3>1. FromInk(s) = p
      BY <2>1
    <3> HIDE DEF p
    <3>2. Meaning(s) = IF Held THEN "boot"
                       ELSE IF FromInk(s)[1] = BOOT[1] THEN "hint" ELSE FromInk(s)[1]
      BY <1>2, Zenon DEF Meaning
    <3> QED  BY <3>1, <3>2, Zenon
  <2>5. CommandOf(s) = IF p[1] # BOOT[1] THEN p[1]
                       ELSE IF Cmd_IsWord(p) THEN "boot" ELSE "hint"
    BY <1>2, <2>1 DEF CommandOf
  <2> HIDE DEF p, Held
  <2> QED  BY <2>2, <2>3, <2>4, <2>5
<1> QED  BY <1>1, <1>2

-----------------------------------------------------------------------------
(* The steps of the console.                                               *)

\* The line being received never holds more than it has room for, and its
\* characters are the user's (CDC_Receive_FS).
LEMMA ReceivingStep ==
  ASSUME ConsoleIInv, Type \/ Rub \/ Enter
  PROVE  ConsoleIInv'
<1>1. LineTypes /\ OtherTypes
  BY TypeParts DEF ConsoleIInv
<1>2. LineTypes'
  <2>1. CASE Type
    <3>1. PICK ch \in INK : cdc_rx_line' = WithChar(ch) /\ typed' = Append(typed, ch)
      BY <2>1 DEF Type, INK
    <3>2. IsLine(cdc_rx_line')
      BY <1>1, <3>1, EmptyLine, LongerLine, Zenon DEF WithChar, LineTypes
    <3>3. typed' \in Seq(INK)
      BY <1>1, <3>1, AppendProperties, Zenon DEF LineTypes
    <3>4. cdc_cmd_line' = cdc_cmd_line
      BY <2>1 DEF Type, command
    <3> QED  BY <1>1, <3>2, <3>3, <3>4, Zenon DEF LineTypes
  <2>2. CASE Rub
    <3>1. IsLine(cdc_rx_line')
      BY <1>1, <2>2, EmptyLine, ShorterLine, Zenon DEF Rub, LineTypes
    <3>2. typed' \in Seq(INK)
      BY <1>1, <2>2, EmptySeq, FrontShrinks, Zenon DEF Rub, LineTypes
    <3>3. cdc_cmd_line' = cdc_cmd_line
      BY <2>2 DEF Rub, command
    <3> QED  BY <1>1, <3>1, <3>2, <3>3, Zenon DEF LineTypes
  <2>3. CASE Enter
    <3>1. cdc_rx_line' = << >> /\ typed' = << >>
      BY <2>3 DEF Enter
    <3>2. cdc_cmd_line' = cdc_rx_line \/ cdc_cmd_line' = cdc_cmd_line
      BY <2>3 DEF Enter, command
    <3>3. << >> \in Seq(INK)
      BY EmptySeq, Zenon
    <3> QED  BY <1>1, <3>1, <3>2, <3>3, EmptyLine, Zenon DEF LineTypes
  <2> QED  BY <2>1, <2>2, <2>3
<1>3. /\ UNCHANGED <<configured, class_data, print_pc, print_text, tx_buf, in_flight>>
      /\ overlong' \in BOOLEAN
  BY <1>1 DEF Type, Rub, Enter, device, printing, sending, OtherTypes
<1> QED  BY <1>1, <1>2, <1>3, TypePartsNext
         DEF ConsoleIInv, OtherTypes, NothingElseSends, BufferIsText, LineInFlightIsKept

\* The device library only ends transfers, and frees the class data only with
\* them (Configure, Unconfigure, Suspend, Resume, TransmitCplt).
LEMMA DeviceStep ==
  ASSUME ConsoleIInv, Configure \/ Unconfigure \/ Suspend \/ Resume \/ TransmitCplt
  PROVE  ConsoleIInv'
<1>1. LineTypes /\ OtherTypes
  BY TypeParts DEF ConsoleIInv
<1>2. UNCHANGED <<cdc_rx_line, cdc_cmd_line, typed, overlong, print_pc, print_text, tx_buf>>
  BY DEF Configure, Unconfigure, Suspend, Resume, TransmitCplt, receiving, command,
         printing, sending
<1>3. LineTypes'
  BY <1>1, <1>2 DEF LineTypes
<1>4. /\ in_flight' \in {in_flight, {}}
      /\ configured' \in BOOLEAN /\ class_data' \in BOOLEAN
      /\ in_flight' # {} => class_data' = class_data
  BY <1>1 DEF Configure, Unconfigure, Suspend, Resume, TransmitCplt, device, sending,
              OtherTypes
<1> QED  BY <1>1, <1>2, <1>3, <1>4, TypePartsNext
         DEF ConsoleIInv, OtherTypes, NothingElseSends, BufferIsText, LineInFlightIsKept

\* The main loop copies only while nothing is in flight, and sends what it
\* copied (CDC_ReadCommand, USB_CDC_Print, CDC_Transmit_FS).
LEMMA MainLoopStep ==
  ASSUME ConsoleIInv, MainLoop
  PROVE  ConsoleIInv'
<1>1. LineTypes /\ OtherTypes
  BY TypeParts DEF ConsoleIInv
<1>2. /\ cdc_rx_line' = cdc_rx_line /\ typed' = typed
      /\ cdc_cmd_line' = cdc_cmd_line \/ cdc_cmd_line' = << >>
  BY DEF MainLoop, ProcessCommand, CallPrint, Copy, CDC_Transmit_FS, receiving, command
<1>3. LineTypes'
  BY <1>1, <1>2, EmptyLine, Zenon DEF LineTypes
<1>4. UNCHANGED <<configured, class_data, overlong>>
  BY DEF MainLoop, ProcessCommand, CallPrint, Copy, CDC_Transmit_FS, receiving, device
<1> USE DEF OtherTypes, NothingElseSends, BufferIsText, LineInFlightIsKept
<1>5. CASE ProcessCommand
  BY <1>1, <1>3, <1>4, <1>5, TypePartsNext DEF ProcessCommand, printing, sending, ConsoleIInv
<1>6. CASE CallPrint
  BY <1>1, <1>3, <1>4, <1>6, TypePartsNext DEF CallPrint, MayPrint, sending, ConsoleIInv
<1>7. CASE Copy
  BY <1>1, <1>3, <1>4, <1>7, TypePartsNext DEF Copy, ConsoleIInv
<1>8. CASE CDC_Transmit_FS
  BY <1>1, <1>3, <1>4, <1>8, TypePartsNext DEF CDC_Transmit_FS, ConsoleIInv
<1> QED  BY <1>5, <1>6, <1>7, <1>8 DEF MainLoop

\* After power-up nothing is received, printed or in flight.
LEMMA ConsoleInitIInv == ConsoleInit => ConsoleIInv
<1> SUFFICES ASSUME ConsoleInit PROVE ConsoleIInv
  OBVIOUS
<1>1. AnyText \in TEXTS
  BY ConsoleConstants DEF AnyText, ConsoleConstants
<1>2. << >> \in Seq(INK)
  BY EmptySeq, Zenon
<1>3. LineTypes
  BY <1>2, EmptyLine, Zenon DEF ConsoleInit, LineTypes
<1> QED  BY <1>1, <1>3, TypeParts
         DEF ConsoleInit, OtherTypes, ConsoleIInv, NothingElseSends, BufferIsText, LineInFlightIsKept

\* The strengthened invariant holds in every reachable state.
THEOREM ConsoleInvariant == ConsoleSpec => []ConsoleIInv
<1>1. ConsoleIInv /\ [ConsoleNext]_consoleVars => ConsoleIInv'
  <2> SUFFICES ASSUME ConsoleIInv, [ConsoleNext]_consoleVars PROVE ConsoleIInv'
    OBVIOUS
  <2>1. CASE ConsoleNext
    BY <2>1, ReceivingStep, DeviceStep, MainLoopStep DEF ConsoleNext, Interrupt
  <2>2. CASE UNCHANGED consoleVars
    BY <2>2 DEF ConsoleIInv, ConsoleTypeOK, NothingElseSends, BufferIsText, LineInFlightIsKept, consoleVars,
               receiving, command, printing, sending, device
  <2> QED  BY <2>1, <2>2
<1> QED  BY <1>1, ConsoleInitIInv, PTL DEF ConsoleSpec

\* While the host fetches a line its buffer still holds that line, and no line
\* of a device without class data is in flight (USB_CDC_Print), for every
\* interleaving with resets, suspends and the host's reading.
THEOREM ConsoleCorrect == ConsoleSpec => []ConsoleInv
<1>1. ConsoleIInv => ConsoleInv
  BY DEF ConsoleIInv, ConsoleInv
<1> QED  BY <1>1, ConsoleInvariant, PTL

-----------------------------------------------------------------------------
(* The command carried out is the one meant, continued: what relates the    *)
(* line in the buffer to the line the user sees.                            *)

\* A line that was never too long is held as it is seen, and the command that
\* waits is the one meant.
MeantInv ==
  /\ ~overlong => cdc_rx_line = typed
  /\ meant \in {"any", CommandOf(cdc_cmd_line)}

\* A character is appended to both lines while there is room for it.
LEMMA TypedAlike ==
  ASSUME ConsoleIInv, MeantInv, Type, ~overlong'
  PROVE  cdc_rx_line' = typed'
<1>1. typed \in Seq(INK)
  BY TypeParts DEF ConsoleIInv, LineTypes
<1>2. PICK ch \in INK : cdc_rx_line' = WithChar(ch) /\ typed' = Append(typed, ch)
  BY DEF Type, INK
<1>3. ~overlong /\ ~(Len(typed') > ROOM)
  BY DEF Type
<1>4. cdc_rx_line = typed
  BY <1>3 DEF MeantInv
<1>5. Len(Append(typed, ch)) = Len(typed) + 1 /\ Len(typed) \in Nat /\ ROOM \in Nat
  BY <1>1, AppendProperties, LenProperties, ConsoleConstants DEF ConsoleConstants
<1>6. Len(typed) < ROOM
  BY <1>2, <1>3, <1>5
<1> QED  BY <1>2, <1>4, <1>6, Zenon DEF WithChar

\* Every step keeps the two lines alike and the command the one meant.
LEMMA MeantStep ==
  ASSUME ConsoleIInv, MeantInv, [ConsoleNext]_consoleVars
  PROVE  MeantInv'
<1>1. CASE Type
  <2>1. cdc_cmd_line' = cdc_cmd_line /\ meant' = meant
    BY <1>1 DEF Type, command
  <2> QED  BY <1>1, <2>1, TypedAlike DEF MeantInv
<1>2. CASE Rub
  <2>1. cdc_cmd_line' = cdc_cmd_line /\ meant' = meant /\ overlong' = overlong
    BY <1>2 DEF Rub, command
  <2>2. cdc_rx_line = typed => cdc_rx_line' = typed'
    BY <1>2 DEF Rub
  <2> QED  BY <2>1, <2>2 DEF MeantInv
<1>3. CASE Enter
  <2>1. cdc_rx_line' = typed'
    BY <1>3 DEF Enter
  <2>2. CASE Accepts
    <3>1. cdc_cmd_line' = cdc_rx_line /\ meant' = IF overlong THEN "any" ELSE Meaning(typed)
      BY <1>3, <2>2 DEF Enter
    <3>2. typed \in Seq(INK)
      BY TypeParts DEF ConsoleIInv, LineTypes
    <3>3. Meaning(typed) = CommandOf(typed)
      BY <3>2, MeaningIsCommand, Zenon
    <3>4. meant' \in {"any", CommandOf(cdc_cmd_line')}
      BY <3>1, <3>3, Zenon DEF MeantInv
    <3> QED  BY <2>1, <3>4, Zenon DEF MeantInv, CommandOf, Ink, FromInk, Cmd_IsWord
  <2>3. CASE ~Accepts
    <3>1. cdc_cmd_line' = cdc_cmd_line /\ meant' = meant
      BY <1>3, <2>3 DEF Enter, command
    <3> QED  BY <2>1, <3>1 DEF MeantInv
  <2> QED  BY <2>2, <2>3
<1>4. CASE Configure \/ Unconfigure \/ Suspend \/ Resume \/ TransmitCplt
           \/ CallPrint \/ Copy \/ CDC_Transmit_FS \/ UNCHANGED consoleVars
  <2>1. UNCHANGED <<cdc_rx_line, typed, overlong, cdc_cmd_line, meant>>
    BY <1>4 DEF Configure, Unconfigure, Suspend, Resume, TransmitCplt, CallPrint, Copy,
                CDC_Transmit_FS, consoleVars, receiving, command
  <2> QED  BY <2>1 DEF MeantInv
<1>5. CASE ProcessCommand
  <2>1. UNCHANGED <<cdc_rx_line, typed, overlong>> /\ meant' = "any"
    BY <1>5 DEF ProcessCommand, receiving
  <2> QED  BY <2>1 DEF MeantInv
<1> QED  BY <1>1, <1>2, <1>3, <1>4, <1>5 DEF ConsoleNext, Interrupt, MainLoop

\* Whatever is typed, deleted, reconnected or left waiting, and however long the
\* word and the line, CDC_ReadCommand carries out what the line the user sees
\* says: only a line that was at some moment too long may be taken for another.
THEOREM CommandCarriedOut == ConsoleSpec => CommandIsMeant
<1>1. ConsoleInit => MeantInv
  BY DEF ConsoleInit, MeantInv
<1>2. ConsoleIInv /\ MeantInv /\ [ConsoleNext]_consoleVars => MeantInv'
  BY MeantStep
<1>3. MeantInv => [ProcessCommand => meant \in {"any", CommandOf(cdc_cmd_line)}]_consoleVars
  BY DEF MeantInv
<1> QED  BY <1>1, <1>2, <1>3, ConsoleInvariant, PTL DEF ConsoleSpec, CommandIsMeant

-----------------------------------------------------------------------------
(* The card driver.                                                        *)

\* What each sector holds once the card has stored the block it is busy with.
Will == [s \in Sectors |->
           IF storing # Nothing /\ storing[1] = s THEN storing[2] ELSE blocks[s]]

\* Between a command for a transfer and its return.
InTransfer == pc \in {"command", "data", "stop", "end"}

\* What is promised is in the card or on its way there, and of a card that is
\* out nothing is.
Kept ==
  /\ \A s \in Sectors : promised[s] # 0 => Will[s] = promised[s]
  /\ card = "absent" => ~same /\ \A s \in Sectors : promised[s] = 0

\* A card in service is addressed as it wants to be: a new one is served only
\* after an initialisation, which forgets the kind of the one before.
KindIsKnown ==
  /\ sd_status = "ready" /\ card \in {"ready", "sending", "receiving"} => sd_card_type = CardType
  /\ pc \in {"delay", "CMD0", "ACMD41", "CMD58"} =>
       sd_status = "STA_NOINIT" /\ op = "initialize"

\* The run of sectors of a call is on the card, and `todo' counts it down.
RunOfSectors ==
  InTransfer =>
    /\ op \in {"read", "write"} /\ sd_status = "ready"
    /\ count >= 1 /\ todo <= count /\ sector + count <= SECTORS
    /\ pc = "command" => todo = count
    /\ pc = "data" => todo >= 1

\* The card is at the sector the driver believes, in the direction it believes,
\* and was not busy when it began to send.
InStep ==
  pc = "data" =>
    /\ card \in {"sending", "receiving"} => card_at = sector + count - todo
    /\ card = "sending" => op = "read"
    /\ card = "receiving" => op = "write"
    /\ op = "read" => CardReady

\* A write overwrites only what is not promised, and what it has counted is in
\* the card or on its way there.
WrittenSoFar ==
  InTransfer /\ op = "write" =>
    /\ writes >= 1
    /\ \A t \in Run(sector, count) : promised[t] = 0
    /\ same /\ (pc = "end" => todo = 0) =>
         \A t \in Run(sector, count - todo) : Will[t] = writes

\* What a read has counted is what was promised of it.
ReadSoFar ==
  op = "read" /\ (InTransfer \/ (pc = "out" /\ result = "RES_OK")) =>
    /\ sector + count <= SECTORS /\ (pc = "out" => todo = 0)
    /\ Len(buff) = count - todo
    /\ \A i \in 1 .. count - todo :
         promised[sector + i - 1] # 0 => buff[i] = promised[sector + i - 1]

\* A CTRL_SYNC that returned RES_OK left nothing to be stored.
SyncedInv ==
  /\ pc = "sync" => op = "sync"
  /\ pc = "out" /\ op = "sync" /\ result = "RES_OK" => CardReady

DriverIInv ==
  /\ TypeOK /\ Kept /\ KindIsKnown /\ RunOfSectors /\ InStep
  /\ WrittenSoFar /\ ReadSoFar /\ SyncedInv

-----------------------------------------------------------------------------
(* The steps of the driver that store nothing.                             *)

\* What the sectors will hold depends on the card only.
LEMMA WillStays == UNCHANGED <<storing, blocks>> => Will' = Will
  BY DEF Will

\* An initialisation takes any card out of service, and ends with one whose kind
\* is known or with none (disk_initialize, SD_SPI_Reset, SD_SPI_initialize).
LEMMA InitialisingStep ==
  ASSUME DriverIInv, disk_initialize \/ Delayed \/ CMD0 \/ ACMD41 \/ CMD58 \/ InitFails
  PROVE  DriverIInv'
<1> USE DEF disk_initialize, Delayed, CMD0, ACMD41, CMD58, InitFails, Goes, Calls,
            driver, call, card_vars, history, Returns, CardType
<1>1. TypeOK'
  <2>1. UNCHANGED <<sector, count, todo, buff, by_block, blocks, storing, card_at, writes,
                    promised, removals, same>>
    OBVIOUS
  <2>2. /\ caller' \in {"loop", "usb"}
        /\ op' \in {"none", "initialize", "read", "write", "sync"}
        /\ sd_status' \in {"STA_NOINIT", "ready"} /\ sd_card_type' \in {"none", "byte", "block"}
        /\ result' \in {"RES_OK", "RES_ERROR", "RES_NOTRDY"}
        /\ card' \in {"absent", "native", "idle", "ready", "sending", "receiving"}
    <3>1. /\ caller \in {"loop", "usb"} /\ CALLERS \subseteq {"loop", "usb"}
          /\ op \in {"none", "initialize", "read", "write", "sync"}
          /\ sd_status \in {"STA_NOINIT", "ready"} /\ sd_card_type \in {"none", "byte", "block"}
          /\ result \in {"RES_OK", "RES_ERROR", "RES_NOTRDY"}
          /\ card \in {"absent", "native", "idle", "ready", "sending", "receiving"}
      BY DriverConstants DEF DriverIInv, TypeOK, DriverConstants
    <3> QED  BY <3>1
  <2>3. /\ pc' \in {"out", "delay", "CMD0", "ACMD41", "CMD58", "command", "data", "stop", "end", "sync"}
        /\ elapsed' \in 0 .. TIMEOUT
    BY DriverConstants DEF DriverIInv, TypeOK, DriverConstants
  <2> QED  BY <2>1, <2>2, <2>3 DEF DriverIInv, TypeOK
<1>2. Will' = Will
  BY WillStays
<1>3. Kept'
  BY <1>2 DEF DriverIInv, Kept
<1>4. KindIsKnown'
  BY DEF DriverIInv, TypeOK, KindIsKnown, CardType, RunOfSectors, InTransfer
<1>5. RunOfSectors'
  BY DriverConstants DEF DriverIInv, TypeOK, RunOfSectors, InTransfer, DriverConstants
<1>6. InStep'
  BY DEF DriverIInv, InStep, CardReady
<1>7. WrittenSoFar'
  BY <1>2 DEF DriverIInv, WrittenSoFar, InTransfer
<1>8. ReadSoFar'
  BY DEF DriverIInv, ReadSoFar, InTransfer, KindIsKnown, SyncedInv
<1>9. SyncedInv'
  BY DEF DriverIInv, SyncedInv, CardReady, KindIsKnown
<1> QED  BY <1>1, <1>3, <1>4, <1>5, <1>6, <1>7, <1>8, <1>9 DEF DriverIInv

\* A call on a card that is not initialised, a CTRL_SYNC and the passing of time
\* change nothing but the result.
LEMMA WaitingStep ==
  ASSUME DriverIInv, NotReady \/ Sync \/ SysTick_Handler \/ Synced
  PROVE  DriverIInv'
<1> USE DEF NotReady, Sync, SysTick_Handler, Synced, Goes, Calls,
            driver, call, card_vars, history, Returns, SyncWaits
<1>1. TypeOK'
  <2>1. UNCHANGED <<sector, count, todo, buff, by_block, blocks, storing, card_at, writes,
                    promised, removals, same>>
    OBVIOUS
  <2>2. /\ caller' \in {"loop", "usb"}
        /\ op' \in {"none", "initialize", "read", "write", "sync"}
        /\ sd_status' \in {"STA_NOINIT", "ready"} /\ sd_card_type' \in {"none", "byte", "block"}
        /\ result' \in {"RES_OK", "RES_ERROR", "RES_NOTRDY"}
        /\ card' \in {"absent", "native", "idle", "ready", "sending", "receiving"}
    <3>1. /\ caller \in {"loop", "usb"} /\ CALLERS \subseteq {"loop", "usb"}
          /\ op \in {"none", "initialize", "read", "write", "sync"}
          /\ sd_status \in {"STA_NOINIT", "ready"} /\ sd_card_type \in {"none", "byte", "block"}
          /\ result \in {"RES_OK", "RES_ERROR", "RES_NOTRDY"}
          /\ card \in {"absent", "native", "idle", "ready", "sending", "receiving"}
      BY DriverConstants DEF DriverIInv, TypeOK, DriverConstants
    <3> QED  BY <3>1
  <2>3. /\ pc' \in {"out", "delay", "CMD0", "ACMD41", "CMD58", "command", "data", "stop", "end", "sync"}
        /\ elapsed' \in 0 .. TIMEOUT
    BY SMTT(20), DriverConstants DEF DriverIInv, TypeOK, DriverConstants
  <2> QED  BY <2>1, <2>2, <2>3 DEF DriverIInv, TypeOK
<1>2. Will' = Will
  BY WillStays
<1>3. Kept'
  BY <1>2 DEF DriverIInv, Kept
<1>4. KindIsKnown'
  BY DEF DriverIInv, TypeOK, KindIsKnown, CardType, RunOfSectors, InTransfer
<1>5. RunOfSectors'
  BY DriverConstants DEF DriverIInv, TypeOK, RunOfSectors, InTransfer, DriverConstants
<1>6. InStep'
  BY DEF DriverIInv, InStep, CardReady
<1>7. WrittenSoFar'
  BY <1>2 DEF DriverIInv, WrittenSoFar, InTransfer
<1>8. ReadSoFar'
  BY DEF DriverIInv, ReadSoFar, InTransfer, KindIsKnown, SyncedInv
<1>9. SyncedInv'
  BY DEF DriverIInv, SyncedInv, CardReady, KindIsKnown
<1> QED  BY <1>1, <1>3, <1>4, <1>5, <1>6, <1>7, <1>8, <1>9 DEF DriverIInv

\* What fails or is stopped leaves `todo' above what was transferred, or counts a
\* write as failed (SD_SPI_read, SD_SPI_write).
LEMMA FailingStep ==
  ASSUME DriverIInv, Refused \/ BlockFails \/ StopsTransfer \/ StopFails
  PROVE  DriverIInv'
<1> USE DEF Refused, BlockFails, StopsTransfer, StopFails, Goes, Calls,
            driver, call, card_vars, history, Released, Stopped
<1>1. TypeOK'
  BY SMTT(20), DriverConstants DEF DriverIInv, TypeOK, RunOfSectors, InTransfer, DriverConstants
<1>2. Will' = Will
  BY WillStays
<1>3. Kept'
  BY <1>2 DEF DriverIInv, Kept
<1>4. KindIsKnown'
  BY DEF DriverIInv, TypeOK, KindIsKnown, CardType, RunOfSectors, InTransfer
<1>5. RunOfSectors'
  BY DriverConstants DEF DriverIInv, TypeOK, RunOfSectors, InTransfer, DriverConstants
<1>6. InStep'
  BY DEF DriverIInv, InStep, CardReady
<1>7. WrittenSoFar'
  BY <1>2 DEF DriverIInv, WrittenSoFar, InTransfer
<1>8. ReadSoFar'
  BY DEF DriverIInv, ReadSoFar, InTransfer, KindIsKnown, SyncedInv
<1>9. SyncedInv'
  BY DEF DriverIInv, SyncedInv, CardReady, KindIsKnown
<1> QED  BY <1>1, <1>3, <1>4, <1>5, <1>6, <1>7, <1>8, <1>9 DEF DriverIInv

-----------------------------------------------------------------------------
(* The calls that transfer, and the card.                                  *)

\* A read begins: nothing is counted yet (SD_SPI_read).
LEMMA ReadBegins ==
  ASSUME DriverIInv, SD_SPI_read
  PROVE  DriverIInv'
<1> USE DEF SD_SPI_read, Transfers, Goes, Calls, driver, call, card_vars, history
<1>1. TypeOK'
  BY DriverConstants, EmptySeq DEF DriverIInv, TypeOK, DriverConstants, Sectors
<1>2. Will' = Will
  BY WillStays
<1>3. Kept'
  BY <1>2 DEF DriverIInv, Kept
<1>4. KindIsKnown'
  BY DEF DriverIInv, KindIsKnown, CardType
<1>5. RunOfSectors'
  BY DriverConstants DEF DriverIInv, TypeOK, RunOfSectors, InTransfer, DriverConstants
<1>6. InStep' /\ WrittenSoFar' /\ SyncedInv'
  BY DEF InStep, WrittenSoFar, SyncedInv
<1>7. ReadSoFar'
  <2>1. count' = todo' /\ count' \in Nat /\ Len(buff') = 0 /\ pc' = "command"
    BY EmptySeq DEF DriverIInv, TypeOK
  <2>2. sector' + count' <= SECTORS
    OBVIOUS
  <2> QED  BY <2>1, <2>2 DEF ReadSoFar
<1> QED  BY <1>1, <1>3, <1>4, <1>5, <1>6, <1>7 DEF DriverIInv

\* A write begins: what it may overwrite is no longer promised (SD_SPI_write).
LEMMA WriteBegins ==
  ASSUME DriverIInv, SD_SPI_write
  PROVE  DriverIInv'
<1> USE DEF SD_SPI_write, Transfers, Goes, Calls, driver, call, card_vars, history
<1>1. TypeOK'
  <2>1. promised' \in [Sectors -> 0 .. MaxWrites]
    BY DriverConstants DEF DriverIInv, TypeOK, DriverConstants
  <2>2. writes' \in 0 .. MaxWrites
    BY DriverConstants DEF DriverIInv, TypeOK, DriverConstants
  <2> QED  BY <2>1, <2>2, DriverConstants, EmptySeq DEF DriverIInv, TypeOK, DriverConstants, Sectors
<1>2. Will' = Will
  BY WillStays
<1>3. \A s \in Sectors : promised'[s] # 0 => promised'[s] = promised[s]
  BY DEF Sectors
<1>4. Kept'
  <2>1. \A s \in Sectors : promised'[s] # 0 => Will'[s] = promised'[s]
    BY <1>2, <1>3 DEF DriverIInv, Kept
  <2>2. card' = "absent" => ~same' /\ \A s \in Sectors : promised'[s] = 0
    BY <1>3 DEF DriverIInv, Kept
  <2> QED  BY <2>1, <2>2 DEF Kept
<1>5. KindIsKnown'
  BY DEF DriverIInv, KindIsKnown, CardType
<1>6. RunOfSectors'
  BY DriverConstants DEF DriverIInv, TypeOK, RunOfSectors, InTransfer, DriverConstants
<1>7. InStep' /\ ReadSoFar' /\ SyncedInv'
  BY DEF InStep, ReadSoFar, SyncedInv
<1>8. WrittenSoFar'
  <2>1. writes' >= 1 /\ todo' = count' /\ count' \in Nat /\ sector' \in Nat
    BY DriverConstants DEF DriverIInv, TypeOK, DriverConstants, Sectors
  <2>2. Run(sector', count') \subseteq Sectors
    <3>1. sector' + count' <= SECTORS /\ SECTORS \in Nat
      BY DriverConstants DEF DriverConstants
    <3> QED  BY <2>1, <3>1 DEF Run, Sectors
  <2>3. \A t \in Run(sector', count') : promised'[t] = 0
    BY <2>2
  <2>4. Run(sector', count' - todo') = {}
    BY <2>1 DEF Run
  <2> QED  BY <2>1, <2>3, <2>4 DEF WrittenSoFar
<1> QED  BY <1>1, <1>4, <1>5, <1>6, <1>7, <1>8 DEF DriverIInv

\* A sector's address by bytes divides into the sector.
LEMMA ByteAddress ==
  \A s \in Nat, b \in Nat \ {0} : (s * b) % b = 0 /\ (s * b) \div b = s
  OBVIOUS

\* The card takes the address of the command for the sector the call meant.
LEMMA AddressIsSector ==
  ASSUME TypeOK, KindIsKnown, sd_status = "ready", card = "ready"
  PROVE  Addressed(Address) = sector
<1>1. sd_card_type = CardType /\ by_block \in BOOLEAN /\ sector \in Nat
  BY DriverConstants DEF KindIsKnown, TypeOK, Sectors, DriverConstants
<1>2. SD_BLOCK_SIZE \in Nat \ {0}
  BY DriverConstants DEF DriverConstants
<1>3. CASE by_block
  BY <1>1, <1>3 DEF CardType, Address, Addressed
<1>4. CASE ~by_block
  <2>1. Address = sector * SD_BLOCK_SIZE
    BY <1>1, <1>4 DEF CardType, Address
  <2>2. Addressed(Address) = IF Address % SD_BLOCK_SIZE = 0 THEN Address \div SD_BLOCK_SIZE ELSE SECTORS
    BY <1>4 DEF Addressed
  <2>3. Address % SD_BLOCK_SIZE = 0 /\ Address \div SD_BLOCK_SIZE = sector
    BY <1>1, <1>2, <2>1, ByteAddress
  <2> QED  BY <2>2, <2>3
<1> QED  BY <1>1, <1>3, <1>4

\* A transfer starts at the sector of the call (SD_SendCmd).
LEMMA AcceptedStep ==
  ASSUME DriverIInv, Accepted
  PROVE  DriverIInv'
<1>1. card_at' = sector /\ sector \in Sectors
  <2>1. sd_status = "ready"
    BY DEF Accepted, DriverIInv, RunOfSectors, InTransfer
  <2> QED  BY <2>1, AddressIsSector DEF Accepted, DriverIInv, TypeOK
<1> USE DEF Accepted, Goes, driver, call, card_vars, history
<1>2. TypeOK'
  <2>1. card_at' \in 0 .. SECTORS
    BY <1>1, DriverConstants DEF DriverConstants, Sectors
  <2> QED  BY <2>1, DriverConstants DEF DriverIInv, TypeOK, DriverConstants
<1>3. Will' = Will
  BY WillStays
<1>4. Kept'
  BY <1>3 DEF DriverIInv, Kept
<1>5. KindIsKnown'
  BY DEF DriverIInv, KindIsKnown, CardType
<1>6. RunOfSectors'
  BY DriverConstants DEF DriverIInv, TypeOK, RunOfSectors, InTransfer, DriverConstants
<1>7. InStep'
  <2>1. todo = count /\ op \in {"read", "write"}
    BY DEF DriverIInv, RunOfSectors, InTransfer
  <2>2. sector + count - todo = sector
    BY <1>1, <2>1, DriverConstants DEF Sectors, DriverConstants, DriverIInv, TypeOK
  <2>3. CardReady'
    BY DEF CommandWaits, CardReady
  <2> QED  BY <1>1, <2>1, <2>2, <2>3 DEF InStep
<1>8. WrittenSoFar'
  BY <1>3 DEF DriverIInv, WrittenSoFar, InTransfer
<1>9. ReadSoFar'
  BY DEF DriverIInv, ReadSoFar, InTransfer
<1>10. SyncedInv'
  BY DEF SyncedInv
<1> QED  BY <1>2, <1>4, <1>5, <1>6, <1>7, <1>8, <1>9, <1>10 DEF DriverIInv

\* A block is read where the call counts it: what it holds is what was promised
\* of that sector, since the card was not busy (SD_ReadDataBlock).
LEMMA ReadsBlockStep ==
  ASSUME DriverIInv, ReadsBlock
  PROVE  DriverIInv'
<1>1. /\ op = "read" /\ CardReady /\ card_at = sector + count - todo
      /\ sd_status = "ready" /\ count >= 1 /\ todo <= count /\ todo >= 1
      /\ sector + count <= SECTORS
      /\ card_at \in Sectors /\ card_at < SECTORS
  BY DriverConstants DEF ReadsBlock, DriverIInv, TypeOK, InStep, RunOfSectors, InTransfer, Sectors,
                         DriverConstants
<1>2. /\ sector \in Nat /\ count \in 0 .. MaxCount /\ todo \in Nat /\ MaxCount \in Nat /\ SECTORS \in Nat
      /\ buff \in Seq(0 .. MaxWrites) /\ Len(buff) \in Nat /\ Len(buff) = count - todo
      /\ blocks[card_at] \in 0 .. MaxWrites
  <2>1. sector \in Nat /\ count \in 0 .. MaxCount /\ todo \in Nat /\ MaxCount \in Nat /\ SECTORS \in Nat
    BY DriverConstants DEF DriverIInv, TypeOK, Sectors, DriverConstants
  <2>2. buff \in Seq(0 .. MaxWrites) /\ blocks[card_at] \in 0 .. MaxWrites
    BY <1>1 DEF DriverIInv, TypeOK
  <2>3. Len(buff) = count - todo
    BY <1>1 DEF ReadsBlock, DriverIInv, ReadSoFar, InTransfer
  <2> QED  BY <2>1, <2>2, <2>3, LenProperties
<1>3. /\ buff' \in Seq(0 .. MaxWrites) /\ Len(buff') = count - todo + 1
      /\ \A i \in 1 .. count - todo : buff'[i] = buff[i]
      /\ buff'[count - todo + 1] = blocks[card_at]
  <2> DEFINE e == blocks[card_at]
             n == count - todo
  <2>1. /\ Append(buff, e) \in Seq(0 .. MaxWrites) /\ Len(Append(buff, e)) = Len(buff) + 1
        /\ \A i \in 1 .. Len(buff) : Append(buff, e)[i] = buff[i]
        /\ Append(buff, e)[Len(buff) + 1] = e
    BY <1>2, AppendProperties
  <2>2. buff' = Append(buff, e) /\ Len(buff) = n
    BY <1>2 DEF ReadsBlock
  <2> HIDE DEF e, n
  <2>3. /\ buff' \in Seq(0 .. MaxWrites) /\ Len(buff') = n + 1
        /\ \A i \in 1 .. n : buff'[i] = buff[i]
        /\ buff'[n + 1] = e
    BY <2>1, <2>2, Zenon
  <2> QED  BY <2>3 DEF e, n
<1>4. UNCHANGED <<driver, call, result, by_block, blocks, storing, history>> /\ Counts
  BY DEF ReadsBlock
<1> USE DEF Counts, Goes, driver, call, card_vars, history
<1>5. TypeOK'
  <2>1. /\ card_at' \in 0 .. SECTORS /\ todo' \in 0 .. MaxCount
        /\ card' \in {"absent", "native", "idle", "ready", "sending", "receiving"}
        /\ elapsed' \in 0 .. TIMEOUT
        /\ pc' \in {"data", "stop", "end"}
    BY <1>1, <1>2, <1>4, DriverConstants DEF DriverIInv, TypeOK, DriverConstants, Sectors
  <2>2. buff' \in Seq(0 .. MaxWrites) /\ Len(buff') <= MaxCount
    BY <1>1, <1>2, <1>3
  <2> QED  BY <1>4, <2>1, <2>2 DEF DriverIInv, TypeOK
<1>6. Will' = Will
  BY <1>4, WillStays
<1>7. Kept'
  BY <1>1, <1>4, <1>6 DEF ReadsBlock, DriverIInv, Kept
<1>8. KindIsKnown'
  BY <1>4 DEF ReadsBlock, DriverIInv, KindIsKnown, CardType
<1>9. RunOfSectors'
  BY <1>1, <1>2, <1>4 DEF RunOfSectors, LastBlock
<1>10. InStep'
  BY <1>1, <1>2, <1>4 DEF ReadsBlock, InStep, CardReady
<1>11. WrittenSoFar' /\ SyncedInv'
  BY <1>1, <1>4 DEF WrittenSoFar, SyncedInv
<1>12. ReadSoFar'
  <2>1. todo' = todo - 1 /\ count' = count /\ sector' = sector /\ promised' = promised
    BY <1>4
  <2>2. \A i \in 1 .. count - todo : promised[sector + i - 1] # 0 => buff'[i] = promised[sector + i - 1]
    BY <1>1, <1>3 DEF ReadsBlock, DriverIInv, ReadSoFar, InTransfer
  <2>3. blocks[card_at] = Will[card_at]
    BY <1>1 DEF CardReady, Will
  <2>4. promised[card_at] # 0 => blocks[card_at] = promised[card_at]
    BY <1>1, <2>3 DEF DriverIInv, Kept
  <2>5. \A i \in 1 .. count - todo' : i \in 1 .. count - todo \/ (i = count - todo + 1 /\ sector + i - 1 = card_at)
    BY <1>1, <1>2, <2>1
  <2>6. \A i \in 1 .. count - todo' : promised[sector + i - 1] # 0 => buff'[i] = promised[sector + i - 1]
    BY <1>3, <2>2, <2>4, <2>5
  <2>7. Len(buff') = count - todo' /\ (pc' = "out" => todo' = 0)
    BY <1>2, <1>3, <1>4, <2>1
  <2> QED  BY <1>1, <2>1, <2>6, <2>7 DEF ReadSoFar
<1> QED  BY <1>5, <1>7, <1>8, <1>9, <1>10, <1>11, <1>12 DEF DriverIInv

\* What the sectors will hold after a block was taken.
LEMMA WillWritten ==
  ASSUME storing = Nothing, card_at \in Sectors,
         storing' = <<card_at, writes>>, blocks' = blocks
  PROVE  Will' = [Will EXCEPT ![card_at] = writes]
<1>1. storing' # Nothing /\ storing'[1] = card_at /\ storing'[2] = writes
  BY DEF Nothing
<1> QED  BY <1>1 DEF Will

\* A block is taken where the call counts it, a sector of which nothing is
\* promised (SD_WriteDataBlock).
LEMMA WritesBlockStep ==
  ASSUME DriverIInv, WritesBlock
  PROVE  DriverIInv'
<1>1. /\ op = "write" /\ storing = Nothing /\ card_at = sector + count - todo
      /\ sd_status = "ready" /\ count >= 1 /\ todo <= count /\ todo >= 1
      /\ sector + count <= SECTORS
      /\ card_at \in Sectors /\ card_at < SECTORS
      /\ writes >= 1 /\ \A t \in Run(sector, count) : promised[t] = 0
      /\ same => \A t \in Run(sector, count - todo) : Will[t] = writes
  BY DriverConstants DEF WritesBlock, DriverIInv, TypeOK, InStep, RunOfSectors, InTransfer, Sectors,
                         DriverConstants, WrittenSoFar, CardReady
<1>2. /\ sector \in Nat /\ count \in 0 .. MaxCount /\ todo \in Nat /\ MaxCount \in Nat /\ SECTORS \in Nat
      /\ MaxWrites \in Nat /\ writes \in 0 .. MaxWrites
  BY DriverConstants DEF DriverIInv, TypeOK, Sectors, DriverConstants
<1>3. /\ UNCHANGED <<driver, call, buff, result, by_block, blocks, history>> /\ Counts
      /\ storing' = <<card_at, writes>>
  BY DEF WritesBlock
<1> USE DEF Counts, Goes, driver, call, card_vars, history
<1>4. TypeOK'
  <2>1. /\ card_at' \in 0 .. SECTORS /\ todo' \in 0 .. MaxCount
        /\ card' \in {"absent", "native", "idle", "ready", "sending", "receiving"}
        /\ elapsed' \in 0 .. TIMEOUT
        /\ pc' \in {"data", "stop", "end"}
    BY <1>1, <1>2, <1>3, DriverConstants DEF DriverIInv, TypeOK, DriverConstants, Sectors
  <2>2. storing' \in Sectors \X (1 .. MaxWrites)
    BY <1>1, <1>2, <1>3
  <2> QED  BY <1>3, <2>1, <2>2 DEF DriverIInv, TypeOK
<1>5. Will' = [Will EXCEPT ![card_at] = writes] /\ DOMAIN Will = Sectors
  BY <1>1, <1>3, WillWritten DEF Will
<1>6. card_at \in Run(sector, count)
  BY <1>1, <1>2 DEF Run
<1>7. Kept'
  BY <1>1, <1>3, <1>5, <1>6 DEF WritesBlock, DriverIInv, Kept
<1>8. KindIsKnown'
  BY <1>3 DEF WritesBlock, DriverIInv, KindIsKnown, CardType
<1>9. RunOfSectors'
  BY <1>1, <1>2, <1>3 DEF RunOfSectors, LastBlock
<1>10. InStep'
  BY <1>1, <1>2, <1>3 DEF WritesBlock, InStep
<1>11. WrittenSoFar'
  <2>1. \A t \in Run(sector, count - todo') : t \in Run(sector, count - todo) \/ t = card_at
    BY <1>1, <1>2, <1>3 DEF Run
  <2>2. same => \A t \in Run(sector, count - todo') : Will'[t] = writes
    <3> SUFFICES ASSUME same, NEW t \in Run(sector, count - todo')
                 PROVE  Will'[t] = writes
      OBVIOUS
    <3>1. t \in Sectors
      BY <1>1, <1>2, <1>3 DEF Run, Sectors
    <3> QED  BY <1>1, <1>5, <2>1, <3>1
  <2> QED  BY <1>1, <1>3, <2>2 DEF WrittenSoFar
<1>12. ReadSoFar' /\ SyncedInv'
  BY <1>1, <1>3 DEF ReadSoFar, SyncedInv
<1> QED  BY <1>4, <1>7, <1>8, <1>9, <1>10, <1>11, <1>12 DEF DriverIInv

\* A call that counted its whole run to the end returns RES_OK, and a write then
\* promises what the card holds or is about to (SD_SPI_read, SD_SPI_write).
LEMMA EndsStep ==
  ASSUME DriverIInv, Ends
  PROVE  DriverIInv'
<1> USE DEF Ends, Returns, Goes, driver, call, card_vars
<1>1. /\ op \in {"read", "write"} /\ sector \in Nat /\ count \in Nat /\ SECTORS \in Nat
      /\ writes \in 0 .. MaxWrites /\ sector + count <= SECTORS
  BY DriverConstants DEF DriverIInv, TypeOK, RunOfSectors, InTransfer, Sectors, DriverConstants
<1>2. TypeOK'
  <2>1. promised' \in [Sectors -> 0 .. MaxWrites]
    BY <1>1 DEF DriverIInv, TypeOK
  <2> QED  BY <2>1, DriverConstants DEF DriverIInv, TypeOK, DriverConstants
<1>3. Will' = Will
  BY WillStays
<1>4. ASSUME op = "write" /\ todo = 0 /\ same PROVE Kept'
  <2>1. promised' = [t \in Sectors |-> IF t \in Run(sector, count) THEN writes ELSE promised[t]]
    BY <1>4
  <2>2. \A t \in Run(sector, count) : Will[t] = writes
    <3>1. count - todo = count
      BY <1>1, <1>4
    <3> QED  BY <1>4, <3>1 DEF DriverIInv, WrittenSoFar, InTransfer
  <2>3. \A s \in Sectors : promised'[s] # 0 => Will'[s] = promised'[s]
    BY <1>3, <2>1, <2>2 DEF DriverIInv, Kept
  <2>4. card' # "absent"
    BY <1>4 DEF DriverIInv, Kept
  <2> QED  BY <2>3, <2>4 DEF Kept
<1>5. ASSUME ~(op = "write" /\ todo = 0 /\ same) PROVE Kept'
  <2>1. promised' = promised
    BY <1>5
  <2> QED  BY <1>3, <2>1 DEF DriverIInv, Kept
<1>6. KindIsKnown'
  BY DEF DriverIInv, KindIsKnown, CardType
<1>7. RunOfSectors' /\ InStep' /\ WrittenSoFar'
  BY DEF RunOfSectors, InTransfer, InStep, WrittenSoFar
<1>8. ReadSoFar'
  <2>1. op = "read" => promised' = promised
    OBVIOUS
  <2> QED  BY <2>1 DEF DriverIInv, ReadSoFar, InTransfer
<1>9. SyncedInv'
  BY <1>1 DEF SyncedInv
<1> QED  BY <1>2, <1>4, <1>5, <1>6, <1>7, <1>8, <1>9 DEF DriverIInv

\* The card stores what it was busy with: what the sectors will hold is then
\* what they hold.
LEMMA StoresStep ==
  ASSUME DriverIInv, Stores
  PROVE  DriverIInv'
<1> USE DEF Stores, driver, call, history
<1>1. PICK s \in Sectors, v \in 1 .. MaxWrites : storing = <<s, v>>
  BY DEF DriverIInv, TypeOK
<1>2. blocks' = [blocks EXCEPT ![s] = v] /\ storing' = Nothing /\ blocks \in [Sectors -> 0 .. MaxWrites]
  BY <1>1 DEF DriverIInv, TypeOK
<1>3. TypeOK'
  <2>1. v \in 0 .. MaxWrites
    BY DriverConstants DEF DriverConstants
  <2>2. blocks' \in [Sectors -> 0 .. MaxWrites]
    BY <1>2, <2>1
  <2> QED  BY <2>2 DEF DriverIInv, TypeOK
<1>4. Will' = Will
  <2>1. storing # Nothing /\ storing[1] = s /\ storing[2] = v
    BY <1>1 DEF Nothing
  <2>2. Will = [t \in Sectors |-> IF s = t THEN v ELSE blocks[t]]
    BY <2>1 DEF Will
  <2>3. Will' = [t \in Sectors |-> blocks'[t]]
    BY <1>2 DEF Will
  <2>4. \A t \in Sectors : blocks'[t] = IF s = t THEN v ELSE blocks[t]
    BY <1>2
  <2> QED  BY <2>2, <2>3, <2>4
<1>5. Kept'
  BY <1>4 DEF DriverIInv, Kept
<1>6. KindIsKnown' /\ RunOfSectors'
  BY DEF DriverIInv, KindIsKnown, CardType, RunOfSectors, InTransfer
<1>7. InStep' /\ SyncedInv'
  BY DEF DriverIInv, InStep, SyncedInv, CardReady
<1>8. WrittenSoFar' /\ ReadSoFar'
  BY <1>4 DEF DriverIInv, WrittenSoFar, ReadSoFar, InTransfer
<1> QED  BY <1>3, <1>5, <1>6, <1>7, <1>8 DEF DriverIInv

\* With a card that is taken out goes all that was promised of it.
LEMMA RemovedStep ==
  ASSUME DriverIInv, Removed
  PROVE  DriverIInv'
<1> USE DEF Removed, driver, call
<1>1. promised' \in [Sectors -> 0 .. MaxWrites] /\ \A s \in Sectors : promised'[s] = 0
  BY DriverConstants DEF Empty, DriverConstants
<1>2. TypeOK'
  <2>1. removals' \in 0 .. MaxRemovals
    BY DriverConstants DEF DriverIInv, TypeOK, DriverConstants
  <2>2. /\ storing' \in {Nothing} \cup (Sectors \X (1 .. MaxWrites)) /\ same' \in BOOLEAN
        /\ card' \in {"absent", "native", "idle", "ready", "sending", "receiving"}
    OBVIOUS
  <2>3. /\ sd_status' \in {"STA_NOINIT", "ready"} /\ sd_card_type' \in {"none", "byte", "block"}
        /\ pc' \in {"out", "delay", "CMD0", "ACMD41", "CMD58", "command", "data", "stop", "end", "sync"}
        /\ caller' \in {"loop", "usb"} /\ op' \in {"none", "initialize", "read", "write", "sync"}
        /\ result' \in {"RES_OK", "RES_ERROR", "RES_NOTRDY"}
    BY DEF DriverIInv, TypeOK
  <2>4. /\ sector' \in Sectors /\ count' \in 0 .. MaxCount /\ todo' \in 0 .. MaxCount
        /\ buff' \in Seq(0 .. MaxWrites) /\ Len(buff') <= MaxCount
        /\ elapsed' \in 0 .. TIMEOUT /\ by_block' \in BOOLEAN
        /\ blocks' \in [Sectors -> 0 .. MaxWrites]
        /\ card_at' \in 0 .. SECTORS /\ writes' \in 0 .. MaxWrites
    BY DEF DriverIInv, TypeOK
  <2> HIDE DEF Removed
  <2> QED  BY <1>1, <2>1, <2>2, <2>3, <2>4, Zenon DEF TypeOK
<1>3. Kept' /\ KindIsKnown'
  BY <1>1 DEF DriverIInv, Kept, KindIsKnown
<1>4. RunOfSectors'
  BY DEF DriverIInv, RunOfSectors, InTransfer
<1>5. InStep' /\ SyncedInv'
  BY DEF DriverIInv, InStep, SyncedInv, CardReady
<1>6. /\ count \in Nat /\ todo \in Nat /\ sector \in Nat /\ SECTORS \in Nat
  BY DriverConstants DEF DriverIInv, TypeOK, Sectors, DriverConstants
<1>7. WrittenSoFar'
  <2>1. InTransfer => Run(sector, count) \subseteq Sectors
    BY <1>6 DEF DriverIInv, RunOfSectors, Run, Sectors
  <2> QED  BY <1>1, <2>1 DEF DriverIInv, WrittenSoFar, InTransfer
<1>8. ReadSoFar'
  <2>1. sector + count <= SECTORS => \A i \in 1 .. count - todo : sector + i - 1 \in Sectors
    BY <1>6 DEF Sectors
  <2> QED  BY <1>1, <2>1 DEF DriverIInv, ReadSoFar, InTransfer
<1> QED  BY <1>2, <1>3, <1>4, <1>5, <1>7, <1>8 DEF DriverIInv

\* A card that is put in is not in service, and nothing is promised of it.
LEMMA InsertedStep ==
  ASSUME DriverIInv, Inserted
  PROVE  DriverIInv'
<1> USE DEF Inserted, driver, call, history
<1>1. ~same /\ \A s \in Sectors : promised[s] = 0
  BY DEF DriverIInv, Kept
<1>2. TypeOK'
  <2>1. blocks' \in [Sectors -> 0 .. MaxWrites]
    BY DriverConstants DEF Empty, DriverConstants
  <2> QED  BY <2>1 DEF DriverIInv, TypeOK
<1>3. Kept' /\ KindIsKnown'
  BY <1>1 DEF DriverIInv, Kept, KindIsKnown
<1>4. RunOfSectors'
  BY DEF DriverIInv, RunOfSectors, InTransfer
<1>5. InStep' /\ SyncedInv'
  BY DEF DriverIInv, InStep, SyncedInv, CardReady
<1>6. WrittenSoFar' /\ ReadSoFar'
  BY <1>1 DEF DriverIInv, WrittenSoFar, ReadSoFar, InTransfer
<1> QED  BY <1>2, <1>3, <1>4, <1>5, <1>6 DEF DriverIInv

\* After power-up no card is initialised and nothing is promised.
LEMMA DriverInitIInv == Init => DriverIInv
<1> SUFFICES ASSUME Init PROVE DriverIInv
  OBVIOUS
<1>1. /\ Empty \in [Sectors -> 0 .. MaxWrites] /\ \A s \in Sectors : Empty[s] = 0
      /\ 0 \in Sectors /\ 0 \in 0 .. MaxCount /\ 0 \in 0 .. MaxWrites /\ 0 \in 0 .. MaxRemovals
      /\ 0 \in 0 .. TIMEOUT /\ 0 \in 0 .. SECTORS /\ 0 <= MaxCount
  BY DriverConstants DEF Empty, Sectors, DriverConstants
<1>2. << >> \in Seq(0 .. MaxWrites) /\ Len(<< >>) = 0
  BY EmptySeq
<1>3. TypeOK
  BY <1>1, <1>2, Zenon DEF Init, TypeOK
<1>4. Kept /\ KindIsKnown /\ RunOfSectors /\ InStep /\ WrittenSoFar /\ ReadSoFar /\ SyncedInv
  BY <1>1 DEF Init, Kept, KindIsKnown, RunOfSectors, InStep, WrittenSoFar, ReadSoFar, SyncedInv,
              InTransfer
<1> QED  BY <1>3, <1>4 DEF DriverIInv

\* A step in which the driver and the card do nothing.
LEMMA DriverStutters ==
  ASSUME DriverIInv, UNCHANGED vars
  PROVE  DriverIInv'
<1> USE DEF vars, driver, call, card_vars, history
<1>1. Will' = Will
  BY WillStays
<1>2. TypeOK' /\ Kept'
  BY <1>1 DEF DriverIInv, TypeOK, Kept
<1>3. KindIsKnown' /\ RunOfSectors' /\ InStep' /\ SyncedInv'
  BY DEF DriverIInv, KindIsKnown, CardType, RunOfSectors, InTransfer, InStep, SyncedInv, CardReady
<1>4. WrittenSoFar' /\ ReadSoFar'
  BY <1>1 DEF DriverIInv, WrittenSoFar, ReadSoFar, InTransfer
<1> QED  BY <1>2, <1>3, <1>4 DEF DriverIInv

\* The driver's invariant, whatever the card refuses and whenever it is taken
\* out, for every size of a card, of a block and of a call.
THEOREM DriverInvariant == Spec => []DriverIInv
<1>1. DriverIInv /\ [Next]_vars => DriverIInv'
  <2> SUFFICES ASSUME DriverIInv, [Next]_vars PROVE DriverIInv'
    OBVIOUS
  <2>1. CASE Driver
    BY <2>1, InitialisingStep, WaitingStep, FailingStep, AcceptedStep, ReadsBlockStep,
       WritesBlockStep, EndsStep DEF Driver
  <2>2. CASE disk_initialize \/ NotReady \/ SD_SPI_read \/ SD_SPI_write \/ Sync \/ SysTick_Handler
    BY <2>2, InitialisingStep, WaitingStep, ReadBegins, WriteBegins
  <2>3. CASE Stores \/ Removed \/ Inserted
    BY <2>3, StoresStep, RemovedStep, InsertedStep
  <2>4. CASE UNCHANGED vars
    BY <2>4, DriverStutters
  <2> QED  BY <2>1, <2>2, <2>3, <2>4 DEF Next
<1> QED  BY <1>1, DriverInitIInv, PTL DEF Spec

\* What the card will hold, it holds or is about to store.
LEMMA WillIsHeld ==
  ASSUME TypeOK, NEW s \in Sectors
  PROVE  Holds(s, Will[s]) /\ (CardReady => Will[s] = blocks[s])
<1>1. CASE storing # Nothing /\ storing[1] = s
  <2>1. storing \in Sectors \X (1 .. MaxWrites)
    BY <1>1 DEF TypeOK
  <2>2. storing = <<s, storing[2]>>
    BY <1>1, <2>1
  <2> QED  BY <1>1, <2>2 DEF Holds, Will, CardReady
<1>2. CASE ~(storing # Nothing /\ storing[1] = s)
  BY <1>2 DEF Holds, Will
<1> QED  BY <1>1, <1>2

\* What a write that returned RES_OK left is in the card or about to be, as long
\* as the card stays in, whatever fails later and whichever kind of card was
\* exchanged for the one before (SD_SPI_write).
THEOREM OkIsWritten == Spec => []OkMeansWritten
<1>1. DriverIInv => OkMeansWritten
  BY WillIsHeld DEF DriverIInv, Kept, OkMeansWritten
<1> QED  BY <1>1, DriverInvariant, PTL

\* A call that returned RES_OK did what it was asked: after CTRL_SYNC what was
\* promised is stored, and a read gave it back, sector by sector (SD_SPI_ioctl,
\* SD_SPI_read).
THEOREM ResultsAreTrue == Spec => []CallInv
<1>1. DriverIInv => CallInv
  <2> SUFFICES ASSUME DriverIInv, pc = "out", result = "RES_OK"
               PROVE  /\ op = "sync" => \A s \in Sectors : promised[s] # 0 => blocks[s] = promised[s]
                      /\ op = "read" => \A i \in 1 .. count :
                           promised[sector + i - 1] # 0 => buff[i] = promised[sector + i - 1]
    BY DEF DriverIInv, CallInv, ResultIsTrue
  <2>1. ASSUME op = "sync" PROVE \A s \in Sectors : promised[s] # 0 => blocks[s] = promised[s]
    BY <2>1, WillIsHeld DEF DriverIInv, SyncedInv, Kept
  <2>2. ASSUME op = "read"
        PROVE  \A i \in 1 .. count : promised[sector + i - 1] # 0 => buff[i] = promised[sector + i - 1]
    <3>1. count - todo = count
      BY <2>2 DEF DriverIInv, ReadSoFar, TypeOK
    <3> QED  BY <2>2, <3>1 DEF DriverIInv, ReadSoFar
  <2> QED  BY <2>1, <2>2
<1> QED  BY <1>1, DriverInvariant, PTL
=============================================================================
