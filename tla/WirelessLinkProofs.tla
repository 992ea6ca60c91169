------------------------ MODULE WirelessLinkProofs ------------------------
(***************************************************************************)
(* The two cores never change one list at a time (OneCoreAtATime), and a   *)
(* wait for CPU2 ends on the answer of its own command (LinkInv), for any  *)
(* number of buffers, commands, events and calls.                          *)
(*                                                                         *)
(* Lists.  The flag of a channel protects a list only together with the    *)
(* mask: the main loop moves the freed buffers because the flag is clear,  *)
(* and the interrupt must not do so as well or set the flag meanwhile.     *)
(* MoverInv says why not: the mask of the channel is closed while the main *)
(* loop is between its test of the flag and its setting.  That only the    *)
(* topmost frame can be there is StackInv.                                 *)
(*                                                                         *)
(* Answers.  A wait runs other tasks on its stack.  That none of them      *)
(* sends a second HCI command has three reasons, and LinkIInv has a part   *)
(* for each: the tasks that may send one are paused while a command is     *)
(* under way; the system task, which is not paused, sends them only in the *)
(* start-up, over once the others may (StartInv, AskersInv); and a task is *)
(* on the stack once (TasksInv).  The wait for a system command is         *)
(* SysCmdInv, the pool of event buffers BuffersInv.                        *)
(***************************************************************************)
EXTENDS WirelessLink, SequenceTheorems, TLAPS

TASKS == RX \cup {"adv_cancel", "loop"}
WORK == {"sys", "open_ble", "ble_init", "hci", "advertised", "done"}
\* Where a frame waits, works on the head of what it does, or moves buffers.
WAITING == {"sys_wait", "hci_wait"}
BUSY == {"sys_flag", "sys_mask"} \cup WAITING
MOVING == {"free_move", "free_flag"}
PCS == {"run", "free", "free_mask"} \cup BUSY \cup MOVING
FRAME == [task : TASKS, pc : PCS, todo : Seq(WORK)]

\* Only the topmost frame runs; the others wait for an answer.
StackInv ==
  /\ frames \in Seq(FRAME)
  /\ \A i \in 1 .. Len(frames) : frames[i].pc \in BUSY => frames[i].todo # << >>
  /\ \A i \in 1 .. Len(frames) - 1 : frames[i].pc \in WAITING

\* The handlers, and the flags they rely on.
HandlerInv ==
  \/ isr = << >>
  \/ \E c \in RX : (isr = <<c, "drain", "clear">> /\ flag[c]) \/ isr = <<c, "clear">>
  \/ isr \in {<<"mm", "move", "set">>, <<"mm", "set">>} /\ ~flag["mm"]

\* While the main loop moves buffers the interrupt cannot.
MoverInv ==
  \A i \in 1 .. Len(frames) : frames[i].pc \in MOVING =>
    ~flag["mm"] /\ "mm" \notin open /\ (isr = << >> \/ isr[1] # "mm")

IInv == flag \in [CHANNELS -> BOOLEAN] /\ StackInv /\ HandlerInv /\ MoverInv

-----------------------------------------------------------------------------
(* Sequences.                                                              *)

\* A channel followed by the two steps of its handler.
LEMMA HandlerTuple ==
  ASSUME NEW c, NEW a, NEW b
  PROVE  <<c>> \o <<a, b>> = <<c, a, b>>
<1> DEFINE S == {c, a, b}
           s == <<c>>
           t == <<a, b>>
           v == <<c, a, b>>
<1>1. s \in Seq(S) /\ t \in Seq(S) /\ v \in Seq(S)
  OBVIOUS
<1>2. /\ Len(s) = 1 /\ s[1] = c
      /\ Len(t) = 2 /\ t[1] = a /\ t[2] = b
      /\ Len(v) = 3 /\ v[1] = c /\ v[2] = a /\ v[3] = b
  OBVIOUS
<1> HIDE DEF S, s, t, v
<1>3. /\ s \o t \in Seq(S) /\ Len(s \o t) = 3
      /\ \A i \in 1 .. 3 : (s \o t)[i] = IF i <= 1 THEN s[i] ELSE t[i - 1]
  <2>1. /\ s \o t \in Seq(S) /\ Len(s \o t) = Len(s) + Len(t)
        /\ \A i \in 1 .. Len(s) + Len(t) :
             (s \o t)[i] = IF i <= Len(s) THEN s[i] ELSE t[i - Len(s)]
    BY <1>1, ConcatProperties
  <2> QED  BY <1>2, <2>1
<1>4. \A i \in 1 .. 3 : (s \o t)[i] = v[i]
  <2>1. \A i \in 1 .. 3 : i = 1 \/ i = 2 \/ i = 3
    OBVIOUS
  <2>2. (s \o t)[1] = s[1] /\ (s \o t)[2] = t[1] /\ (s \o t)[3] = t[2]
    BY <1>3
  <2> QED  BY <1>2, <2>1, <2>2
<1>5. s \o t = v
  BY <1>1, <1>2, <1>3, <1>4, SeqEqual
<1> QED  BY <1>5 DEF s, t, v

\* What an event makes a task do is a list of known steps.
LEMMA HandlingIsWork ==
  ASSUME NEW e
  PROVE  Handling(e) \o <<"done">> \in Seq(WORK)
<1>1. /\ <<"sys", "sys", "open_ble", "ble_init">> \in Seq(WORK)
      /\ <<"advertised">> \in Seq(WORK) /\ <<"hci">> \in Seq(WORK)
      /\ <<"done">> \in Seq(WORK) /\ << >> \in Seq(WORK)
  BY DEF WORK
<1>2. [i \in 1 .. InitCmds |-> "hci"] \in Seq(WORK)
  BY LinkConstants DEF LinkConstants, WORK
<1>3. StartUp \in Seq(WORK)
  BY <1>1, <1>2, ConcatProperties DEF StartUp
<1>4. Handling(e) \in Seq(WORK)
  BY <1>1, <1>3 DEF Handling
<1> QED  BY <1>1, <1>4, ConcatProperties

\* What is left of a list of steps is one.
LEMMA RestIsWork ==
  ASSUME NEW w \in Seq(WORK), w # << >>
  PROVE  Tail(w) \in Seq(WORK)
  BY HeadTailProperties

-----------------------------------------------------------------------------
(* The stack.                                                              *)

\* The topmost frame is a frame.
LEMMA TopFrame ==
  ASSUME StackInv, frames # << >>
  PROVE  /\ Len(frames) \in Nat \ {0}
         /\ frames[Len(frames)] \in FRAME /\ Top \in FRAME
<1>1. Len(frames) \in Nat \ {0}
  BY EmptySeq DEF StackInv
<1> QED  BY <1>1, ElementOfSeq DEF StackInv, Top

\* The topmost frame goes on to p with t left to do.
LEMMA TopMoves ==
  ASSUME IInv, Quiet, frames # << >>,
         NEW p \in PCS, NEW t \in Seq(WORK), p \in BUSY => t # << >>,
         frames' = [frames EXCEPT ![Len(frames)] =
                      [task |-> Top.task, pc |-> p, todo |-> t]],
         isr' = isr, flag' \in [CHANNELS -> BOOLEAN],
         p \in MOVING => ~flag'["mm"] /\ "mm" \notin open'
  PROVE  IInv'
<1> DEFINE n == Len(frames)
           f == [task |-> Top.task, pc |-> p, todo |-> t]
<1>1. n \in Nat \ {0} /\ Top \in FRAME /\ frames \in Seq(FRAME)
  BY TopFrame DEF IInv, StackInv
<1>2. f \in FRAME /\ f.pc = p /\ f.todo = t
  BY <1>1 DEF FRAME
<1> HIDE DEF f
<1>3. /\ frames' \in Seq(FRAME) /\ Len(frames') = n
      /\ \A i \in 1 .. n : frames'[i] = IF i = n THEN f ELSE frames[i]
  <2>1. n \in 1 .. Len(frames)
    BY <1>1
  <2>2. frames' = [frames EXCEPT ![n] = f]
    BY DEF f
  <2> QED  BY <1>1, <1>2, <2>1, <2>2, ExceptSeq
<1>w. \A i \in 1 .. n - 1 : frames[i].pc \in WAITING
  BY DEF IInv, StackInv
<1> HIDE DEF n
<1>4. \A i \in 1 .. n - 1 : frames'[i] = frames[i] /\ frames'[i].pc \in WAITING
  <2>1. \A i \in 1 .. n - 1 : i \in 1 .. n /\ i # n
    BY <1>1
  <2>2. \A i \in 1 .. n - 1 : frames'[i] = frames[i]
    BY <1>3, <2>1
  <2> QED  BY <1>w, <2>2
<1>5. frames'[n].pc = p /\ frames'[n].todo = t
  <2>1. frames'[n] = f
    BY <1>1, <1>3
  <2> QED  BY <1>2, <2>1
<1>6. \A i \in 1 .. n : i = n \/ i \in 1 .. n - 1
  BY <1>1
<1>7. StackInv'
  <2>1. \A i \in 1 .. n : frames'[i].pc \in BUSY => frames'[i].todo # << >>
    <3>1. \A i \in 1 .. n - 1 : frames[i].pc \in BUSY => frames[i].todo # << >>
      BY <1>1 DEF IInv, StackInv, n
    <3> QED  BY <1>4, <1>5, <1>6, <3>1
  <2> QED  BY <1>3, <1>4, <2>1 DEF StackInv
<1>8. isr' = << >>
  BY DEF Quiet
<1>9. MoverInv'
  <2>1. \A i \in 1 .. n : frames'[i].pc \in MOVING => p \in MOVING
    BY <1>4, <1>5, <1>6 DEF WAITING, MOVING
  <2> QED  BY <1>3, <1>8, <2>1 DEF MoverInv
<1> QED  BY <1>7, <1>8, <1>9 DEF IInv, HandlerInv

\* Goto is such a move.
LEMMA GotoMoves ==
  ASSUME StackInv, frames # << >>, NEW p, Goto(p)
  PROVE  frames' = [frames EXCEPT ![Len(frames)] =
                      [task |-> Top.task, pc |-> p, todo |-> Top.todo]]
<1>1. [Top EXCEPT !.pc = p] = [task |-> Top.task, pc |-> p, todo |-> Top.todo]
  BY TopFrame DEF FRAME
<1> QED  BY <1>1 DEF Goto

\* A step of the main loop that takes the topmost frame to p with its work kept.
LEMMA GotoStep ==
  ASSUME IInv, Quiet, frames # << >>, NEW p \in PCS, Goto(p),
         p \in BUSY => Top.todo # << >>,
         isr' = isr, flag' \in [CHANNELS -> BOOLEAN],
         p \in MOVING => ~flag'["mm"] /\ "mm" \notin open'
  PROVE  IInv'
<1>1. Top.todo \in Seq(WORK)
  BY TopFrame DEF IInv, FRAME
<1>2. frames' = [frames EXCEPT ![Len(frames)] =
                   [task |-> Top.task, pc |-> p, todo |-> Top.todo]]
  BY GotoMoves DEF IInv
<1> DEFINE t == Top.todo
<1> HIDE DEF t
<1>3. t \in Seq(WORK) /\ (p \in BUSY => t # << >>)
  BY <1>1 DEF t
<1>4. frames' = [frames EXCEPT ![Len(frames)] = [task |-> Top.task, pc |-> p, todo |-> t]]
  BY <1>2 DEF t
<1> QED  BY <1>3, <1>4, TopMoves

\* One that takes it to p and drops the head of its work.
LEMMA AdvanceStep ==
  ASSUME IInv, Quiet, frames # << >>, NEW p \in PCS, Advance(p),
         Top.todo # << >>, p \notin BUSY \cup MOVING,
         isr' = isr, flag' \in [CHANNELS -> BOOLEAN]
  PROVE  IInv'
<1>1. Tail(Top.todo) \in Seq(WORK)
  BY TopFrame, RestIsWork DEF IInv, FRAME
<1> DEFINE t == Tail(Top.todo)
<1> HIDE DEF t
<1>2. frames' = [frames EXCEPT ![Len(frames)] = [task |-> Top.task, pc |-> p, todo |-> t]]
  BY DEF Advance, t
<1>3. t \in Seq(WORK)
  BY <1>1 DEF t
<1> QED  BY <1>2, <1>3, TopMoves

\* A task is put on the stack while the frame below waits (UTIL_SEQ_Run).
LEMMA Pushes ==
  ASSUME IInv, Quiet, frames # << >> => Top.pc \in WAITING,
         NEW f \in FRAME, f.pc = "run", frames' = Append(frames, f),
         UNCHANGED mailbox
  PROVE  IInv'
<1> DEFINE n == Len(frames)
<1>1. n \in Nat /\ frames \in Seq(FRAME)
  BY LenProperties DEF IInv, StackInv
<1>2. /\ frames' \in Seq(FRAME) /\ Len(frames') = n + 1
      /\ \A i \in 1 .. n : frames'[i] = frames[i]
      /\ frames'[n + 1] = f
  BY <1>1, AppendProperties
<1>3. \A i \in 1 .. n : frames[i].pc \in WAITING /\ frames[i].todo # << >>
  <2>1. \A i \in 1 .. n - 1 : frames[i].pc \in WAITING
    BY DEF IInv, StackInv
  <2>2. n # 0 => frames[n].pc \in WAITING
    BY <1>1, EmptySeq DEF Top
  <2>3. \A i \in 1 .. n : i \in 1 .. n - 1 \/ (i = n /\ n # 0)
    BY <1>1
  <2>4. \A i \in 1 .. n : frames[i].pc \in BUSY => frames[i].todo # << >>
    BY DEF IInv, StackInv
  <2> QED  BY <2>1, <2>2, <2>3, <2>4 DEF BUSY
<1> HIDE DEF n
<1>4. \A i \in 1 .. n + 1 : i \in 1 .. n \/ i = n + 1
  BY <1>1
<1>5. StackInv'
  <2>1. \A i \in 1 .. n + 1 : frames'[i].pc \in BUSY => frames'[i].todo # << >>
    BY <1>2, <1>3, <1>4 DEF BUSY, WAITING
  <2>2. \A i \in 1 .. (n + 1) - 1 : frames'[i].pc \in WAITING
    BY <1>1, <1>2, <1>3
  <2> QED  BY <1>2, <2>1, <2>2 DEF StackInv
<1>6. MoverInv'
  <2>1. \A i \in 1 .. n + 1 : frames'[i].pc \notin MOVING
    BY <1>2, <1>3, <1>4 DEF WAITING, MOVING
  <2> QED  BY <1>2, <2>1 DEF MoverInv
<1> QED  BY <1>5, <1>6 DEF IInv, HandlerInv, Quiet, mailbox

\* The topmost frame returns.
LEMMA Pops ==
  ASSUME IInv, Quiet, frames # << >>, frames' = Below, UNCHANGED mailbox
  PROVE  IInv'
<1> DEFINE n == Len(frames)
<1>1. n \in Nat \ {0} /\ frames \in Seq(FRAME)
  BY TopFrame DEF IInv, StackInv
<1>2. /\ frames' \in Seq(FRAME) /\ Len(frames') = n - 1
      /\ \A i \in 1 .. n - 1 : frames'[i] = frames[i]
  <2>1. \A i \in 1 .. n - 1 : frames[i] \in FRAME
    BY <1>1, ElementOfSeq
  <2> DEFINE b == SubSeq(frames, 1, n - 1)
  <2>2. /\ b \in Seq(FRAME) /\ Len(b) = IF 1 <= n - 1 THEN (n - 1) - 1 + 1 ELSE 0
        /\ \A i \in 1 .. (n - 1) - 1 + 1 : b[i] = frames[1 + i - 1]
    BY <1>1, <2>1, SubSeqProperties
  <2>3. frames' = b
    BY DEF Below
  <2> HIDE DEF b, n
  <2>4. \A i \in 1 .. n - 1 : 1 + i - 1 = i
    BY <1>1
  <2>5. (n - 1) - 1 + 1 = n - 1 /\ (1 <= n - 1 \/ n - 1 = 0)
    BY <1>1
  <2> QED  BY <2>2, <2>3, <2>4, <2>5
<1>3. \A i \in 1 .. n - 1 : frames[i].pc \in WAITING
  BY DEF IInv, StackInv
<1>4. \A i \in 1 .. n - 1 : frames[i].todo # << >>
  <2>1. \A i \in 1 .. n - 1 : i \in 1 .. n
    BY <1>1
  <2> QED  BY <1>3, <2>1 DEF IInv, StackInv, BUSY
<1> HIDE DEF n
<1>5. StackInv'
  <2>1. \A i \in 1 .. (n - 1) - 1 : i \in 1 .. n - 1
    BY <1>1
  <2> QED  BY <1>2, <1>3, <1>4, <2>1 DEF StackInv
<1>6. MoverInv'
  BY <1>2, <1>3 DEF MoverInv, WAITING, MOVING
<1> QED  BY <1>5, <1>6 DEF IInv, HandlerInv, Quiet, mailbox

-----------------------------------------------------------------------------
(* The steps.                                                              *)

\* The stack is what it was.
LEMMA StackStays ==
  ASSUME StackInv, UNCHANGED frames
  PROVE  StackInv'
  BY DEF StackInv

\* CPU2 sets the flags of the lists it fills and clears the others.
LEMMA FlagsStep ==
  ASSUME IInv, UNCHANGED <<open, isr, frames>>, flag' \in [CHANNELS -> BOOLEAN],
         \A c \in RX : flag[c] => flag'[c], flag'["mm"] => flag["mm"]
  PROVE  IInv'
<1>1. StackInv'
  BY StackStays DEF IInv
<1>2. HandlerInv'
  <2>1. CASE isr = << >>
    BY <2>1 DEF HandlerInv
  <2>2. CASE \E c \in RX : (isr = <<c, "drain", "clear">> /\ flag[c]) \/ isr = <<c, "clear">>
    <3>1. PICK c \in RX : (isr = <<c, "drain", "clear">> /\ flag[c]) \/ isr = <<c, "clear">>
      BY <2>2
    <3>2. (isr' = <<c, "drain", "clear">> /\ flag'[c]) \/ isr' = <<c, "clear">>
      BY <3>1
    <3> QED  BY <3>2 DEF HandlerInv
  <2>3. CASE isr \in {<<"mm", "move", "set">>, <<"mm", "set">>} /\ ~flag["mm"]
    BY <2>3 DEF HandlerInv
  <2> QED  BY <2>1, <2>2, <2>3 DEF IInv, HandlerInv
<1>3. MoverInv'
  BY DEF IInv, MoverInv
<1> QED  BY <1>1, <1>2, <1>3 DEF IInv

\* What a handler has still to do tells which one it is.
LEMMA HandlerCases ==
  ASSUME HandlerInv, NEW c, NEW s, Isr(c, s)
  PROVE  \/ c \in RX /\ s = "drain" /\ isr = <<c, "drain", "clear">> /\ flag[c]
         \/ c \in RX /\ s = "clear" /\ isr = <<c, "clear">>
         \/ c = "mm" /\ s = "move" /\ isr = <<"mm", "move", "set">> /\ ~flag["mm"]
         \/ c = "mm" /\ s = "set" /\ isr = <<"mm", "set">> /\ ~flag["mm"]
<1>1. isr # << >> /\ isr[1] = c /\ isr[2] = s
  BY DEF Isr
<1>2. CASE \E d \in RX : (isr = <<d, "drain", "clear">> /\ flag[d]) \/ isr = <<d, "clear">>
  <2>1. PICK d \in RX : (isr = <<d, "drain", "clear">> /\ flag[d]) \/ isr = <<d, "clear">>
    BY <1>2
  <2>2. CASE isr = <<d, "drain", "clear">> /\ flag[d]
    BY <1>1, <2>2
  <2>3. CASE isr = <<d, "clear">>
    BY <1>1, <2>3
  <2> QED  BY <2>1, <2>2, <2>3
<1>3. CASE isr \in {<<"mm", "move", "set">>, <<"mm", "set">>} /\ ~flag["mm"]
  BY <1>1, <1>3
<1> QED  BY <1>1, <1>2, <1>3 DEF HandlerInv

\* The initial states.
LEMMA InitIInv == Init => IInv
<1> SUFFICES ASSUME Init PROVE IInv
  OBVIOUS
<1>1. flag \in [CHANNELS -> BOOLEAN] /\ isr = << >> /\ frames = << >>
  BY DEF Init
<1>2. frames \in Seq(FRAME) /\ Len(frames) = 0
  BY <1>1, EmptySeq
<1>3. StackInv /\ MoverInv
  BY <1>2 DEF StackInv, MoverInv
<1> QED  BY <1>1, <1>3 DEF IInv, HandlerInv

\* CPU2's steps and the timer's.
LEMMA Cpu2IInv ==
  ASSUME IInv, Cpu2 \/ AdvTimer \/ (\E c \in RX : Cpu2Sends(c))
  PROVE  IInv'
<1>f. flag \in [CHANNELS -> BOOLEAN]
  BY DEF IInv
<1>1. CASE \E c \in RX : Cpu2Raises(c)
  <2>1. PICK c \in RX : Cpu2Raises(c)
    BY <1>1
  <2>2. /\ flag' = [flag EXCEPT ![c] = TRUE] /\ UNCHANGED <<open, isr, frames>>
        /\ c # "mm" /\ c \in CHANNELS /\ RX \subseteq CHANNELS
    BY <2>1 DEF Cpu2Raises, RX, CHANNELS
  <2>3. flag' \in [CHANNELS -> BOOLEAN] /\ (\A d \in RX : flag[d] => flag'[d])
    BY <1>f, <2>2
  <2>4. flag'["mm"] => flag["mm"]
    BY <1>f, <2>2 DEF CHANNELS
  <2> QED  BY <2>2, <2>3, <2>4, FlagsStep
<1>2. CASE Cpu2AnswersSys \/ Cpu2TakesHci \/ Cpu2TakesBuffers
  <2>1. PICK c \in {"sys_cmd", "ble_cmd", "mm"} : flag' = [flag EXCEPT ![c] = FALSE]
    BY <1>2 DEF Cpu2AnswersSys, Cpu2TakesHci, Cpu2TakesBuffers
  <2>2. UNCHANGED <<open, isr, frames>>
    BY <1>2 DEF Cpu2AnswersSys, Cpu2TakesHci, Cpu2TakesBuffers
  <2>3. flag' \in [CHANNELS -> BOOLEAN]
    BY <1>f, <2>1
  <2>4. \A d \in RX : flag[d] => flag'[d]
    BY <1>f, <2>1 DEF RX, CHANNELS
  <2>5. flag'["mm"] => flag["mm"]
    BY <1>f, <2>1 DEF CHANNELS
  <2> QED  BY <2>2, <2>3, <2>4, <2>5, FlagsStep
<1>3. CASE Cpu2AnswersHci \/ AdvTimer \/ (\E c \in RX : Cpu2Sends(c))
  <2>1. UNCHANGED <<flag, open, isr, frames>>
    BY <1>3 DEF Cpu2AnswersHci, AdvTimer, Cpu2Sends, mailbox
  <2> QED  BY <1>f, <2>1, FlagsStep
<1> QED  BY <1>1, <1>2, <1>3 DEF Cpu2

\* The interrupt's steps.
LEMMA InterruptIInv ==
  ASSUME IInv, Interrupt
  PROVE  IInv'
<1>f. flag \in [CHANNELS -> BOOLEAN] /\ "mm" \in CHANNELS /\ RX \subseteq CHANNELS
      /\ "mm" \notin RX
  BY DEF IInv, CHANNELS, RX
<1>s. StackInv'
  <2>1. UNCHANGED frames
    BY DEF Interrupt, RxInterrupt, TxInterrupt, FreeBufCb, FreeBufSetFlag, Drain, ClearFlag
  <2> QED  BY <2>1, StackStays DEF IInv
<1>1. CASE RxInterrupt
  <2>1. UNCHANGED <<flag, open, frames>>
    BY <1>1 DEF RxInterrupt
  <2>2. PICK c \in RX : flag[c] /\ isr' = <<c, "drain", "clear">>
    <3>1. PICK c \in RxPending : isr' = <<c>> \o EVT_HANDLER
      BY <1>1 DEF RxInterrupt, RxPending, RX
    <3> QED  BY <3>1, HandlerTuple DEF RxPending, EVT_HANDLER
  <2>3. isr'[1] # "mm"
    BY <1>f, <2>2
  <2>4. HandlerInv'
    BY <2>1, <2>2 DEF HandlerInv
  <2>5. MoverInv'
    BY <2>1, <2>3 DEF IInv, MoverInv
  <2> QED  BY <1>f, <1>s, <2>1, <2>4, <2>5 DEF IInv
<1>2. CASE TxInterrupt
  <2>1. UNCHANGED <<flag, frames>> /\ open' \subseteq open /\ isr = << >>
    BY <1>2 DEF TxInterrupt
  <2>2. CASE UNCHANGED isr
    <3>1. HandlerInv'
      BY <2>1, <2>2 DEF HandlerInv
    <3>2. MoverInv'
      BY <2>1, <2>2 DEF IInv, MoverInv
    <3> QED  BY <1>f, <1>s, <2>1, <3>1, <3>2 DEF IInv
  <2>3. CASE "mm" \in TxPending /\ isr' = <<"mm">> \o FREE_HANDLER
    <3>1. "mm" \in open /\ ~flag["mm"]
      BY <2>3 DEF TxPending
    <3>2. isr' = <<"mm", "move", "set">>
      BY <2>3, HandlerTuple DEF FREE_HANDLER
    <3>3. HandlerInv'
      BY <2>1, <3>1, <3>2 DEF HandlerInv
    <3>4. MoverInv'
      BY <2>1, <3>1 DEF IInv, MoverInv
    <3> QED  BY <1>f, <1>s, <2>1, <3>3, <3>4 DEF IInv
  <2> QED  BY <1>2, <2>2, <2>3 DEF TxInterrupt, TxPending
<1>3. CASE FreeBufCb
  <2>1. UNCHANGED <<flag, open, frames>> /\ Isr("mm", "move") /\ Returns
    BY <1>3 DEF FreeBufCb
  <2>2. isr = <<"mm", "move", "set">> /\ ~flag["mm"]
    BY <1>f, <2>1, HandlerCases DEF IInv
  <2>3. isr' = <<"mm", "set">>
    BY <2>1, <2>2 DEF Returns
  <2>4. HandlerInv'
    BY <2>1, <2>2, <2>3 DEF HandlerInv
  <2>5. MoverInv'
    BY <2>1, <2>2 DEF IInv, MoverInv
  <2> QED  BY <1>f, <1>s, <2>1, <2>4, <2>5 DEF IInv
<1>4. CASE FreeBufSetFlag
  <2>1. /\ UNCHANGED <<open, frames>> /\ Isr("mm", "set") /\ Returns
        /\ flag' = [flag EXCEPT !["mm"] = TRUE]
    BY <1>4 DEF FreeBufSetFlag
  <2>2. isr = <<"mm", "set">>
    BY <1>f, <2>1, HandlerCases DEF IInv
  <2>3. isr' = << >>
    BY <2>1, <2>2 DEF Returns
  <2>4. HandlerInv'
    BY <2>3 DEF HandlerInv
  <2>5. MoverInv'
    BY <2>1, <2>2 DEF IInv, MoverInv
  <2> QED  BY <1>f, <1>s, <2>1, <2>4, <2>5 DEF IInv
<1>5. CASE \E c \in RX : Drain(c) \/ ClearFlag(c)
  <2>1. PICK c \in RX : Drain(c) \/ ClearFlag(c)
    BY <1>5
  <2>2. UNCHANGED <<open, frames>> /\ Returns /\ flag' \in [CHANNELS -> BOOLEAN]
        /\ flag'["mm"] = flag["mm"]
    BY <1>f, <2>1 DEF Drain, ClearFlag
  <2>3. isr' = <<c, "clear">> \/ isr' = << >>
    <3>1. CASE Isr(c, "drain")
      <4>1. isr = <<c, "drain", "clear">>
        BY <1>f, <3>1, HandlerCases DEF IInv
      <4> QED  BY <2>2, <4>1 DEF Returns
    <3>2. CASE Isr(c, "clear")
      <4>1. isr = <<c, "clear">>
        BY <1>f, <3>2, HandlerCases DEF IInv
      <4> QED  BY <2>2, <4>1 DEF Returns
    <3> QED  BY <2>1, <3>1, <3>2 DEF Drain, ClearFlag
  <2>4. HandlerInv'
    BY <2>1, <2>3 DEF HandlerInv
  <2>5. isr' = << >> \/ isr'[1] # "mm"
    BY <1>f, <2>1, <2>3
  <2>6. MoverInv'
    BY <2>2, <2>5 DEF IInv, MoverInv
  <2> QED  BY <1>s, <2>2, <2>4, <2>6 DEF IInv
<1> QED  BY <1>1, <1>2, <1>3, <1>4, <1>5 DEF Interrupt

\* The steps of the main loop that put a frame on the stack or take one off.
LEMMA StackIInv ==
  ASSUME IInv, (\E t \in RX \cup {"adv_cancel"} : RunTask(t)) \/ Notify \/ Return
  PROVE  IInv'
<1>f. flag \in [CHANNELS -> BOOLEAN]
  BY DEF IInv
<1>1. ASSUME NEW t \in RX \cup {"adv_cancel"}, RunTask(t)
      PROVE  IInv'
  <2>1. Quiet /\ UNCHANGED mailbox
    BY <1>1 DEF RunTask
  <2>2. frames # << >> => Top.pc \in WAITING
    BY <1>1 DEF RunTask, Waits, WAITING
  <2>3. t \in TASKS
    BY DEF TASKS
  <2>4. CASE UNCHANGED frames
    BY <1>f, <2>1, <2>4, FlagsStep DEF mailbox
  <2>5. CASE \E w \in Seq(WORK) : frames' = Append(frames, Frame(t, w))
    <3>1. PICK w \in Seq(WORK) : frames' = Append(frames, Frame(t, w))
      BY <2>5
    <3>2. Frame(t, w) \in FRAME /\ Frame(t, w).pc = "run"
      BY <2>3 DEF Frame, FRAME, PCS
    <3> QED  BY <2>1, <2>2, <3>1, <3>2, Pushes
  <2>6. UNCHANGED frames \/ (\E w \in Seq(WORK) : frames' = Append(frames, Frame(t, w)))
    <3>1. <<"hci">> \in Seq(WORK) /\ << >> \in Seq(WORK)
      BY DEF WORK
    <3>2. CASE t \in RX
      <4>1. UNCHANGED frames
            \/ frames' = Append(frames, Frame(t, Handling(Head(asynch[t])) \o <<"done">>))
        BY <1>1, <3>2 DEF RunTask
      <4> QED  BY <4>1, HandlingIsWork
    <3>3. CASE t \notin RX
      <4>1. \E w \in {<<"hci">>, << >>} : frames' = Append(frames, Frame(t, w))
        BY <1>1, <3>3 DEF RunTask
      <4> QED  BY <3>1, <4>1
    <3> QED  BY <3>2, <3>3
  <2> QED  BY <2>4, <2>5, <2>6
<1>2. CASE Notify
  <2>1. Quiet /\ UNCHANGED mailbox /\ frames = << >> /\ frames' = <<Frame("loop", <<"hci">>)>>
    BY <1>2 DEF Notify
  <2>2. Frame("loop", <<"hci">>) \in FRAME /\ Frame("loop", <<"hci">>).pc = "run"
    BY DEF Frame, FRAME, PCS, TASKS, WORK
  <2>3. frames' = Append(frames, Frame("loop", <<"hci">>))
    BY <2>1
  <2> QED  BY <2>1, <2>2, <2>3, Pushes
<1>3. CASE Return
  BY <1>3, Pops DEF Return, At
<1> QED  BY <1>1, <1>2, <1>3

\* The steps of the topmost frame.
LEMMA FrameIInv ==
  ASSUME IInv,
         \/ \E x \in {"sys", "ble_init"} : SendSys(x)
         \/ SysSetFlag \/ SysEnableTransmit \/ SysAnswered \/ OpenBle
         \/ SendHci \/ HciAnswered \/ Advertises
         \/ EvtDone \/ SendFreeBuf \/ FreeWhenTaken \/ FreeNow \/ FreeSetFlag
  PROVE  IInv'
<1>f. /\ flag \in [CHANNELS -> BOOLEAN]
      /\ \A c \in CHANNELS : \A v \in BOOLEAN :
           [flag EXCEPT ![c] = v] \in [CHANNELS -> BOOLEAN]
  BY DEF IInv
<1>b. ASSUME frames # << >>, Top.pc \in BUSY
      PROVE  Top.todo # << >>
  BY <1>b, TopFrame DEF IInv, StackInv, Top
<1>m. ASSUME frames # << >>, Top.pc \in MOVING
      PROVE  ~flag["mm"] /\ "mm" \notin open
  BY <1>m, TopFrame DEF IInv, MoverInv, Top
<1>p. /\ {"run", "free", "free_mask"} \subseteq PCS
      /\ BUSY \subseteq PCS /\ MOVING \subseteq PCS
      /\ {"run", "free", "free_mask"} \cap (BUSY \cup MOVING) = {}
      /\ BUSY \cap MOVING = {}
  BY DEF PCS, BUSY, WAITING, MOVING
<1>1. CASE \E x \in {"sys", "ble_init"} : SendSys(x)
  <2>1. /\ Quiet /\ frames # << >> /\ Top.todo # << >>
        /\ Goto("sys_flag") /\ UNCHANGED mailbox
    BY <1>1 DEF SendSys, Does, At, SYS_SENDS
  <2>2. "sys_flag" \in BUSY
    BY DEF BUSY
  <2> QED  BY <1>f, <1>p, <2>1, <2>2, GotoStep DEF mailbox
<1>2. CASE SysSetFlag
  <2>1. /\ Quiet /\ frames # << >> /\ Top.pc = "sys_flag" /\ UNCHANGED isr
        /\ Goto("sys_mask") /\ flag' = [flag EXCEPT !["sys_cmd"] = TRUE]
    BY <1>2 DEF SysSetFlag, At, SysThen, SYS_SENDS
  <2>2. "sys_flag" \in BUSY /\ "sys_mask" \in BUSY /\ "sys_cmd" \in CHANNELS
    BY DEF BUSY, CHANNELS
  <2> QED  BY <1>b, <1>f, <1>p, <2>1, <2>2, GotoStep
<1>3. CASE SysEnableTransmit
  <2>1. /\ Quiet /\ frames # << >> /\ Top.pc = "sys_mask" /\ UNCHANGED <<flag, isr>>
        /\ Goto("sys_wait")
    BY <1>3 DEF SysEnableTransmit, At, SysThen, SYS_SENDS
  <2>2. "sys_mask" \in BUSY /\ "sys_wait" \in BUSY
    BY DEF BUSY, WAITING
  <2> QED  BY <1>b, <1>f, <1>p, <2>1, <2>2, GotoStep
<1>4. CASE SysAnswered
  <2>1. /\ Quiet /\ frames # << >> /\ Top.pc = "sys_wait" /\ UNCHANGED mailbox
        /\ Advance("run")
    BY <1>4 DEF SysAnswered, At
  <2>2. "sys_wait" \in BUSY
    BY DEF BUSY, WAITING
  <2> QED  BY <1>b, <1>f, <1>p, <2>1, <2>2, AdvanceStep DEF mailbox
<1>5. CASE OpenBle \/ Advertises
  <2>1. /\ Quiet /\ frames # << >> /\ Top.todo # << >> /\ UNCHANGED <<flag, isr>>
        /\ Advance("run")
    BY <1>5 DEF OpenBle, Advertises, Does, At, mailbox
  <2> QED  BY <1>f, <1>p, <2>1, AdvanceStep
<1>6. CASE SendHci
  <2>1. /\ Quiet /\ frames # << >> /\ Top.todo # << >> /\ UNCHANGED isr
        /\ Goto("hci_wait") /\ flag' = [flag EXCEPT !["ble_cmd"] = TRUE]
    BY <1>6 DEF SendHci, Does, At
  <2>2. "hci_wait" \in BUSY /\ "ble_cmd" \in CHANNELS
    BY DEF BUSY, WAITING, CHANNELS
  <2> QED  BY <1>f, <1>p, <2>1, <2>2, GotoStep
<1>7. CASE HciAnswered
  <2>1. /\ Quiet /\ frames # << >> /\ Top.pc = "hci_wait" /\ UNCHANGED mailbox
        /\ Advance("run") \/ UNCHANGED frames
    BY <1>7 DEF HciAnswered, At
  <2>2. "hci_wait" \in BUSY
    BY DEF BUSY, WAITING
  <2>3. CASE Advance("run")
    BY <1>b, <1>f, <1>p, <2>1, <2>2, <2>3, AdvanceStep DEF mailbox
  <2>4. CASE UNCHANGED frames
    BY <1>f, <2>1, <2>4, FlagsStep DEF mailbox
  <2> QED  BY <2>1, <2>3, <2>4
<1>8. CASE EvtDone
  <2>1. /\ Quiet /\ frames # << >> /\ Top.todo # << >> /\ UNCHANGED mailbox
        /\ Advance("free")
    BY <1>8 DEF EvtDone, Does, At
  <2> QED  BY <1>f, <1>p, <2>1, AdvanceStep DEF mailbox
<1>9. CASE SendFreeBuf
  <2>1. /\ Quiet /\ frames # << >> /\ UNCHANGED mailbox
        /\ Goto(IF flag["mm"] THEN "free_mask" ELSE "free_move")
    BY <1>9 DEF SendFreeBuf, At
  <2>2. CASE flag["mm"]
    BY <1>f, <1>p, <2>1, <2>2, GotoStep DEF mailbox
  <2>3. CASE ~flag["mm"]
    <3>1. "mm" \notin open
      BY <2>1, <2>3 DEF Quiet, TxPending
    <3>2. "free_move" \in MOVING
      BY DEF MOVING
    <3> QED  BY <1>f, <1>p, <2>1, <2>3, <3>1, <3>2, GotoStep DEF mailbox
  <2> QED  BY <2>2, <2>3
<1>10. CASE FreeWhenTaken
  <2>1. Quiet /\ frames # << >> /\ UNCHANGED <<flag, isr>> /\ Goto("run")
    BY <1>10 DEF FreeWhenTaken, At
  <2> QED  BY <1>f, <1>p, <2>1, GotoStep
<1>11. CASE FreeNow
  <2>1. /\ Quiet /\ frames # << >> /\ Top.pc = "free_move" /\ UNCHANGED mailbox
        /\ Goto("free_flag")
    BY <1>11 DEF FreeNow, At
  <2>2. "free_move" \in MOVING /\ "free_flag" \in MOVING
    BY DEF MOVING
  <2> QED  BY <1>f, <1>m, <1>p, <2>1, <2>2, GotoStep DEF mailbox
<1>12. CASE FreeSetFlag
  <2>1. /\ Quiet /\ frames # << >> /\ UNCHANGED isr
        /\ Goto("run") /\ flag' = [flag EXCEPT !["mm"] = TRUE]
    BY <1>12 DEF FreeSetFlag, At
  <2>2. "mm" \in CHANNELS
    BY DEF CHANNELS
  <2> QED  BY <1>f, <1>p, <2>1, <2>2, GotoStep
<1> QED  BY <1>1, <1>2, <1>3, <1>4, <1>5, <1>6, <1>7, <1>8, <1>9, <1>10, <1>11, <1>12

-----------------------------------------------------------------------------

\* Every step keeps the invariant.
LEMMA NextIInv ==
  ASSUME IInv, [Next]_vars
  PROVE  IInv'
<1>1. CASE Cpu2 \/ AdvTimer \/ (\E c \in RX : Cpu2Sends(c))
  BY <1>1, Cpu2IInv
<1>2. CASE Interrupt
  BY <1>2, InterruptIInv
<1>3. CASE (\E t \in RX \cup {"adv_cancel"} : RunTask(t)) \/ Notify \/ Return
  BY <1>3, StackIInv
<1>4. CASE \/ \E x \in {"sys", "ble_init"} : SendSys(x)
           \/ SysSetFlag \/ SysEnableTransmit \/ SysAnswered \/ OpenBle
           \/ SendHci \/ HciAnswered \/ Advertises
           \/ EvtDone \/ SendFreeBuf \/ FreeWhenTaken \/ FreeNow \/ FreeSetFlag
  BY <1>4, FrameIInv
<1>5. CASE UNCHANGED vars
  BY <1>5, FlagsStep DEF vars, mailbox, IInv
<1> QED  BY <1>1, <1>2, <1>3, <1>4, <1>5 DEF Next, Cpu1

\* The invariant says of the lists what OneCoreAtATime says.
LEMMA ListsAreSafe == IInv => OneCoreAtATime
<1> SUFFICES ASSUME IInv PROVE OneCoreAtATime
  OBVIOUS
<1>1. ASSUME NEW c \in RX, isr # << >>, isr[1] = c, isr[2] = "drain"
      PROVE  flag[c]
  <2>1. CASE \E d \in RX : (isr = <<d, "drain", "clear">> /\ flag[d]) \/ isr = <<d, "clear">>
    BY <1>1, <2>1
  <2>2. CASE isr \in {<<"mm", "move", "set">>, <<"mm", "set">>}
    BY <1>1, <2>2 DEF RX
  <2> QED  BY <1>1, <2>1, <2>2 DEF IInv, HandlerInv
<1>2. ASSUME isr # << >>, isr[1] = "mm"
      PROVE  ~flag["mm"]
  BY <1>2 DEF IInv, HandlerInv, RX
<1>3. ASSUME NEW i \in DOMAIN frames, frames[i].pc \in {"free_move", "free_flag"}
      PROVE  ~flag["mm"]
  <2>1. DOMAIN frames = 1 .. Len(frames)
    BY LenProperties DEF IInv, StackInv
  <2> QED  BY <1>3, <2>1 DEF IInv, MoverInv, MOVING
<1> QED  BY <1>1, <1>2, <1>3 DEF OneCoreAtATime

\* The stack, the handlers and the masks are as IInv says, always.
THEOREM Invariant == Spec => []IInv
<1>1. Init => IInv
  BY InitIInv
<1>2. IInv /\ [Next]_vars => IInv'
  BY NextIInv
<1> QED  BY <1>1, <1>2, PTL DEF Spec

\* Whatever CPU2 sends and whenever the interrupts come, CPU1 touches a list of the
\* mailbox (hw_ipcc.c) only while its flag says that it may.
THEOREM ListsCorrect == Spec => []OneCoreAtATime
<1>1. IInv => OneCoreAtATime
  BY ListsAreSafe
<1> QED  BY <1>1, Invariant, PTL

-----------------------------------------------------------------------------
(* Answers and buffers: the invariant.                                     *)

SYS_PCS == {"sys_flag", "sys_mask", "sys_wait"}
STARTING == {"sys", "ble_init", "open_ble", "advertised"}

\* What a task may have to do: start-up is the system task's, and the last thing
\* the handling of an event does is to give its buffer back.
TodoOK(task, w) ==
  /\ task \in RX /\ w # << >> => w[Len(w)] = "done"
  /\ \A k \in 1 .. Len(w) :
       /\ w[k] = "done" => k = Len(w) /\ task \in RX
       /\ w[k] \in STARTING => task = "sys_evt"
       /\ w[k] = "advertised" => \A m \in k + 1 .. Len(w) : w[m] = "done"

\* What a frame waits for is the first thing it has to do.
FrameOK(f) ==
  /\ TodoOK(f.task, f.todo)
  /\ f.pc = "hci_wait" => f.todo[1] = "hci"
  /\ f.pc \in SYS_PCS => f.todo[1] \in {"sys", "ble_init"}

Asks(f) == \E k \in 1 .. Len(f.todo) : f.todo[k] = "hci"

\* A task is on the stack once, and above a task that waits for the answer of an
\* HCI command none is left that would send one.
TasksInv ==
  /\ \A i \in 1 .. Len(frames) : FrameOK(frames[i])
  /\ \A i, j \in 1 .. Len(frames) : i < j => frames[i].task # frames[j].task
  /\ \A i, j \in 1 .. Len(frames) : i < j /\ frames[i].pc = "hci_wait" => ~ Asks(frames[j])
  /\ \A i \in 1 .. Len(frames) : frames[i].pc = "hci_wait" => WITH_HCICMD \subseteq paused

\* The event of a wait for a system command is set, or its interrupt let through,
\* only while its task waits and CPU2 has the command or has answered it.
SysCmdInv ==
  LET Waiting(pc) == \E i \in 1 .. Len(frames) : frames[i].pc = pc
      Taken == flag["sys_cmd"] \/ cpu2_sys \in {"answered", "refused"}
  IN  /\ "sys" \in evt_set =>
           "sys_cmd" \notin open /\ cpu2_sys \in {"answered", "refused"} /\ Waiting("sys_wait")
      /\ "sys_cmd" \in open => Taken /\ Waiting("sys_wait")
      /\ Waiting("sys_mask") => Taken

\* The start-up has not begun, or is over: no frame is in it.
NoStart == \A i \in 1 .. Len(frames) :
             frames[i].task = "sys_evt" =>
               \A k \in 1 .. Len(frames[i].todo) : frames[i].todo[k] = "done"
ReadyIn(s) == \E k \in 1 .. Len(s) : s[k] = "ready"
ReadyAhead == ReadyIn(posted["sys_evt"]) \/ ReadyIn(asynch["sys_evt"])

\* CPU2 reports ready once, first of all, and only the handling of that event
\* starts the BLE stack up; nothing else sends HCI commands before it is over.
StartInv ==
  /\ \A k \in 1 .. Len(posted["sys_evt"]) :
       posted["sys_evt"][k] = "ready" => k = 1 /\ asynch["sys_evt"] = << >>
  /\ \A k \in 1 .. Len(asynch["sys_evt"]) : asynch["sys_evt"][k] = "ready" => k = 1
  /\ events = 0 => posted["sys_evt"] = << >> /\ asynch["sys_evt"] = << >>
  /\ ReadyAhead \/ events = 0 => ~advertised
  /\ ReadyAhead \/ events = 0 \/ advertised => NoStart

AskersInv ==
  ~advertised =>
    /\ \A k \in 1 .. Len(posted["ble_evt"]) : posted["ble_evt"][k] # "link"
    /\ \A k \in 1 .. Len(asynch["ble_evt"]) : asynch["ble_evt"][k] # "link"
    /\ "adv_cancel" \notin tasks
    /\ \A i \in 1 .. Len(frames) : frames[i].task # "sys_evt" => ~ Asks(frames[i])

\* Every buffer is with CPU2, in a list, or held by the frame that handles its event.
Held(t) == IF \E i \in 1 .. Len(frames) : frames[i].task = t /\ frames[i].todo # << >>
             THEN 1 ELSE 0
Listed(c) == Len(posted[c]) + Len(asynch[c])
WithTasks == Listed("sys_evt") + Held("sys_evt") + Listed("ble_evt") + Held("ble_evt")
BuffersInv ==
  /\ local_free \in Nat /\ free_list \in Nat /\ cpu2_free \in Nat
  /\ WithTasks + local_free + free_list + cpu2_free = NBUF

EVENTS(c) == IF c = "sys_evt" THEN {"ready", "note"} ELSE {"note", "link"}
TypesInv ==
  /\ DOMAIN posted = RX /\ DOMAIN asynch = RX
  /\ \A c \in RX : posted[c] \in Seq(EVENTS(c)) /\ asynch[c] \in Seq(EVENTS(c))
  /\ open \subseteq CHANNELS /\ evt_set \subseteq {"sys", "hci"}
  /\ tasks \subseteq RX \cup {"adv_cancel"} /\ paused \subseteq RX \cup {"adv_cancel"}
  /\ advertised \in BOOLEAN /\ stopped \in BOOLEAN /\ events \in Nat

LinkIInv ==
  /\ TypesInv /\ TasksInv /\ SysCmdInv /\ StartInv /\ AskersInv /\ BuffersInv

-----------------------------------------------------------------------------
(* What the steps of the main loop do to the stack.                        *)

\* The topmost frame goes on to p with t left to do.
TopGoes(p, t) ==
  /\ Len(frames') = Len(frames)
  /\ \A i \in 1 .. Len(frames) - 1 : frames'[i] = frames[i]
  /\ /\ frames'[Len(frames)].task = Top.task
     /\ frames'[Len(frames)].pc = p
     /\ frames'[Len(frames)].todo = t

\* It goes on with no more to do than before.
NoMore(t) == \A k \in 1 .. Len(t) : \E m \in 1 .. Len(Top.todo) : t[k] = Top.todo[m]

\* Any change of the topmost frame is of that kind.
LEMMA TopChanges ==
  ASSUME StackInv, frames # << >>, NEW p \in PCS, NEW t \in Seq(WORK),
         frames' = [frames EXCEPT ![Len(frames)] =
                      [task |-> Top.task, pc |-> p, todo |-> t]]
  PROVE  TopGoes(p, t)
<1> DEFINE n == Len(frames)
           f == [task |-> Top.task, pc |-> p, todo |-> t]
<1>1. n \in Nat \ {0} /\ Top \in FRAME /\ frames \in Seq(FRAME)
  BY TopFrame DEF StackInv
<1>2. f \in FRAME /\ f.task = Top.task /\ f.pc = p /\ f.todo = t
  BY <1>1 DEF FRAME
<1> HIDE DEF f
<1>3. /\ Len(frames') = n
      /\ \A i \in 1 .. n : frames'[i] = IF i = n THEN f ELSE frames[i]
  <2>1. n \in 1 .. Len(frames)
    BY <1>1
  <2>2. frames' = [frames EXCEPT ![n] = f]
    BY DEF f
  <2> QED  BY <1>1, <1>2, <2>1, <2>2, ExceptSeq
<1> HIDE DEF n
<1>4. frames'[n] = f /\ \A i \in 1 .. n - 1 : frames'[i] = frames[i]
  BY <1>1, <1>3
<1> QED  BY <1>2, <1>3, <1>4 DEF TopGoes, n

\* What is left of a list of steps after the first.
LEMMA Rest ==
  ASSUME NEW w \in Seq(WORK), w # << >>
  PROVE  /\ Tail(w) \in Seq(WORK) /\ Len(w) \in Nat \ {0} /\ Len(Tail(w)) = Len(w) - 1
         /\ \A k \in 1 .. Len(w) - 1 : Tail(w)[k] = w[k + 1]
         /\ Head(w) = w[1]
<1>1. Len(w) \in Nat \ {0}
  BY EmptySeq, LenProperties
<1> QED  BY <1>1, HeadTailProperties

\* Goto keeps what the frame has to do.
LEMMA GotoGoes ==
  ASSUME StackInv, frames # << >>, NEW p \in PCS, Goto(p)
  PROVE  TopGoes(p, Top.todo) /\ NoMore(Top.todo)
<1>1. Top.todo \in Seq(WORK)
  BY TopFrame DEF FRAME
<1>2. frames' = [frames EXCEPT ![Len(frames)] =
                   [task |-> Top.task, pc |-> p, todo |-> Top.todo]]
  BY GotoMoves
<1> DEFINE t == Top.todo
<1>3. t \in Seq(WORK) /\ frames' = [frames EXCEPT ![Len(frames)] = [task |-> Top.task, pc |-> p, todo |-> t]]
  BY <1>1, <1>2
<1> HIDE DEF t
<1>4. TopGoes(p, t)
  BY <1>3, TopChanges
<1> QED  BY <1>4 DEF t, NoMore

\* Advance drops its first step.
LEMMA AdvanceGoes ==
  ASSUME StackInv, frames # << >>, Top.todo # << >>, NEW p \in PCS, Advance(p)
  PROVE  TopGoes(p, Tail(Top.todo)) /\ NoMore(Tail(Top.todo))
<1>1. Top.todo \in Seq(WORK)
  BY TopFrame DEF FRAME
<1> DEFINE t == Tail(Top.todo)
           w == Top.todo
<1>2. t \in Seq(WORK) /\ frames' = [frames EXCEPT ![Len(frames)] = [task |-> Top.task, pc |-> p, todo |-> t]]
  BY <1>1, Rest DEF Advance
<1>3. Len(w) \in Nat \ {0} /\ Len(t) = Len(w) - 1 /\ \A k \in 1 .. Len(w) - 1 : t[k] = w[k + 1]
  BY <1>1, Rest
<1> HIDE DEF t
<1>4. TopGoes(p, t)
  BY <1>2, TopChanges
<1>5. \A k \in 1 .. Len(t) : \E m \in 1 .. Len(w) : t[k] = w[m]
  <2> TAKE k \in 1 .. Len(t)
  <2> HIDE DEF w
  <2>1. k + 1 \in 1 .. Len(w) /\ t[k] = w[k + 1]
    BY <1>3
  <2> QED  BY <2>1
<1> QED  BY <1>4, <1>5 DEF t, w, NoMore

\* What a frame may have to do, it may still have to do after the first step.
LEMMA TodoRest ==
  ASSUME NEW task, NEW w \in Seq(WORK), w # << >>, TodoOK(task, w)
  PROVE  TodoOK(task, Tail(w))
<1> DEFINE t == Tail(w)
           n == Len(w)
<1>1. n \in Nat \ {0} /\ Len(t) = n - 1 /\ t \in Seq(WORK) /\ \A k \in 1 .. n - 1 : t[k] = w[k + 1]
  BY Rest
<1>2. /\ task \in RX => w[n] = "done"
      /\ \A k \in 1 .. n :
           /\ w[k] = "done" => k = n /\ task \in RX
           /\ w[k] \in STARTING => task = "sys_evt"
           /\ w[k] = "advertised" => \A m \in k + 1 .. n : w[m] = "done"
  BY DEF TodoOK
<1>3. t # << >> => n - 1 \in 1 .. n - 1
  BY <1>1, EmptySeq
<1> HIDE DEF t, n
<1>4. task \in RX /\ t # << >> => t[n - 1] = "done"
  BY <1>1, <1>2, <1>3
<1>5. ASSUME NEW k \in 1 .. n - 1
      PROVE  /\ t[k] = "done" => k = n - 1 /\ task \in RX
             /\ t[k] \in STARTING => task = "sys_evt"
             /\ t[k] = "advertised" => \A m \in k + 1 .. n - 1 : t[m] = "done"
  <2>1. k + 1 \in 1 .. n /\ t[k] = w[k + 1]
    BY <1>1
  <2>2. \A m \in k + 1 .. n - 1 : m \in 1 .. n - 1 /\ m + 1 \in (k + 1) + 1 .. n
    BY <1>1
  <2>3. k + 1 = n <=> k = n - 1
    BY <1>1
  <2> QED  BY <1>1, <1>2, <2>1, <2>2, <2>3
<1> QED  BY <1>1, <1>4, <1>5 DEF TodoOK, t

\* The topmost frame is as the invariant says.
LEMMA TopIsOK ==
  ASSUME IInv, TasksInv, frames # << >>
  PROVE  /\ Len(frames) \in Nat \ {0} /\ Top = frames[Len(frames)] /\ Len(frames) \in 1 .. Len(frames)
         /\ FrameOK(Top) /\ Top.todo \in Seq(WORK) /\ Len(Top.todo) \in Nat
         /\ Top.task \in TASKS
<1>1. Len(frames) \in Nat \ {0} /\ Top \in FRAME
  BY TopFrame DEF IInv
<1>2. Len(frames) \in 1 .. Len(frames)
  BY <1>1
<1>3. Top = frames[Len(frames)]
  BY DEF Top
<1>4. FrameOK(Top)
  BY <1>2, <1>3 DEF TasksInv
<1>5. Top.todo \in Seq(WORK) /\ Top.task \in TASKS
  BY <1>1 DEF FRAME
<1> QED  BY <1>1, <1>2, <1>3, <1>4, <1>5, LenProperties

\* The tasks are in order after a step of the topmost frame, if that frame is and
\* if the tasks that send HCI commands are paused while one waits.
LEMMA TopTasks ==
  ASSUME IInv, TasksInv, frames # << >>, NEW p, NEW t, TopGoes(p, t), NoMore(t),
         TodoOK(Top.task, t),
         p = "hci_wait" => t[1] = "hci", p \in SYS_PCS => t[1] \in {"sys", "ble_init"},
         \A i \in 1 .. Len(frames') : frames'[i].pc = "hci_wait" => WITH_HCICMD \subseteq paused'
  PROVE  TasksInv'
<1> DEFINE n == Len(frames)
<1>1. n \in Nat \ {0} /\ Top = frames[n]
  BY TopIsOK
<1>2. /\ Len(frames') = n /\ \A i \in 1 .. n - 1 : frames'[i] = frames[i]
      /\ frames'[n].task = Top.task /\ frames'[n].pc = p /\ frames'[n].todo = t
  BY DEF TopGoes
<1>o. /\ \A i \in 1 .. n : FrameOK(frames[i])
      /\ \A i, j \in 1 .. n : i < j => frames[i].task # frames[j].task
      /\ \A i, j \in 1 .. n : i < j /\ frames[i].pc = "hci_wait" => ~ Asks(frames[j])
  BY DEF TasksInv
<1> HIDE DEF n
<1>3. \A i \in 1 .. n : i = n \/ (i \in 1 .. n - 1 /\ i < n)
  BY <1>1
<1>4. FrameOK(frames'[n])
  BY <1>2 DEF FrameOK
<1>5. \A i \in 1 .. n : FrameOK(frames'[i])
  BY <1>2, <1>3, <1>4, <1>o
<1>6. \A i \in 1 .. n : frames'[i].task = frames[i].task
  BY <1>1, <1>2, <1>3
<1>7. \A i, j \in 1 .. n : i < j => frames'[i].task # frames'[j].task
  BY <1>6, <1>o
<1>8. Asks(frames'[n]) => Asks(frames[n])
  BY <1>1, <1>2 DEF Asks, NoMore
<1>9. \A i, j \in 1 .. n : i < j => i \in 1 .. n - 1
  BY <1>1
<1>10. \A i, j \in 1 .. n : i < j /\ frames'[i].pc = "hci_wait" => ~ Asks(frames'[j])
  BY <1>2, <1>3, <1>8, <1>9, <1>o
<1>11. \A i \in 1 .. Len(frames') : frames'[i].pc = "hci_wait" => WITH_HCICMD \subseteq paused'
  OBVIOUS
<1> QED  BY <1>2, <1>5, <1>7, <1>10, <1>11 DEF TasksInv, FrameOK, TodoOK, Asks, WITH_HCICMD

\* A frame that has no more to do than before neither starts up nor asks.
LEMMA TopStarts ==
  ASSUME IInv, TasksInv, frames # << >>, NEW p, NEW t, TopGoes(p, t), NoMore(t)
  PROVE  /\ NoStart => NoStart'
         /\ (\A i \in 1 .. Len(frames) : frames[i].task # "sys_evt" => ~ Asks(frames[i])) =>
              (\A i \in 1 .. Len(frames') : frames'[i].task # "sys_evt" => ~ Asks(frames'[i]))
<1> DEFINE n == Len(frames)
<1>1. n \in Nat \ {0} /\ Top = frames[n]
  BY TopIsOK
<1>2. /\ Len(frames') = n /\ \A i \in 1 .. n - 1 : frames'[i] = frames[i]
      /\ frames'[n].task = Top.task /\ frames'[n].todo = t
  BY DEF TopGoes
<1> HIDE DEF n
<1>3. \A i \in 1 .. n : i = n \/ i \in 1 .. n - 1
  BY <1>1
<1>4. n \in 1 .. n
  BY <1>1
<1>5. ASSUME NoStart PROVE NoStart'
  <2>1. \A i \in 1 .. n : frames[i].task = "sys_evt" =>
          \A k \in 1 .. Len(frames[i].todo) : frames[i].todo[k] = "done"
    BY <1>5 DEF NoStart, n
  <2>2. frames'[n].task = "sys_evt" => \A k \in 1 .. Len(frames'[n].todo) : frames'[n].todo[k] = "done"
    <3> SUFFICES ASSUME frames'[n].task = "sys_evt", NEW k \in 1 .. Len(t)
                 PROVE  t[k] = "done"
      BY <1>2
    <3>1. PICK m \in 1 .. Len(Top.todo) : t[k] = Top.todo[m]
      BY DEF NoMore
    <3> QED  BY <1>1, <1>2, <1>4, <2>1, <3>1
  <2>3. \A i \in 1 .. n : frames'[i].task = "sys_evt" =>
          \A k \in 1 .. Len(frames'[i].todo) : frames'[i].todo[k] = "done"
    BY <1>2, <1>3, <2>1, <2>2
  <2> QED  BY <1>2, <2>3 DEF NoStart
<1>6. ASSUME \A i \in 1 .. n : frames[i].task # "sys_evt" => ~ Asks(frames[i])
      PROVE  \A i \in 1 .. n : frames'[i].task # "sys_evt" => ~ Asks(frames'[i])
  <2>1. frames'[n].task # "sys_evt" => ~ Asks(frames'[n])
    BY <1>1, <1>2, <1>4, <1>6 DEF Asks, NoMore
  <2>2. \A i \in 1 .. n - 1 : frames'[i].task # "sys_evt" => ~ Asks(frames'[i])
    BY <1>2, <1>3, <1>6, <1>1
  <2> QED  BY <1>3, <2>1, <2>2
<1> QED  BY <1>2, <1>5, <1>6 DEF n

\* The buffers that frames hold, after such a step.
LEMMA TopHolds ==
  ASSUME IInv, TasksInv, frames # << >>, NEW p, NEW t, TopGoes(p, t), NEW x \in RX
  PROVE  /\ (x = Top.task => (t # << >> <=> Top.todo # << >>)) => Held(x)' = Held(x)
         /\ x = Top.task /\ Top.todo # << >> /\ t = << >> => Held(x) = 1 /\ Held(x)' = 0
<1> DEFINE n == Len(frames)
           H(i) == frames[i].task = x /\ frames[i].todo # << >>
           G(i) == frames'[i].task = x /\ frames'[i].todo # << >>
<1>1. n \in Nat \ {0} /\ Top = frames[n]
  BY TopIsOK
<1>2. /\ Len(frames') = n /\ \A i \in 1 .. n - 1 : frames'[i] = frames[i]
      /\ frames'[n].task = Top.task /\ frames'[n].todo = t
  BY DEF TopGoes
<1>3. \A i, j \in 1 .. n : i < j => frames[i].task # frames[j].task
  BY DEF TasksInv
<1>4. Held(x) = (IF \E i \in 1 .. n : H(i) THEN 1 ELSE 0)
  BY DEF Held
<1>5. Held(x)' = (IF \E i \in 1 .. n : G(i) THEN 1 ELSE 0)
  BY <1>2 DEF Held
<1> HIDE DEF n
<1>6. \A i \in 1 .. n : i = n \/ (i \in 1 .. n - 1 /\ i < n)
  BY <1>1
<1>7. n \in 1 .. n
  BY <1>1
<1>8. ASSUME x = Top.task => (t # << >> <=> Top.todo # << >>)
      PROVE  Held(x)' = Held(x)
  <2>1. \A i \in 1 .. n : H(i) <=> G(i)
    BY <1>1, <1>2, <1>6, <1>8
  <2> HIDE DEF H, G
  <2> QED  BY <1>4, <1>5, <2>1
<1>9. ASSUME x = Top.task, Top.todo # << >>, t = << >>
      PROVE  Held(x) = 1 /\ Held(x)' = 0
  <2>1. H(n)
    BY <1>1, <1>9
  <2>2. \A i \in 1 .. n : ~ G(i)
    BY <1>1, <1>2, <1>3, <1>6, <1>7, <1>9
  <2> HIDE DEF H, G
  <2> QED  BY <1>4, <1>5, <1>7, <2>1, <2>2
<1> QED  BY <1>8, <1>9

\* Whether a frame is at a place the topmost frame neither leaves nor reaches.
LEMMA TopWaits ==
  ASSUME IInv, TasksInv, frames # << >>, NEW p, NEW t, TopGoes(p, t),
         NEW q, Top.pc # q, p # q
  PROVE  (\E i \in 1 .. Len(frames) : frames[i].pc = q) <=>
           (\E i \in 1 .. Len(frames') : frames'[i].pc = q)
<1> DEFINE n == Len(frames)
<1>1. n \in Nat \ {0} /\ Top = frames[n]
  BY TopIsOK
<1>2. /\ Len(frames') = n /\ \A i \in 1 .. n - 1 : frames'[i] = frames[i]
      /\ frames'[n].pc = p
  BY DEF TopGoes
<1> HIDE DEF n
<1>3. \A i \in 1 .. n : i = n \/ i \in 1 .. n - 1
  BY <1>1
<1>4. \A i \in 1 .. n : frames[i].pc = q <=> frames'[i].pc = q
  BY <1>1, <1>2, <1>3
<1> QED  BY <1>2, <1>4 DEF n

-----------------------------------------------------------------------------
(* A frame more, a frame less.                                             *)

Pushed(f) ==
  /\ Len(frames') = Len(frames) + 1
  /\ \A i \in 1 .. Len(frames) : frames'[i] = frames[i]
  /\ frames'[Len(frames) + 1] = f
Popped ==
  /\ Len(frames') = Len(frames) - 1
  /\ \A i \in 1 .. Len(frames) - 1 : frames'[i] = frames[i]

\* What Append does to the stack.
LEMMA AppendPushes ==
  ASSUME StackInv, NEW f \in FRAME, frames' = Append(frames, f)
  PROVE  Pushed(f) /\ Len(frames) \in Nat
<1>1. frames \in Seq(FRAME)
  BY DEF StackInv
<1> QED  BY <1>1, AppendProperties, LenProperties DEF Pushed

\* What Below is.
LEMMA BelowPops ==
  ASSUME StackInv, frames # << >>, frames' = Below
  PROVE  Popped
<1> DEFINE n == Len(frames)
           b == SubSeq(frames, 1, n - 1)
<1>1. n \in Nat \ {0} /\ frames \in Seq(FRAME)
  BY TopFrame DEF StackInv
<1>2. \A i \in 1 .. n - 1 : frames[i] \in FRAME
  BY <1>1, ElementOfSeq
<1>3. /\ Len(b) = IF 1 <= n - 1 THEN (n - 1) - 1 + 1 ELSE 0
      /\ \A i \in 1 .. (n - 1) - 1 + 1 : b[i] = frames[1 + i - 1]
  BY <1>1, <1>2, SubSeqProperties
<1>4. frames' = b
  BY DEF Below
<1> HIDE DEF b, n
<1>5. \A i \in 1 .. n - 1 : 1 + i - 1 = i
  BY <1>1
<1>6. (n - 1) - 1 + 1 = n - 1 /\ (1 <= n - 1 \/ n - 1 = 0)
  BY <1>1
<1>7. Len(frames') = n - 1 /\ \A i \in 1 .. n - 1 : frames'[i] = frames[i]
  BY <1>3, <1>4, <1>5, <1>6
<1> QED  BY <1>7 DEF Popped, n

\* The tasks are in order with a new frame whose task is not on the stack, and
\* which asks nothing while one below waits for an answer.
LEMMA PushTasks ==
  ASSUME IInv, TasksInv, NEW f, Pushed(f), Len(frames) \in Nat, FrameOK(f), f.pc = "run",
         \A i \in 1 .. Len(frames) : frames[i].task # f.task,
         \A i \in 1 .. Len(frames) : frames[i].pc = "hci_wait" => ~ Asks(f),
         paused' = paused
  PROVE  TasksInv'
<1> DEFINE n == Len(frames)
<1>1. n \in Nat
  OBVIOUS
<1>2. /\ Len(frames') = n + 1 /\ \A i \in 1 .. n : frames'[i] = frames[i]
      /\ frames'[n + 1] = f
  BY DEF Pushed
<1>o. /\ \A i \in 1 .. n : FrameOK(frames[i])
      /\ \A i, j \in 1 .. n : i < j => frames[i].task # frames[j].task
      /\ \A i, j \in 1 .. n : i < j /\ frames[i].pc = "hci_wait" => ~ Asks(frames[j])
      /\ \A i \in 1 .. n : frames[i].pc = "hci_wait" => WITH_HCICMD \subseteq paused
      /\ \A i \in 1 .. n : frames[i].task # f.task
      /\ \A i \in 1 .. n : frames[i].pc = "hci_wait" => ~ Asks(f)
  BY DEF TasksInv
<1> HIDE DEF n
<1>3. /\ \A i \in 1 .. n + 1 : i = n + 1 \/ i \in 1 .. n
      /\ \A i, j \in 1 .. n + 1 : i < j => i \in 1 .. n
  BY <1>1
<1>5. \A i \in 1 .. n + 1 : FrameOK(frames'[i])
  BY <1>2, <1>3, <1>o
<1>6. \A i, j \in 1 .. n + 1 : i < j => frames'[i].task # frames'[j].task
  BY <1>2, <1>3, <1>o
<1>7. \A i, j \in 1 .. n + 1 : i < j /\ frames'[i].pc = "hci_wait" => ~ Asks(frames'[j])
  BY <1>2, <1>3, <1>o
<1>8. \A i \in 1 .. n + 1 : frames'[i].pc = "hci_wait" => WITH_HCICMD \subseteq paused'
  BY <1>2, <1>3, <1>o
<1> QED  BY <1>2, <1>5, <1>6, <1>7, <1>8 DEF TasksInv, FrameOK, TodoOK, Asks, WITH_HCICMD

\* They are in order with a frame less.
LEMMA PopTasks ==
  ASSUME IInv, TasksInv, frames # << >>, Popped, paused' = paused
  PROVE  TasksInv'
<1> DEFINE n == Len(frames)
<1>1. n \in Nat \ {0}
  BY TopIsOK
<1>2. Len(frames') = n - 1 /\ \A i \in 1 .. n - 1 : frames'[i] = frames[i]
  BY DEF Popped
<1>o. /\ \A i \in 1 .. n : FrameOK(frames[i])
      /\ \A i, j \in 1 .. n : i < j => frames[i].task # frames[j].task
      /\ \A i, j \in 1 .. n : i < j /\ frames[i].pc = "hci_wait" => ~ Asks(frames[j])
      /\ \A i \in 1 .. n : frames[i].pc = "hci_wait" => WITH_HCICMD \subseteq paused
  BY DEF TasksInv
<1> HIDE DEF n
<1>3. \A i \in 1 .. n - 1 : i \in 1 .. n
  BY <1>1
<1>5. /\ \A i \in 1 .. n - 1 : FrameOK(frames'[i])
      /\ \A i, j \in 1 .. n - 1 : i < j => frames'[i].task # frames'[j].task
      /\ \A i, j \in 1 .. n - 1 : i < j /\ frames'[i].pc = "hci_wait" => ~ Asks(frames'[j])
      /\ \A i \in 1 .. n - 1 : frames'[i].pc = "hci_wait" => WITH_HCICMD \subseteq paused'
  BY <1>2, <1>3, <1>o
<1> QED  BY <1>2, <1>5 DEF TasksInv, FrameOK, TodoOK, Asks, WITH_HCICMD

\* Four counts of buffers are a number, and it changes as they do.
LEMMA TasksHave ==
  ASSUME TypesInv, TypesInv'
  PROVE  /\ WithTasks \in Nat
         /\ \A a, b, c, d \in Int :
              Listed("sys_evt")' = Listed("sys_evt") + a /\ Held("sys_evt")' = Held("sys_evt") + b /\
              Listed("ble_evt")' = Listed("ble_evt") + c /\ Held("ble_evt")' = Held("ble_evt") + d =>
                WithTasks' = WithTasks + (a + b + c + d)
<1> DEFINE p == Listed("sys_evt")
           q == Held("sys_evt")
           r == Listed("ble_evt")
           s == Held("ble_evt")
<1>1. q \in Nat /\ s \in Nat
  BY DEF Held
<1>2. p \in Nat /\ r \in Nat
  BY LenProperties DEF TypesInv, Listed, RX
<1>3. WithTasks = p + q + r + s
  BY DEF WithTasks
<1>4. WithTasks' = p' + q' + r' + s'
  BY DEF WithTasks
<1> HIDE DEF p, q, r, s
<1>5. ASSUME NEW a \in Int, NEW b \in Int, NEW c \in Int, NEW d \in Int,
             p' = p + a, q' = q + b, r' = r + c, s' = s + d
      PROVE  WithTasks' = WithTasks + (a + b + c + d)
  BY <1>1, <1>2, <1>3, <1>4, <1>5
<1>6. WithTasks \in Nat
  BY <1>1, <1>2, <1>3
<1> QED  BY <1>5, <1>6 DEF p, q, r, s

\* Buffers that change hands.
LEMMA MovedBuffers ==
  ASSUME BuffersInv, local_free' \in Nat, free_list' \in Nat, cpu2_free' \in Nat,
         WithTasks' + local_free' + free_list' + cpu2_free' =
           WithTasks + local_free + free_list + cpu2_free
  PROVE  BuffersInv'
  BY DEF BuffersInv

\* The tasks have as many buffers as before.
LEMMA TasksHold ==
  ASSUME UNCHANGED <<frames, posted, asynch>>
  PROVE  WithTasks' = WithTasks
  BY DEF WithTasks, Listed, Held

-----------------------------------------------------------------------------
(* The steps that leave the stack alone.                                   *)

\* The stack as before, and the same tasks paused.
LEMMA TasksStay ==
  ASSUME TasksInv, UNCHANGED <<frames, paused>>
  PROVE  TasksInv'
  BY DEF TasksInv, FrameOK, TodoOK, Asks, WITH_HCICMD

\* The same lists, stack and stage of the start-up.
LEMMA StartStays ==
  ASSUME StartInv, UNCHANGED <<frames, posted, asynch, events, advertised>>
  PROVE  StartInv'
  BY DEF StartInv, ReadyAhead, ReadyIn, NoStart

\* Nobody new may ask, unless the device advertises.
LEMMA AskersStay ==
  ASSUME AskersInv, UNCHANGED <<frames, posted, asynch, advertised>>,
         "adv_cancel" \in tasks' => "adv_cancel" \in tasks \/ advertised
  PROVE  AskersInv'
  BY DEF AskersInv, Asks

\* The buffers are where they were.
LEMMA BuffersStay ==
  ASSUME BuffersInv, UNCHANGED <<frames, posted, asynch, local_free, free_list, cpu2_free>>
  PROVE  BuffersInv'
  BY TasksHold DEF BuffersInv

\* No wait for a system command is concerned.
LEMMA SysCmdStays ==
  ASSUME SysCmdInv, frames' = frames, flag'["sys_cmd"] = flag["sys_cmd"], cpu2_sys' = cpu2_sys,
         "sys_cmd" \in open' => "sys_cmd" \in open,
         "sys" \in evt_set' <=> "sys" \in evt_set
  PROVE  SysCmdInv'
  BY DEF SysCmdInv

\* CPU2's steps that touch no list of events.
LEMMA Cpu2Keeps ==
  ASSUME IInv, LinkIInv, Cpu2 \/ AdvTimer
  PROVE  LinkIInv'
<1>f. flag \in [CHANNELS -> BOOLEAN]
  BY DEF IInv
<1>1. UNCHANGED <<frames, paused, posted, asynch, events, advertised, stopped, open, evt_set>>
  BY DEF Cpu2, Cpu2Raises, Cpu2AnswersHci, Cpu2AnswersSys, Cpu2TakesHci, Cpu2TakesBuffers, AdvTimer,
         mailbox, queues, sequencer, outcome, bounds
<1>2. tasks' \subseteq RX \cup {"adv_cancel"} /\ ("adv_cancel" \in tasks' => "adv_cancel" \in tasks \/ advertised)
  BY DEF LinkIInv, TypesInv, Cpu2, Cpu2Raises, Cpu2AnswersHci, Cpu2AnswersSys, Cpu2TakesHci,
         Cpu2TakesBuffers, AdvTimer, sequencer
<1>3. TypesInv'
  BY <1>1, <1>2 DEF LinkIInv, TypesInv
<1>4. TasksInv' /\ StartInv' /\ AskersInv'
  BY <1>1, <1>2, TasksStay, StartStays, AskersStay DEF LinkIInv
<1>5. SysCmdInv'
  <2>1. CASE Cpu2AnswersSys
    BY <1>1, <1>f, <2>1 DEF Cpu2AnswersSys, LinkIInv, SysCmdInv, CHANNELS
  <2>2. CASE ~Cpu2AnswersSys
    <3>1. flag'["sys_cmd"] = flag["sys_cmd"] /\ cpu2_sys' = cpu2_sys
      BY <1>f, <2>2 DEF Cpu2, Cpu2Raises, Cpu2AnswersHci, Cpu2TakesHci, Cpu2TakesBuffers, AdvTimer,
                        mailbox, cpu2, RX, CHANNELS
    <3> QED  BY <1>1, <3>1, SysCmdStays DEF LinkIInv
  <2> QED  BY <2>1, <2>2
<1>6. BuffersInv'
  <2>1. CASE Cpu2TakesBuffers
    <3>1. cpu2_free' = cpu2_free + free_list /\ free_list' = 0 /\ local_free' = local_free
      BY <2>1 DEF Cpu2TakesBuffers
    <3>2. WithTasks' = WithTasks /\ WithTasks \in Nat
      BY <1>1, <1>3, TasksHold, TasksHave DEF LinkIInv
    <3>3. local_free \in Nat /\ free_list \in Nat /\ cpu2_free \in Nat
      BY DEF LinkIInv, BuffersInv
    <3> QED  BY <3>1, <3>2, <3>3, MovedBuffers DEF LinkIInv
  <2>2. CASE ~Cpu2TakesBuffers
    <3>1. UNCHANGED <<local_free, free_list, cpu2_free>>
      BY <2>2 DEF Cpu2, Cpu2Raises, Cpu2AnswersHci, Cpu2AnswersSys, Cpu2TakesHci, AdvTimer, buffers
    <3> QED  BY <1>1, <3>1, BuffersStay DEF LinkIInv
  <2> QED  BY <2>1, <2>2
<1> QED  BY <1>3, <1>4, <1>5, <1>6 DEF LinkIInv

\* An event more in a list of CPU2's: the first of all says that CPU2 is ready.
LEMMA SendsKeeps ==
  ASSUME IInv, LinkIInv, NEW c \in RX, Cpu2Sends(c)
  PROVE  LinkIInv'
<1>1. PICK e \in Sendable(c) : posted' = [posted EXCEPT ![c] = Append(@, e)]
  BY DEF Cpu2Sends
<1>2. /\ UNCHANGED <<frames, paused, asynch, advertised, stopped, open, evt_set, tasks, flag, cpu2_sys,
                     local_free, free_list>>
      /\ events' = events + 1 /\ cpu2_free' = cpu2_free - 1 /\ cpu2_free > 0
  BY DEF Cpu2Sends, mailbox, sequencer, cpu2, outcome
<1>t. /\ DOMAIN posted = RX /\ \A d \in RX : posted[d] \in Seq(EVENTS(d)) /\ events \in Nat
      /\ "sys_evt" \in RX /\ "ble_evt" \in RX
  BY DEF LinkIInv, TypesInv, RX
<1>3. /\ e \in EVENTS(c) /\ (e = "ready" => c = "sys_evt" /\ events = 0)
      /\ (e = "link" => c = "ble_evt" /\ advertised)
  BY DEF Sendable, EVENTS, RX
<1>4. /\ posted'[c] = Append(posted[c], e) /\ (\A d \in RX : d # c => posted'[d] = posted[d])
      /\ DOMAIN posted' = RX
  BY <1>1, <1>t
<1>5. /\ Append(posted[c], e) \in Seq(EVENTS(c)) /\ Len(posted[c]) \in Nat
      /\ Len(Append(posted[c], e)) = Len(posted[c]) + 1
      /\ \A k \in 1 .. Len(posted[c]) : Append(posted[c], e)[k] = posted[c][k]
      /\ Append(posted[c], e)[Len(posted[c]) + 1] = e
  BY <1>3, <1>t, AppendProperties, LenProperties
<1>6. /\ Len(posted'[c]) = Len(posted[c]) + 1
      /\ \A k \in 1 .. Len(posted'[c]) :
           \/ k \in 1 .. Len(posted[c]) /\ posted'[c][k] = posted[c][k]
           \/ k = Len(posted[c]) + 1 /\ posted'[c][k] = e
  BY <1>4, <1>5
<1>7. TypesInv'
  <2>1. \A d \in RX : posted'[d] \in Seq(EVENTS(d)) /\ asynch'[d] \in Seq(EVENTS(d))
    BY <1>2, <1>4, <1>5 DEF LinkIInv, TypesInv
  <2> QED  BY <1>2, <1>4, <2>1 DEF LinkIInv, TypesInv, EVENTS
<1>8. TasksInv'
  BY <1>2, TasksStay DEF LinkIInv
<1>9. SysCmdInv'
  BY <1>2, SysCmdStays DEF LinkIInv
<1>10. StartInv'
  <2> DEFINE P == posted["sys_evt"]
             Q == posted'["sys_evt"]
  <2>1. \A k \in 1 .. Len(Q) :
          \/ k \in 1 .. Len(P) /\ Q[k] = P[k]
          \/ k = Len(P) + 1 /\ (Q[k] = "ready" => events = 0)
    BY <1>3, <1>4, <1>6, <1>t
  <2>2. /\ \A k \in 1 .. Len(P) : P[k] = "ready" => k = 1 /\ asynch["sys_evt"] = << >>
        /\ \A k \in 1 .. Len(asynch["sys_evt"]) : asynch["sys_evt"][k] = "ready" => k = 1
        /\ events = 0 => P = << >> /\ asynch["sys_evt"] = << >>
        /\ ReadyIn(P) \/ ReadyIn(asynch["sys_evt"]) \/ events = 0 => ~advertised
        /\ ReadyIn(P) \/ ReadyIn(asynch["sys_evt"]) \/ events = 0 \/ advertised => NoStart
    BY DEF LinkIInv, StartInv, ReadyAhead
  <2>3. P = << >> => Len(P) = 0
    BY EmptySeq
  <2> HIDE DEF P, Q
  <2>4. \A k \in 1 .. Len(Q) : Q[k] = "ready" => k = 1 /\ asynch["sys_evt"] = << >>
    BY <2>1, <2>2, <2>3
  <2>5. ReadyIn(Q) => ReadyIn(P) \/ events = 0
    BY <2>1 DEF ReadyIn
  <2>6. ~ (events' = 0) /\ (NoStart <=> NoStart') /\ asynch' = asynch /\ advertised' = advertised
    BY <1>2, <1>t DEF NoStart
  <2>7. ReadyAhead' <=> ReadyIn(Q) \/ ReadyIn(asynch["sys_evt"])
    BY <1>2 DEF ReadyAhead, ReadyIn, Q
  <2> QED  BY <2>2, <2>4, <2>5, <2>6, <2>7 DEF StartInv, Q
<1>11. AskersInv'
  <2>1. \A k \in 1 .. Len(posted'["ble_evt"]) :
          \/ k \in 1 .. Len(posted["ble_evt"]) /\ posted'["ble_evt"][k] = posted["ble_evt"][k]
          \/ (posted'["ble_evt"][k] = "link" => advertised)
    BY <1>3, <1>4, <1>6, <1>t
  <2> QED  BY <1>2, <2>1 DEF LinkIInv, AskersInv, Asks
<1>12. BuffersInv'
  <2>1. Held("sys_evt")' = Held("sys_evt") /\ Held("ble_evt")' = Held("ble_evt")
    BY <1>2 DEF Held
  <2>2. \A d \in RX : Len(posted[d]) \in Nat /\ Len(asynch[d]) \in Nat
    BY LenProperties DEF LinkIInv, TypesInv
  <2>3. /\ Listed(c)' = Listed(c) + 1
        /\ \A d \in RX : d # c => Listed(d)' = Listed(d)
    <3> DEFINE p == Len(posted[c])
               a == Len(asynch[c])
               q == Len(posted'[c])
    <3>1. q = p + 1 /\ p \in Nat /\ a \in Nat
      BY <1>6, <2>2
    <3>2. Listed(c) = p + a /\ Listed(c)' = q + a
      BY <1>2 DEF Listed
    <3> HIDE DEF p, a, q
    <3>3. Listed(c)' = Listed(c) + 1
      BY <3>1, <3>2
    <3>4. \A d \in RX : d # c => Listed(d)' = Listed(d)
      BY <1>2, <1>4 DEF Listed
    <3> QED  BY <3>3, <3>4
  <2>z. /\ Held("sys_evt") \in Nat /\ Held("ble_evt") \in Nat
        /\ Listed("sys_evt") \in Nat /\ Listed("ble_evt") \in Nat
    BY <1>t, <2>2 DEF Held, Listed
  <2>4. WithTasks' = WithTasks + 1 /\ WithTasks \in Nat
    <3>1. CASE c = "sys_evt"
      <4>1. /\ Listed("sys_evt")' = Listed("sys_evt") + 1 /\ Held("sys_evt")' = Held("sys_evt") + 0
            /\ Listed("ble_evt")' = Listed("ble_evt") + 0 /\ Held("ble_evt")' = Held("ble_evt") + 0
        BY <1>t, <2>1, <2>z, <2>3, <3>1
      <4> QED  BY <1>7, <4>1, TasksHave DEF LinkIInv
    <3>2. CASE c = "ble_evt"
      <4>1. /\ Listed("sys_evt")' = Listed("sys_evt") + 0 /\ Held("sys_evt")' = Held("sys_evt") + 0
            /\ Listed("ble_evt")' = Listed("ble_evt") + 1 /\ Held("ble_evt")' = Held("ble_evt") + 0
        BY <1>t, <2>1, <2>z, <2>3, <3>2
      <4> QED  BY <1>7, <4>1, TasksHave DEF LinkIInv
    <3> QED  BY <3>1, <3>2 DEF RX
  <2>5. local_free \in Nat /\ free_list \in Nat /\ cpu2_free \in Nat
    BY DEF LinkIInv, BuffersInv
  <2> QED  BY <1>2, <2>4, <2>5, MovedBuffers DEF LinkIInv
<1> QED  BY <1>7, <1>8, <1>9, <1>10, <1>11, <1>12 DEF LinkIInv

\* The interrupt empties a list into the queue of its task.
LEMMA DrainKeeps ==
  ASSUME IInv, LinkIInv, NEW c \in RX, Drain(c)
  PROVE  LinkIInv'
<1>1. /\ asynch' = [asynch EXCEPT ![c] = @ \o posted[c]] /\ posted' = [posted EXCEPT ![c] = << >>]
      /\ UNCHANGED <<frames, paused, advertised, stopped, open, flag, cpu2_sys, events,
                     local_free, free_list, cpu2_free>>
      /\ tasks' \subseteq tasks \cup {c}
      /\ evt_set' \in {evt_set, evt_set \cup {"hci"}}
  BY DEF Drain, cpu2, outcome, bounds, buffers
<1>t. /\ DOMAIN posted = RX /\ DOMAIN asynch = RX
      /\ \A d \in RX : posted[d] \in Seq(EVENTS(d)) /\ asynch[d] \in Seq(EVENTS(d))
      /\ "sys_evt" \in RX /\ "ble_evt" \in RX
  BY DEF LinkIInv, TypesInv, RX
<1>2. /\ posted'[c] = << >> /\ (\A d \in RX : d # c => posted'[d] = posted[d]) /\ DOMAIN posted' = RX
      /\ asynch'[c] = asynch[c] \o posted[c] /\ (\A d \in RX : d # c => asynch'[d] = asynch[d])
      /\ DOMAIN asynch' = RX
  BY <1>1, <1>t
<1>3. /\ asynch[c] \o posted[c] \in Seq(EVENTS(c)) /\ Len(posted[c]) \in Nat /\ Len(asynch[c]) \in Nat
      /\ Len(asynch[c] \o posted[c]) = Len(asynch[c]) + Len(posted[c])
      /\ \A k \in 1 .. Len(asynch[c]) + Len(posted[c]) :
           (asynch[c] \o posted[c])[k] = IF k <= Len(asynch[c]) THEN asynch[c][k]
                                         ELSE posted[c][k - Len(asynch[c])]
  BY <1>t, ConcatProperties, LenProperties
<1>e. << >> \in Seq(EVENTS(c)) /\ Len(<< >>) = 0
  BY EmptySeq
<1>4. /\ Len(asynch'[c]) = Len(asynch[c]) + Len(posted[c]) /\ Len(posted'[c]) = 0
      /\ \A k \in 1 .. Len(asynch'[c]) :
           \/ k \in 1 .. Len(asynch[c]) /\ asynch'[c][k] = asynch[c][k]
           \/ k - Len(asynch[c]) \in 1 .. Len(posted[c]) /\ asynch'[c][k] = posted[c][k - Len(asynch[c])]
  <2> DEFINE A == asynch[c]
             P == posted[c]
             B == asynch'[c]
             m == Len(A)
             n == Len(P)
  <2>1. m \in Nat /\ n \in Nat /\ Len(B) = m + n
    BY <1>2, <1>3
  <2>2. \A k \in 1 .. m + n : B[k] = IF k <= m THEN A[k] ELSE P[k - m]
    BY <1>2, <1>3
  <2>3. Len(posted'[c]) = 0
    BY <1>2, <1>e
  <2> HIDE DEF A, P, B, m, n
  <2>4. \A k \in 1 .. Len(B) : (k \in 1 .. m /\ B[k] = A[k]) \/ (k - m \in 1 .. n /\ B[k] = P[k - m])
    <3> TAKE k \in 1 .. Len(B)
    <3>1. k \in 1 .. m \/ (k - m \in 1 .. n /\ ~(k <= m))
      BY <2>1
    <3>2. k \in 1 .. m => k <= m
      BY <2>1
    <3>3. k \in 1 .. m + n
      BY <2>1
    <3> QED  BY <2>2, <3>1, <3>2, <3>3
  <2> QED  BY <2>1, <2>3, <2>4 DEF A, P, B, m, n
<1>5. TypesInv'
  <2>1. \A d \in RX : posted'[d] \in Seq(EVENTS(d)) /\ asynch'[d] \in Seq(EVENTS(d))
    BY <1>2, <1>3, <1>e, <1>t
  <2> QED  BY <1>1, <1>2, <2>1 DEF LinkIInv, TypesInv, EVENTS
<1>6. TasksInv'
  BY <1>1, TasksStay DEF LinkIInv
<1>7. SysCmdInv'
  BY <1>1, SysCmdStays DEF LinkIInv
<1>8. StartInv'
  <2>1. CASE c # "sys_evt"
    <3>1. posted'["sys_evt"] = posted["sys_evt"] /\ asynch'["sys_evt"] = asynch["sys_evt"]
      BY <1>2, <1>t, <2>1
    <3> QED  BY <1>1, <3>1 DEF LinkIInv, StartInv, ReadyAhead, ReadyIn, NoStart
  <2>2. CASE c = "sys_evt"
    <3> DEFINE P == posted["sys_evt"]
               A == asynch["sys_evt"]
               B == asynch'["sys_evt"]
    <3>1. /\ Len(B) = Len(A) + Len(P) /\ Len(A) \in Nat /\ Len(P) \in Nat /\ Len(posted'["sys_evt"]) = 0
          /\ posted'["sys_evt"] = << >>
          /\ \A k \in 1 .. Len(B) :
               \/ k \in 1 .. Len(A) /\ B[k] = A[k]
               \/ k - Len(A) \in 1 .. Len(P) /\ B[k] = P[k - Len(A)]
      BY <1>2, <1>3, <1>4, <2>2
    <3>2. /\ \A k \in 1 .. Len(P) : P[k] = "ready" => k = 1 /\ A = << >>
          /\ \A k \in 1 .. Len(A) : A[k] = "ready" => k = 1
          /\ events = 0 => P = << >> /\ A = << >>
          /\ ReadyIn(P) \/ ReadyIn(A) \/ events = 0 => ~advertised
          /\ ReadyIn(P) \/ ReadyIn(A) \/ events = 0 \/ advertised => NoStart
      BY DEF LinkIInv, StartInv, ReadyAhead
    <3>3. (A = << >> => Len(A) = 0) /\ (P = << >> => Len(P) = 0) /\ B \in Seq(EVENTS(c))
      BY <1>2, <1>3, <2>2, EmptySeq
    <3> HIDE DEF P, A, B
    <3>4. \A k \in 1 .. Len(B) : B[k] = "ready" => k = 1
      BY <3>1, <3>2, <3>3
    <3>5. ReadyIn(B) => ReadyIn(P) \/ ReadyIn(A)
      BY <3>1 DEF ReadyIn
    <3>6. events = 0 => B = << >>
      BY <3>1, <3>2, <3>3, EmptySeq
    <3>7. ReadyAhead' <=> ReadyIn(B)
      BY <3>1 DEF ReadyAhead, ReadyIn, B
    <3>8. (NoStart <=> NoStart') /\ events' = events /\ advertised' = advertised
      BY <1>1 DEF NoStart
    <3> QED  BY <3>1, <3>2, <3>4, <3>5, <3>6, <3>7, <3>8 DEF StartInv, B
  <2> QED  BY <2>1, <2>2
<1>9. AskersInv'
  <2>1. ASSUME ~advertised
        PROVE  /\ \A k \in 1 .. Len(posted'["ble_evt"]) : posted'["ble_evt"][k] # "link"
               /\ \A k \in 1 .. Len(asynch'["ble_evt"]) : asynch'["ble_evt"][k] # "link"
    <3>1. /\ \A k \in 1 .. Len(posted["ble_evt"]) : posted["ble_evt"][k] # "link"
          /\ \A k \in 1 .. Len(asynch["ble_evt"]) : asynch["ble_evt"][k] # "link"
      BY <2>1 DEF LinkIInv, AskersInv
    <3>2. CASE c = "ble_evt"
      <4> DEFINE A == asynch[c]
                 B == asynch'[c]
                 P == posted[c]
      <4>1. \A k \in 1 .. Len(P) : P[k] # "link"
        BY <3>1, <3>2
      <4>2. \A k \in 1 .. Len(B) : (k \in 1 .. Len(A) /\ B[k] = A[k])
                                  \/ (k - Len(A) \in 1 .. Len(P) /\ B[k] = P[k - Len(A)])
        BY <1>4
      <4>3. \A k \in 1 .. Len(A) : A[k] # "link"
        BY <3>1, <3>2
      <4> HIDE DEF A, B, P
      <4>4. \A k \in 1 .. Len(B) : B[k] # "link"
        BY <4>1, <4>2, <4>3
      <4>5. posted'[c] = << >>
        BY <1>2
      <4> QED  BY <3>2, <4>4, <4>5, EmptySeq DEF B
    <3>3. CASE c # "ble_evt"
      BY <1>2, <1>t, <3>1, <3>3
    <3> QED  BY <3>2, <3>3
  <2>2. "adv_cancel" \in tasks' => "adv_cancel" \in tasks
    BY <1>1 DEF RX
  <2> QED  BY <1>1, <2>1, <2>2 DEF LinkIInv, AskersInv, Asks
<1>10. BuffersInv'
  <2>1. Held("sys_evt")' = Held("sys_evt") /\ Held("ble_evt")' = Held("ble_evt")
    BY <1>1 DEF Held
  <2>2. \A d \in RX : Len(posted'[d]) + Len(asynch'[d]) = Len(posted[d]) + Len(asynch[d])
    <3> TAKE d \in RX
    <3>1. CASE d = c
      <4> DEFINE m == Len(asynch[c])
                 n == Len(posted[c])
      <4>1. m \in Nat /\ n \in Nat /\ Len(asynch'[c]) = m + n /\ Len(posted'[c]) = 0
        BY <1>3, <1>4
      <4> HIDE DEF m, n
      <4>2. Len(posted'[c]) + Len(asynch'[c]) = n + m
        BY <4>1
      <4> QED  BY <3>1, <4>2 DEF m, n
    <3>2. CASE d # c
      BY <1>2, <3>2
    <3> QED  BY <3>1, <3>2
  <2>3. Listed("sys_evt")' = Listed("sys_evt") /\ Listed("ble_evt")' = Listed("ble_evt")
    BY <1>t, <2>2 DEF Listed
  <2>4. WithTasks' = WithTasks
    BY <2>1, <2>3 DEF WithTasks
  <2> QED  BY <1>1, <2>4 DEF LinkIInv, BuffersInv
<1> QED  BY <1>5, <1>6, <1>7, <1>8, <1>9, <1>10 DEF LinkIInv

\* The other steps of the mailbox interrupts: a command's answer releases its wait,
\* and free buffers go to CPU2's list.
LEMMA InterruptKeeps ==
  ASSUME IInv, LinkIInv,
         RxInterrupt \/ TxInterrupt \/ FreeBufCb \/ FreeBufSetFlag \/ (\E c \in RX : ClearFlag(c))
  PROVE  LinkIInv'
<1>f. flag \in [CHANNELS -> BOOLEAN]
  BY DEF IInv
<1>1. /\ UNCHANGED <<frames, paused, posted, asynch, events, advertised, stopped, tasks, cpu2_sys, cpu2_free>>
      /\ open' \subseteq open /\ evt_set' \subseteq evt_set \cup {"sys"}
      /\ flag'["sys_cmd"] = flag["sys_cmd"]
  BY <1>f DEF RxInterrupt, TxInterrupt, FreeBufCb, FreeBufSetFlag, ClearFlag, mailbox, queues, sequencer,
          outcome, bounds, buffers, cpu2, RX, CHANNELS
<1>2. TypesInv'
  BY <1>1 DEF LinkIInv, TypesInv
<1>3. TasksInv' /\ StartInv' /\ AskersInv'
  BY <1>1, TasksStay, StartStays, AskersStay DEF LinkIInv
<1>4. SysCmdInv'
  <2>1. CASE TxInterrupt /\ "sys_cmd" \in TxPending
    <3>1. open' = open \ {"sys_cmd"} /\ evt_set' = evt_set \cup {"sys"}
      BY <2>1 DEF TxInterrupt
    <3>2. "sys_cmd" \in open /\ ~flag["sys_cmd"]
      BY <2>1 DEF TxPending
    <3> QED  BY <1>1, <3>1, <3>2 DEF LinkIInv, SysCmdInv
  <2>2. CASE ~(TxInterrupt /\ "sys_cmd" \in TxPending)
    <3>1. evt_set' = evt_set
      BY <2>2 DEF RxInterrupt, TxInterrupt, FreeBufCb, FreeBufSetFlag, ClearFlag, queues, sequencer
    <3> QED  BY <1>1, <3>1, SysCmdStays DEF LinkIInv
  <2> QED  BY <2>1, <2>2
<1>5. BuffersInv'
  <2>1. CASE FreeBufCb
    <3>1. free_list' = free_list + local_free /\ local_free' = 0
      BY <2>1 DEF FreeBufCb, MoveBuffers
    <3>2. WithTasks' = WithTasks /\ WithTasks \in Nat
      BY <1>1, <1>2, TasksHold, TasksHave DEF LinkIInv
    <3>3. local_free \in Nat /\ free_list \in Nat /\ cpu2_free \in Nat
      BY DEF LinkIInv, BuffersInv
    <3> QED  BY <1>1, <3>1, <3>2, <3>3, MovedBuffers DEF LinkIInv
  <2>2. CASE ~FreeBufCb
    <3>1. UNCHANGED <<local_free, free_list>>
      BY <2>2 DEF RxInterrupt, TxInterrupt, FreeBufSetFlag, ClearFlag, buffers
    <3> QED  BY <1>1, <3>1, BuffersStay DEF LinkIInv
  <2> QED  BY <2>1, <2>2
<1> QED  BY <1>2, <1>3, <1>4, <1>5 DEF LinkIInv

-----------------------------------------------------------------------------
(* The steps of the topmost frame.                                         *)

\* Of the frames at work on a system command there is only one.
LEMMA OneStarts ==
  ASSUME IInv, TasksInv, frames # << >>, Top.pc \in SYS_PCS,
         NEW i \in 1 .. Len(frames), frames[i].pc \in SYS_PCS
  PROVE  i = Len(frames)
<1> DEFINE n == Len(frames)
<1>1. n \in Nat \ {0} /\ Top = frames[n] /\ n \in 1 .. n
  BY TopIsOK
<1>2. ASSUME NEW j \in 1 .. n, frames[j].pc \in SYS_PCS
      PROVE  frames[j].task = "sys_evt"
  <2>1. /\ frames[j].todo # << >> /\ frames[j].todo \in Seq(WORK)
        /\ frames[j].todo[1] \in {"sys", "ble_init"} /\ TodoOK(frames[j].task, frames[j].todo)
    <3>1. frames[j] \in FRAME /\ frames[j].todo # << >>
      BY <1>2, ElementOfSeq DEF IInv, StackInv, SYS_PCS, BUSY, WAITING
    <3> QED  BY <1>2, <3>1 DEF TasksInv, FrameOK, FRAME
  <2>2. 1 \in 1 .. Len(frames[j].todo)
    BY <2>1, Rest
  <2> QED  BY <2>1, <2>2 DEF TodoOK, STARTING
<1>3. \A k, m \in 1 .. n : k < m => frames[k].task # frames[m].task
  BY DEF TasksInv
<1> HIDE DEF n
<1>4. i \in 1 .. n /\ (i = n \/ i < n)
  BY <1>1 DEF n
<1> QED  BY <1>1, <1>2, <1>3, <1>4 DEF n

\* A step of the topmost frame that leaves the events alone keeps the tasks in
\* order and what is known of the start-up and of those that ask.
LEMMA TopKeeps ==
  ASSUME IInv, LinkIInv, frames # << >>, NEW p, NEW t, TopGoes(p, t), NoMore(t),
         TodoOK(Top.task, t),
         p = "hci_wait" => t[1] = "hci", p \in SYS_PCS => t[1] \in {"sys", "ble_init"},
         \A i \in 1 .. Len(frames') : frames'[i].pc = "hci_wait" => WITH_HCICMD \subseteq paused',
         UNCHANGED <<posted, asynch, events, advertised, tasks>>
  PROVE  TasksInv' /\ StartInv' /\ AskersInv'
<1>1. TasksInv'
  BY TopTasks DEF LinkIInv
<1>2. StartInv'
  <2>1. NoStart => NoStart'
    BY TopStarts DEF LinkIInv
  <2>2. ReadyAhead' <=> ReadyAhead
    BY DEF ReadyAhead, ReadyIn
  <2> QED  BY <2>1, <2>2 DEF LinkIInv, StartInv
<1>3. AskersInv'
  <2>1. (\A i \in 1 .. Len(frames) : frames[i].task # "sys_evt" => ~ Asks(frames[i])) =>
          (\A i \in 1 .. Len(frames') : frames'[i].task # "sys_evt" => ~ Asks(frames'[i]))
    BY TopStarts DEF LinkIInv
  <2>2. (\A i \in 1 .. Len(frames') : frames'[i].task # "sys_evt" => ~ Asks(frames'[i]))
          => (\A i \in 1 .. Len(frames) : frames[i].task # "sys_evt" => ~ Asks(frames[i]))'
    BY DEF Asks
  <2> QED  BY <2>1, <2>2 DEF LinkIInv, AskersInv
<1> QED  BY <1>1, <1>2, <1>3

\* It concerns no wait for a system command unless it starts or ends one.
LEMMA TopSysCmd ==
  ASSUME IInv, LinkIInv, frames # << >>, NEW p, NEW t, TopGoes(p, t),
         Top.pc \notin {"sys_mask", "sys_wait"}, p \notin {"sys_mask", "sys_wait"},
         flag'["sys_cmd"] = flag["sys_cmd"], cpu2_sys' = cpu2_sys,
         "sys_cmd" \in open' => "sys_cmd" \in open,
         "sys" \in evt_set' => "sys" \in evt_set
  PROVE  SysCmdInv'
<1>1. (\E i \in 1 .. Len(frames) : frames[i].pc = "sys_mask") <=>
        (\E i \in 1 .. Len(frames') : frames'[i].pc = "sys_mask")
  BY TopWaits DEF LinkIInv
<1>2. (\E i \in 1 .. Len(frames) : frames[i].pc = "sys_wait") <=>
        (\E i \in 1 .. Len(frames') : frames'[i].pc = "sys_wait")
  BY TopWaits DEF LinkIInv
<1> QED  BY <1>1, <1>2 DEF LinkIInv, SysCmdInv

\* The tasks have as many buffers as before if the topmost frame still has its own.
LEMMA TopBuffers ==
  ASSUME IInv, LinkIInv, frames # << >>, NEW p, NEW t, TopGoes(p, t),
         Top.task \in RX => (t # << >> <=> Top.todo # << >>),
         UNCHANGED <<posted, asynch>>
  PROVE  WithTasks' = WithTasks
<1>1. Held("sys_evt")' = Held("sys_evt") /\ Held("ble_evt")' = Held("ble_evt")
  BY TopHolds DEF LinkIInv, RX
<1>2. Listed("sys_evt")' = Listed("sys_evt") /\ Listed("ble_evt")' = Listed("ble_evt")
  BY DEF Listed
<1> QED  BY <1>1, <1>2 DEF WithTasks

\* A task that handles an event has more to do after every step but the last.
LEMMA StillHolds ==
  ASSUME IInv, TasksInv, frames # << >>, Top.todo # << >>, Head(Top.todo) # "done",
         Top.task \in RX
  PROVE  Tail(Top.todo) # << >>
<1> DEFINE w == Top.todo
           t == Tail(w)
<1>1. w \in Seq(WORK) /\ w[Len(w)] = "done"
  BY TopIsOK DEF FrameOK, TodoOK
<1>2. Len(w) \in Nat \ {0} /\ Len(t) = Len(w) - 1 /\ w[1] # "done"
  BY <1>1, Rest
<1> HIDE DEF w, t
<1>3. Len(t) # 0
  BY <1>1, <1>2
<1> QED  BY <1>3, EmptySeq DEF w, t

\* Going on to a place where nobody waits for an answer, with the same to do.
LEMMA GotoKeeps ==
  ASSUME IInv, LinkIInv, frames # << >>, NEW p \in PCS, Goto(p),
         p \in SYS_PCS => Top.todo # << >> /\ Head(Top.todo) \in {"sys", "ble_init"},
         p = "hci_wait" => Top.todo # << >> /\ Head(Top.todo) = "hci" /\ WITH_HCICMD \subseteq paused',
         p = "hci_wait" \/ paused' = paused,
         UNCHANGED <<posted, asynch, events, advertised, tasks>>
  PROVE  /\ TopGoes(p, Top.todo) /\ TasksInv' /\ StartInv' /\ AskersInv'
         /\ WithTasks' = WithTasks
<1> DEFINE n == Len(frames)
<1>1. StackInv /\ TasksInv
  BY DEF IInv, LinkIInv
<1>2. TopGoes(p, Top.todo) /\ NoMore(Top.todo)
  BY <1>1, GotoGoes
<1>3. FrameOK(Top) /\ Top.todo \in Seq(WORK) /\ n \in Nat \ {0} /\ Top = frames[n]
  BY <1>1, TopIsOK
<1>4. Top.todo # << >> => Head(Top.todo) = Top.todo[1]
  BY <1>3, Rest
<1>5. \A i \in 1 .. Len(frames') : frames'[i].pc = "hci_wait" => WITH_HCICMD \subseteq paused'
  <2>1. /\ Len(frames') = n /\ \A i \in 1 .. n - 1 : frames'[i] = frames[i]
        /\ frames'[n].pc = p
    BY <1>2 DEF TopGoes
  <2>2. \A i \in 1 .. n : frames[i].pc = "hci_wait" => WITH_HCICMD \subseteq paused
    BY <1>1 DEF TasksInv
  <2> HIDE DEF n
  <2>3. \A i \in 1 .. n : i = n \/ i \in 1 .. n - 1
    BY <1>3
  <2> QED  BY <1>3, <2>1, <2>2, <2>3
<1>6. TasksInv' /\ StartInv' /\ AskersInv'
  <2>1. TodoOK(Top.task, Top.todo)
    BY <1>3 DEF FrameOK
  <2> DEFINE t == Top.todo
  <2>2. TopGoes(p, t) /\ NoMore(t) /\ TodoOK(Top.task, t)
    BY <1>2, <2>1
  <2>3. /\ p = "hci_wait" => t[1] = "hci"
        /\ p \in SYS_PCS => t[1] \in {"sys", "ble_init"}
    BY <1>4
  <2> HIDE DEF t
  <2> QED  BY <1>5, <2>2, <2>3, TopKeeps
<1>7. WithTasks' = WithTasks
  BY <1>2, TopBuffers
<1> QED  BY <1>2, <1>6, <1>7

\* Going on to the next thing to do, which gives no buffer back.
LEMMA AdvanceKeeps ==
  ASSUME IInv, LinkIInv, frames # << >>, Top.todo # << >>, Head(Top.todo) # "done",
         Advance("run"), UNCHANGED <<posted, asynch, events, advertised, tasks>>,
         \A i \in 1 .. Len(frames) - 1 : frames[i].pc = "hci_wait" => WITH_HCICMD \subseteq paused'
  PROVE  /\ TopGoes("run", Tail(Top.todo)) /\ TasksInv' /\ StartInv' /\ AskersInv'
         /\ WithTasks' = WithTasks
<1> DEFINE n == Len(frames)
           t == Tail(Top.todo)
<1>1. StackInv /\ TasksInv
  BY DEF IInv, LinkIInv
<1>2. TopGoes("run", t) /\ NoMore(t)
  BY <1>1, AdvanceGoes DEF PCS
<1>3. FrameOK(Top) /\ Top.todo \in Seq(WORK) /\ n \in Nat \ {0}
  BY <1>1, TopIsOK
<1>4. TodoOK(Top.task, t)
  BY <1>3, TodoRest DEF FrameOK
<1>5. Top.task \in RX => (t # << >> <=> Top.todo # << >>)
  BY <1>1, StillHolds
<1> HIDE DEF t
<1>6. \A i \in 1 .. Len(frames') : frames'[i].pc = "hci_wait" => WITH_HCICMD \subseteq paused'
  <2>1. /\ Len(frames') = n /\ \A i \in 1 .. n - 1 : frames'[i] = frames[i]
        /\ frames'[n].pc = "run"
    BY <1>2 DEF TopGoes
  <2>2. \A i \in 1 .. n - 1 : frames[i].pc = "hci_wait" => WITH_HCICMD \subseteq paused'
    OBVIOUS
  <2> HIDE DEF n
  <2>3. \A i \in 1 .. n : i = n \/ i \in 1 .. n - 1
    BY <1>3
  <2> QED  BY <2>1, <2>2, <2>3
<1>7. TasksInv' /\ StartInv' /\ AskersInv'
  BY <1>2, <1>4, <1>6, TopKeeps DEF SYS_PCS
<1>8. WithTasks' = WithTasks
  BY <1>2, <1>5, TopBuffers
<1> QED  BY <1>2, <1>7, <1>8 DEF t

\* Sending a system command, and setting its flag.
LEMMA SendSysKeeps ==
  ASSUME IInv, LinkIInv, NEW x \in {"sys", "ble_init"}, SendSys(x)
  PROVE  LinkIInv'
<1>1. /\ frames # << >> /\ Top.pc = "run" /\ Top.todo # << >> /\ Head(Top.todo) = x
      /\ Goto("sys_flag")
  BY DEF SendSys, Does, At, SYS_SENDS
<1>2. /\ UNCHANGED <<posted, asynch, events, advertised, stopped, tasks, paused, evt_set, open, flag, cpu2_sys,
                     local_free, free_list, cpu2_free>>
  BY DEF SendSys, mailbox, queues, sequencer, buffers, cpu2, outcome, bounds
<1>3. /\ TopGoes("sys_flag", Top.todo) /\ TasksInv' /\ StartInv' /\ AskersInv'
      /\ WithTasks' = WithTasks
  BY <1>1, <1>2, GotoKeeps DEF PCS, BUSY
<1>4. SysCmdInv'
  BY <1>1, <1>2, <1>3, TopSysCmd
<1>5. TypesInv' /\ BuffersInv'
  BY <1>2, <1>3 DEF LinkIInv, TypesInv, BuffersInv
<1> QED  BY <1>3, <1>4, <1>5 DEF LinkIInv

\* What a frame below the topmost one waits for.
LEMMA PausedBelow ==
  ASSUME IInv, TasksInv, frames # << >>, paused' = paused
  PROVE  \A i \in 1 .. Len(frames) - 1 : frames[i].pc = "hci_wait" => WITH_HCICMD \subseteq paused'
<1> DEFINE n == Len(frames)
<1>1. n \in Nat \ {0}
  BY TopIsOK
<1>2. \A i \in 1 .. n : frames[i].pc = "hci_wait" => WITH_HCICMD \subseteq paused
  BY DEF TasksInv
<1> HIDE DEF n
<1>3. \A i \in 1 .. n - 1 : i \in 1 .. n
  BY <1>1
<1> QED  BY <1>2, <1>3 DEF n

\* None does for the answer of an HCI command while the topmost one would send one.
LEMMA AskedBelow ==
  ASSUME IInv, TasksInv, frames # << >>, Asks(Top)
  PROVE  \A i \in 1 .. Len(frames) - 1 : frames[i].pc # "hci_wait"
<1> DEFINE n == Len(frames)
<1>1. n \in Nat \ {0} /\ Top = frames[n]
  BY TopIsOK
<1>2. \A i, j \in 1 .. n : i < j /\ frames[i].pc = "hci_wait" => ~ Asks(frames[j])
  BY DEF TasksInv
<1> HIDE DEF n
<1>3. \A i \in 1 .. n - 1 : i \in 1 .. n /\ n \in 1 .. n /\ i < n
  BY <1>1
<1> QED  BY <1>1, <1>2, <1>3 DEF n

\* CPU2 is given the system command, its answer let through, and the wait ends.
LEMMA SysKeeps ==
  ASSUME IInv, LinkIInv, SysSetFlag \/ SysEnableTransmit \/ SysAnswered
  PROVE  LinkIInv'
<1> DEFINE n == Len(frames)
<1>1. frames # << >> /\ Top.pc \in SYS_PCS /\ (SysAnswered => Top.pc = "sys_wait")
      /\ (SysSetFlag => Top.pc = "sys_flag") /\ (SysEnableTransmit => Top.pc = "sys_mask")
  BY DEF SysSetFlag, SysEnableTransmit, SysAnswered, At, SYS_PCS
<1>2. /\ Top.todo # << >> /\ Head(Top.todo) \in {"sys", "ble_init"}
      /\ n \in Nat \ {0} /\ Top = frames[n] /\ n \in 1 .. n
  <2>1. TasksInv
    BY DEF LinkIInv
  <2>2. /\ FrameOK(Top) /\ Top.todo \in Seq(WORK) /\ n \in Nat \ {0} /\ Top = frames[n] /\ n \in 1 .. n
    BY <1>1, <2>1, TopIsOK
  <2>3. Top.todo # << >>
    BY <1>1, <2>2 DEF IInv, StackInv, SYS_PCS, BUSY, WAITING
  <2>4. Head(Top.todo) = Top.todo[1]
    BY <2>2, <2>3, Rest
  <2> QED  BY <1>1, <2>2, <2>3, <2>4 DEF FrameOK
<1>3. \A i \in 1 .. n : frames[i].pc \in SYS_PCS => i = n
  BY <1>1, OneStarts DEF LinkIInv
<1>4. UNCHANGED <<posted, asynch, events, advertised, tasks, paused, local_free, free_list, cpu2_free>>
  BY DEF SysSetFlag, SysEnableTransmit, SysAnswered, mailbox, queues, sequencer, buffers, cpu2,
         outcome, bounds
<1>5. ASSUME NEW p \in {"sys_mask", "sys_wait", "run"}, NEW t, TopGoes(p, t)
      PROVE  \A i \in 1 .. Len(frames') : frames'[i].pc \in SYS_PCS => i = n /\ p # "run" /\ frames'[i].pc = p
  <2>1. /\ Len(frames') = n /\ \A i \in 1 .. n - 1 : frames'[i] = frames[i]
        /\ frames'[n].pc = p
    BY <1>5 DEF TopGoes
  <2> HIDE DEF n
  <2>2. \A i \in 1 .. n : i = n \/ (i \in 1 .. n - 1 /\ i # n)
    BY <1>2
  <2> QED  BY <1>2, <1>3, <2>1, <2>2 DEF SYS_PCS
<1>6. CASE SysSetFlag
  <2>1. /\ Goto("sys_mask") /\ flag' = [flag EXCEPT !["sys_cmd"] = TRUE] /\ UNCHANGED <<open, evt_set, stopped>>
    BY <1>6 DEF SysSetFlag, SysThen, SYS_SENDS, sequencer, outcome
  <2>2. /\ TopGoes("sys_mask", Top.todo) /\ TasksInv' /\ StartInv' /\ AskersInv' /\ WithTasks' = WithTasks
    BY <1>1, <1>2, <1>4, <2>1, GotoKeeps DEF PCS, BUSY
  <2>3. "sys" \notin evt_set /\ "sys_cmd" \notin open
    BY <1>1, <1>2, <1>3, <1>6 DEF LinkIInv, SysCmdInv, SYS_PCS
  <2>4. flag'["sys_cmd"]
    BY <2>1 DEF IInv, CHANNELS
  <2>5. SysCmdInv'
    BY <2>1, <2>3, <2>4 DEF SysCmdInv
  <2>6. TypesInv' /\ BuffersInv'
    BY <1>4, <2>1, <2>2 DEF LinkIInv, TypesInv, BuffersInv
  <2> QED  BY <2>2, <2>5, <2>6 DEF LinkIInv
<1>7. CASE SysEnableTransmit
  <2>1. /\ Goto("sys_wait") /\ open' = open \cup {"sys_cmd"} /\ UNCHANGED <<flag, evt_set, stopped, cpu2_sys>>
    BY <1>7 DEF SysEnableTransmit, SysThen, SYS_SENDS, sequencer, outcome, cpu2
  <2>2. /\ TopGoes("sys_wait", Top.todo) /\ TasksInv' /\ StartInv' /\ AskersInv' /\ WithTasks' = WithTasks
    BY <1>1, <1>2, <1>4, <2>1, GotoKeeps DEF PCS, BUSY, WAITING
  <2>3. "sys" \notin evt_set /\ (flag["sys_cmd"] \/ cpu2_sys \in {"answered", "refused"})
    BY <1>1, <1>2, <1>3, <1>7 DEF LinkIInv, SysCmdInv, SYS_PCS
  <2>4. \E i \in 1 .. Len(frames') : frames'[i].pc = "sys_wait"
    BY <1>2, <2>2 DEF TopGoes
  <2>5. SysCmdInv'
    BY <2>1, <2>3, <2>4 DEF SysCmdInv
  <2>6. TypesInv' /\ BuffersInv'
    BY <1>4, <2>1, <2>2 DEF LinkIInv, TypesInv, BuffersInv, CHANNELS
  <2> QED  BY <2>2, <2>5, <2>6 DEF LinkIInv
<1>8. CASE SysAnswered
  <2>1. /\ Advance("run") /\ evt_set' = evt_set \ {"sys"} /\ "sys" \in evt_set /\ UNCHANGED open /\ stopped' \in BOOLEAN
    BY <1>8 DEF SysAnswered, mailbox
  <2>2. \A i \in 1 .. n - 1 : frames[i].pc = "hci_wait" => WITH_HCICMD \subseteq paused'
    BY <1>1, <1>4, PausedBelow DEF LinkIInv
  <2>3. /\ TopGoes("run", Tail(Top.todo)) /\ TasksInv' /\ StartInv' /\ AskersInv' /\ WithTasks' = WithTasks
    BY <1>1, <1>2, <1>4, <2>1, <2>2, AdvanceKeeps
  <2>4. \A i \in 1 .. Len(frames') : frames'[i].pc \notin SYS_PCS
    BY <1>5, <2>3
  <2>5. "sys_cmd" \notin open'
    BY <2>1 DEF LinkIInv, SysCmdInv
  <2>6. SysCmdInv'
    BY <2>1, <2>4, <2>5 DEF SysCmdInv, SYS_PCS
  <2>7. TypesInv' /\ BuffersInv'
    BY <1>4, <2>1, <2>3 DEF LinkIInv, TypesInv, BuffersInv
  <2> QED  BY <2>3, <2>6, <2>7 DEF LinkIInv
<1> QED  BY <1>6, <1>7, <1>8

\* The BLE channel is opened.
LEMMA OpenBleKeeps ==
  ASSUME IInv, LinkIInv, OpenBle
  PROVE  LinkIInv'
<1>1. /\ frames # << >> /\ Top.pc = "run" /\ Top.todo # << >> /\ Head(Top.todo) # "done"
      /\ Advance("run") /\ open' = open \cup {"ble_evt"}
      /\ UNCHANGED <<posted, asynch, events, advertised, stopped, tasks, paused, evt_set, flag, cpu2_sys,
                     local_free, free_list, cpu2_free>>
  BY DEF OpenBle, Does, At, queues, sequencer, buffers, cpu2, outcome, bounds
<1>2. \A i \in 1 .. Len(frames) - 1 : frames[i].pc = "hci_wait" => WITH_HCICMD \subseteq paused'
  BY <1>1, PausedBelow DEF LinkIInv
<1>3. /\ TopGoes("run", Tail(Top.todo)) /\ TasksInv' /\ StartInv' /\ AskersInv' /\ WithTasks' = WithTasks
  BY <1>1, <1>2, AdvanceKeeps
<1>4. SysCmdInv'
  BY <1>1, <1>3, TopSysCmd
<1>5. TypesInv' /\ BuffersInv'
  BY <1>1, <1>3 DEF LinkIInv, TypesInv, BuffersInv, CHANNELS, RX
<1> QED  BY <1>3, <1>4, <1>5 DEF LinkIInv

\* An HCI command is sent, and its answer taken from the queue.
LEMMA HciKeeps ==
  ASSUME IInv, LinkIInv, SendHci \/ HciAnswered
  PROVE  LinkIInv'
<1>f. flag \in [CHANNELS -> BOOLEAN]
  BY DEF IInv
<1>1. CASE SendHci
  <2>1. /\ frames # << >> /\ Top.pc = "run" /\ Top.todo # << >> /\ Head(Top.todo) = "hci"
        /\ Goto("hci_wait") /\ paused' = paused \cup WITH_HCICMD
        /\ flag'["sys_cmd"] = flag["sys_cmd"]
        /\ UNCHANGED <<posted, asynch, events, advertised, stopped, tasks, evt_set, open, cpu2_sys,
                       local_free, free_list, cpu2_free>>
    BY <1>1, <1>f DEF SendHci, Does, At, queues, buffers, cpu2, outcome, bounds
  <2>2. /\ TopGoes("hci_wait", Top.todo) /\ TasksInv' /\ StartInv' /\ AskersInv' /\ WithTasks' = WithTasks
    BY <2>1, GotoKeeps DEF PCS, BUSY, WAITING, SYS_PCS
  <2>3. SysCmdInv'
    BY <2>1, <2>2, TopSysCmd
  <2>4. TypesInv' /\ BuffersInv'
    BY <2>1, <2>2 DEF LinkIInv, TypesInv, BuffersInv, WITH_HCICMD, RX
  <2> QED  BY <2>2, <2>3, <2>4 DEF LinkIInv
<1>2. CASE HciAnswered /\ hci_rsp
  <2>1. /\ frames # << >> /\ Top.pc = "hci_wait" /\ Advance("run") /\ paused' = paused \ WITH_HCICMD
        /\ evt_set' = evt_set \ {"hci"}
        /\ UNCHANGED <<posted, asynch, events, advertised, stopped, tasks, flag, open, cpu2_sys,
                       local_free, free_list, cpu2_free>>
    BY <1>2 DEF HciAnswered, At, mailbox, buffers, cpu2, outcome, bounds
  <2>2. Top.todo # << >> /\ Head(Top.todo) = "hci" /\ Asks(Top)
    <3>1. TasksInv
      BY DEF LinkIInv
    <3>2. /\ FrameOK(Top) /\ Top.todo \in Seq(WORK) /\ Top = frames[Len(frames)] /\ Len(frames) \in 1 .. Len(frames)
      BY <2>1, <3>1, TopIsOK
    <3>3. Top.todo # << >>
      BY <2>1, <3>2 DEF IInv, StackInv, BUSY, WAITING
    <3>4. Head(Top.todo) = Top.todo[1] /\ 1 \in 1 .. Len(Top.todo)
      BY <3>2, <3>3, Rest
    <3> QED  BY <2>1, <3>2, <3>3, <3>4 DEF FrameOK, Asks
  <2>3. \A i \in 1 .. Len(frames) - 1 : frames[i].pc # "hci_wait"
    BY <2>1, <2>2, AskedBelow DEF LinkIInv
  <2>4. /\ TopGoes("run", Tail(Top.todo)) /\ TasksInv' /\ StartInv' /\ AskersInv' /\ WithTasks' = WithTasks
    BY <2>1, <2>2, <2>3, AdvanceKeeps
  <2>5. SysCmdInv'
    BY <2>1, <2>4, TopSysCmd
  <2>6. TypesInv' /\ BuffersInv'
    BY <2>1, <2>4 DEF LinkIInv, TypesInv, BuffersInv
  <2> QED  BY <2>4, <2>5, <2>6 DEF LinkIInv
<1>3. CASE HciAnswered /\ ~hci_rsp
  <2>1. /\ evt_set' = evt_set \ {"hci"}
        /\ UNCHANGED <<frames, paused, posted, asynch, events, advertised, stopped, tasks, flag, open, cpu2_sys,
                       local_free, free_list, cpu2_free>>
    BY <1>3 DEF HciAnswered, At, mailbox, buffers, cpu2, outcome, bounds
  <2>2. TypesInv'
    BY <2>1 DEF LinkIInv, TypesInv
  <2> QED  BY <2>1, <2>2, TasksStay, StartStays, AskersStay, BuffersStay, SysCmdStays DEF LinkIInv
<1> QED  BY <1>1, <1>2, <1>3

\* APP_BLE_Init reaches its end: what is left is to give the event back.
LEMMA AdvertisesKeeps ==
  ASSUME IInv, LinkIInv, Advertises
  PROVE  LinkIInv'
<1> DEFINE n == Len(frames)
           w == Top.todo
           t == Tail(w)
<1>1. /\ frames # << >> /\ Top.pc = "run" /\ w # << >> /\ Head(w) = "advertised"
      /\ Advance("run") /\ advertised'
      /\ UNCHANGED <<posted, asynch, events, stopped, tasks, paused, evt_set, open, flag, cpu2_sys,
                     local_free, free_list, cpu2_free>>
  BY DEF Advertises, Does, At, mailbox, queues, sequencer, buffers, cpu2, bounds
<1>2. TasksInv /\ StackInv
  BY DEF LinkIInv, IInv
<1>3. /\ n \in Nat \ {0} /\ Top = frames[n] /\ n \in 1 .. n
      /\ TodoOK(Top.task, w) /\ w \in Seq(WORK)
  BY <1>1, <1>2, TopIsOK DEF FrameOK
<1>4. /\ TopGoes("run", t) /\ NoMore(t) /\ TodoOK(Top.task, t)
  BY <1>1, <1>2, <1>3, AdvanceGoes, TodoRest DEF PCS
<1>5. /\ Len(w) \in Nat \ {0} /\ Len(t) = Len(w) - 1 /\ w[1] = "advertised"
      /\ \A k \in 1 .. Len(w) - 1 : t[k] = w[k + 1]
  BY <1>1, <1>3, Rest
<1>6. Top.task = "sys_evt" /\ \A m \in 2 .. Len(w) : w[m] = "done"
  <2>1. 1 \in 1 .. Len(w)
    BY <1>5
  <2>2. Top.task = "sys_evt" /\ \A m \in 1 + 1 .. Len(w) : w[m] = "done"
    BY <1>3, <1>5, <2>1 DEF TodoOK, STARTING
  <2> QED  BY <2>2
<1>7. \A k \in 1 .. Len(t) : t[k] = "done"
  <2> HIDE DEF w, t
  <2> TAKE k \in 1 .. Len(t)
  <2>1. k \in 1 .. Len(w) - 1 /\ k + 1 \in 2 .. Len(w)
    BY <1>5
  <2> QED  BY <1>5, <1>6, <2>1
<1>8. \A i \in 1 .. Len(frames') : frames'[i].pc = "hci_wait" => WITH_HCICMD \subseteq paused'
  <2>1. /\ Len(frames') = n /\ \A i \in 1 .. n - 1 : frames'[i] = frames[i]
        /\ frames'[n].pc = "run"
    BY <1>4 DEF TopGoes
  <2>2. \A i \in 1 .. n - 1 : frames[i].pc = "hci_wait" => WITH_HCICMD \subseteq paused'
    BY <1>1, <1>2, PausedBelow
  <2> HIDE DEF n
  <2>3. \A i \in 1 .. n : i = n \/ i \in 1 .. n - 1
    BY <1>3
  <2> QED  BY <2>1, <2>2, <2>3
<1>9. TasksInv'
  BY <1>1, <1>2, <1>4, <1>8, TopTasks DEF SYS_PCS
<1>10. NoStart'
  <2>1. /\ Len(frames') = n /\ \A i \in 1 .. n - 1 : frames'[i] = frames[i]
        /\ frames'[n].todo = t
    BY <1>4 DEF TopGoes
  <2>2. \A i, j \in 1 .. n : i < j => frames[i].task # frames[j].task
    BY <1>2 DEF TasksInv
  <2> HIDE DEF n, t
  <2>3. \A i \in 1 .. n : i = n \/ (i \in 1 .. n - 1 /\ i < n)
    BY <1>3
  <2>4. \A i \in 1 .. n : frames'[i].task = "sys_evt" =>
          \A k \in 1 .. Len(frames'[i].todo) : frames'[i].todo[k] = "done"
    BY <1>3, <1>6, <1>7, <2>1, <2>2, <2>3
  <2> QED  BY <2>1, <2>4 DEF NoStart
<1>11. ~ReadyAhead /\ events # 0
  <2>1. ~NoStart
    <3>1. 1 \in 1 .. Len(w)
      BY <1>5
    <3> QED  BY <1>3, <1>5, <1>6, <3>1 DEF NoStart
  <2> QED  BY <2>1 DEF LinkIInv, StartInv
<1>12. StartInv'
  <2>1. ReadyAhead' <=> ReadyAhead
    BY <1>1 DEF ReadyAhead, ReadyIn
  <2> QED  BY <1>1, <1>10, <1>11, <2>1 DEF LinkIInv, StartInv
<1>13. AskersInv'
  BY <1>1 DEF AskersInv
<1>14. WithTasks' = WithTasks
  <2>1. Top.task \in RX => (t # << >> <=> w # << >>)
    BY <1>1, <1>2, StillHolds
  <2> HIDE DEF t
  <2> QED  BY <1>1, <1>4, <2>1, TopBuffers
<1>15. SysCmdInv'
  <2> HIDE DEF t
  <2> QED  BY <1>1, <1>4, TopSysCmd
<1>16. TypesInv' /\ BuffersInv'
  BY <1>1, <1>14 DEF LinkIInv, TypesInv, BuffersInv, Advertises
<1> QED  BY <1>9, <1>12, <1>13, <1>15, <1>16 DEF LinkIInv

\* The event is handled: its buffer is CPU1's to hand over.
LEMMA EvtDoneKeeps ==
  ASSUME IInv, LinkIInv, EvtDone
  PROVE  LinkIInv'
<1> DEFINE n == Len(frames)
           w == Top.todo
           t == Tail(w)
<1>1. /\ frames # << >> /\ Top.pc = "run" /\ w # << >> /\ Head(w) = "done"
      /\ Advance("free") /\ local_free' = local_free + 1
      /\ UNCHANGED <<posted, asynch, events, advertised, stopped, tasks, paused, evt_set, open, flag, cpu2_sys,
                     free_list, cpu2_free>>
  BY DEF EvtDone, Does, At, mailbox, queues, sequencer, cpu2, outcome, bounds
<1>2. TasksInv /\ StackInv
  BY DEF LinkIInv, IInv
<1>3. /\ n \in Nat \ {0} /\ Top = frames[n] /\ n \in 1 .. n
      /\ TodoOK(Top.task, w) /\ w \in Seq(WORK)
  BY <1>1, <1>2, TopIsOK DEF FrameOK
<1>4. /\ TopGoes("free", t) /\ NoMore(t) /\ TodoOK(Top.task, t) /\ t \in Seq(WORK)
  BY <1>1, <1>2, <1>3, AdvanceGoes, TodoRest, Rest DEF PCS
<1>5. Len(w) \in Nat \ {0} /\ Len(t) = Len(w) - 1 /\ w[1] = "done"
  BY <1>1, <1>3, Rest
<1>6. Top.task \in RX /\ t = << >>
  <2>1. 1 \in 1 .. Len(w)
    BY <1>5
  <2>2. Top.task \in RX /\ 1 = Len(w)
    BY <1>3, <1>5, <2>1 DEF TodoOK
  <2>3. Len(t) = 0
    BY <1>5, <2>2
  <2> QED  BY <1>4, <2>2, <2>3, EmptySeq
<1> HIDE DEF t
<1>7. \A i \in 1 .. Len(frames') : frames'[i].pc = "hci_wait" => WITH_HCICMD \subseteq paused'
  <2>1. /\ Len(frames') = n /\ \A i \in 1 .. n - 1 : frames'[i] = frames[i]
        /\ frames'[n].pc = "free"
    BY <1>4 DEF TopGoes
  <2>2. \A i \in 1 .. n - 1 : frames[i].pc = "hci_wait" => WITH_HCICMD \subseteq paused'
    BY <1>1, <1>2, PausedBelow
  <2> HIDE DEF n
  <2>3. \A i \in 1 .. n : i = n \/ i \in 1 .. n - 1
    BY <1>3
  <2> QED  BY <2>1, <2>2, <2>3
<1>8. TasksInv' /\ StartInv' /\ AskersInv'
  BY <1>1, <1>4, <1>7, TopKeeps DEF SYS_PCS
<1>9. SysCmdInv'
  BY <1>1, <1>4, TopSysCmd
<1>10. TypesInv'
  BY <1>1 DEF LinkIInv, TypesInv
<1>11. WithTasks' = WithTasks - 1
  <2>1. \A x \in RX : x = Top.task => Held(x) = 1 /\ Held(x)' = 0
    BY <1>1, <1>2, <1>4, <1>6, TopHolds
  <2>2. \A x \in RX : x # Top.task => Held(x)' = Held(x)
    BY <1>1, <1>2, <1>4, TopHolds
  <2>3. \A x \in RX : Listed(x)' = Listed(x) /\ Listed(x) \in Nat /\ Held(x) \in Nat
    BY <1>1, LenProperties DEF LinkIInv, TypesInv, Listed, Held
  <2>4. "sys_evt" \in RX /\ "ble_evt" \in RX /\ RX = {"sys_evt", "ble_evt"}
    BY DEF RX
  <2>5. CASE Top.task = "sys_evt"
    <3>1. Held("sys_evt")' = Held("sys_evt") + (-1)
      BY <2>1, <2>4, <2>5
    <3>2. /\ Listed("sys_evt")' = Listed("sys_evt") + 0 /\ Listed("ble_evt")' = Listed("ble_evt") + 0
          /\ Held("ble_evt")' = Held("ble_evt") + 0
      BY <2>2, <2>3, <2>4, <2>5
    <3>3. WithTasks' = WithTasks + (0 + (-1) + 0 + 0)
      BY <1>10, <3>1, <3>2, TasksHave DEF LinkIInv
    <3> QED  BY <1>10, <3>3, TasksHave DEF LinkIInv
  <2>6. CASE Top.task = "ble_evt"
    <3>1. Held("ble_evt")' = Held("ble_evt") + (-1)
      BY <2>1, <2>4, <2>6
    <3>2. /\ Listed("sys_evt")' = Listed("sys_evt") + 0 /\ Listed("ble_evt")' = Listed("ble_evt") + 0
          /\ Held("sys_evt")' = Held("sys_evt") + 0
      BY <2>2, <2>3, <2>4, <2>6
    <3>3. WithTasks' = WithTasks + (0 + 0 + 0 + (-1))
      BY <1>10, <3>1, <3>2, TasksHave DEF LinkIInv
    <3> QED  BY <1>10, <3>3, TasksHave DEF LinkIInv
  <2> QED  BY <1>6, <2>4, <2>5, <2>6
<1>12. BuffersInv'
  <2>1. local_free \in Nat /\ free_list \in Nat /\ cpu2_free \in Nat /\ WithTasks \in Nat
    BY <1>10, TasksHave DEF LinkIInv, BuffersInv
  <2>2. WithTasks' + local_free' + free_list' + cpu2_free' = WithTasks + local_free + free_list + cpu2_free
    BY <1>1, <1>11, <2>1
  <2> QED  BY <1>1, <2>1, <2>2, MovedBuffers DEF LinkIInv
<1> QED  BY <1>8, <1>9, <1>10, <1>12 DEF LinkIInv

\* The buffers CPU1 has done with are handed over, or wait for their channel.
LEMMA FreeKeeps ==
  ASSUME IInv, LinkIInv, SendFreeBuf \/ FreeWhenTaken \/ FreeNow \/ FreeSetFlag
  PROVE  LinkIInv'
<1>f. flag \in [CHANNELS -> BOOLEAN]
  BY DEF IInv
<1>1. /\ frames # << >> /\ Top.pc \in {"free", "free_mask"} \cup MOVING
      /\ \E p \in {"run", "free_mask"} \cup MOVING : Goto(p)
      /\ open' \subseteq open \cup {"mm"} /\ flag'["sys_cmd"] = flag["sys_cmd"]
      /\ UNCHANGED <<posted, asynch, events, advertised, stopped, tasks, paused, evt_set, cpu2_sys, cpu2_free>>
  <2>1. CASE SendFreeBuf
    <3>1. PICK p \in {"free_mask", "free_move"} : Goto(p)
      BY <2>1 DEF SendFreeBuf
    <3> QED  BY <2>1, <3>1 DEF SendFreeBuf, At, MOVING, mailbox, queues, sequencer, buffers, cpu2, outcome, bounds
  <2>2. CASE FreeWhenTaken
    BY <2>2 DEF FreeWhenTaken, At, WaitForChannel, queues, sequencer, buffers, cpu2, outcome, bounds
  <2>3. CASE FreeNow
    BY <2>3 DEF FreeNow, At, MOVING, mailbox, queues, sequencer, cpu2, outcome, bounds
  <2>4. CASE FreeSetFlag
    BY <1>f, <2>4 DEF FreeSetFlag, At, MOVING, queues, sequencer, buffers, cpu2, outcome, bounds
  <2> QED  BY <2>1, <2>2, <2>3, <2>4
<1>2. PICK p \in {"run", "free_mask"} \cup MOVING : Goto(p)
  BY <1>1
<1>3. p \in PCS /\ p \notin SYS_PCS /\ p # "hci_wait" /\ Top.pc \notin SYS_PCS
  BY <1>1 DEF PCS, MOVING, SYS_PCS
<1>4. TopGoes(p, Top.todo) /\ TasksInv' /\ StartInv' /\ AskersInv' /\ WithTasks' = WithTasks
  BY <1>1, <1>2, <1>3, GotoKeeps
<1>5. SysCmdInv'
  BY <1>1, <1>3, <1>4, TopSysCmd DEF SYS_PCS
<1>6. TypesInv'
  BY <1>1 DEF LinkIInv, TypesInv, CHANNELS
<1>7. BuffersInv'
  <2>1. local_free \in Nat /\ free_list \in Nat /\ cpu2_free \in Nat /\ WithTasks \in Nat
    BY <1>6, TasksHave DEF LinkIInv, BuffersInv
  <2>2. \/ local_free' = local_free /\ free_list' = free_list
        \/ local_free' = 0 /\ free_list' = free_list + local_free
    BY DEF SendFreeBuf, FreeWhenTaken, FreeNow, FreeSetFlag, MoveBuffers, buffers
  <2>3. /\ local_free' \in Nat /\ free_list' \in Nat
        /\ WithTasks' + local_free' + free_list' + cpu2_free' = WithTasks + local_free + free_list + cpu2_free
    BY <1>1, <1>4, <2>1, <2>2
  <2> QED  BY <1>1, <2>1, <2>3, MovedBuffers DEF LinkIInv
<1> QED  BY <1>4, <1>5, <1>6, <1>7 DEF LinkIInv

-----------------------------------------------------------------------------
(* The steps that put a frame on the stack or take one off.                *)

\* An event's work, and then its buffer is given back.
LEMMA DoneLast ==
  ASSUME NEW task \in RX, NEW h \in Seq(WORK),
         \A k \in 1 .. Len(h) : /\ h[k] # "done"
                                /\ h[k] \in STARTING => task = "sys_evt"
                                /\ h[k] = "advertised" => k = Len(h)
  PROVE  /\ TodoOK(task, h \o <<"done">>)
         /\ h \o <<"done">> \in Seq(WORK) /\ h \o <<"done">> # << >>
         /\ \A k \in 1 .. Len(h \o <<"done">>) :
              (h \o <<"done">>)[k] = "done" \/ \E m \in 1 .. Len(h) : (h \o <<"done">>)[k] = h[m]
<1> DEFINE d == <<"done">>
           w == h \o d
           n == Len(h)
<1>1. d \in Seq(WORK) /\ Len(d) = 1 /\ d[1] = "done"
  BY DEF WORK
<1>2. /\ w \in Seq(WORK) /\ Len(w) = Len(h) + Len(d)
      /\ \A k \in 1 .. Len(h) + Len(d) : w[k] = IF k <= Len(h) THEN h[k] ELSE d[k - Len(h)]
  BY <1>1, ConcatProperties
<1>3. n \in Nat
  BY LenProperties
<1>h. \A k \in 1 .. n : /\ h[k] # "done"
                        /\ h[k] \in STARTING => task = "sys_evt"
                        /\ h[k] = "advertised" => k = n
  OBVIOUS
<1>e. w # << >> \/ Len(w) = 0
  BY EmptySeq
<1> HIDE DEF d, w
<1>4. Len(w) = n + 1 /\ \A k \in 1 .. n + 1 : w[k] = IF k <= n THEN h[k] ELSE d[k - n]
  BY <1>1, <1>2
<1> HIDE DEF n
<1>5. /\ \A k \in 1 .. n + 1 : k \in 1 .. n \/ k = n + 1
      /\ \A k \in 1 .. n : k <= n /\ k \in 1 .. n + 1
      /\ n + 1 \in 1 .. n + 1 /\ ~(n + 1 <= n) /\ (n + 1) - n = 1
  BY <1>3
<1>6. w[n + 1] = "done" /\ \A k \in 1 .. n : w[k] = h[k]
  BY <1>1, <1>4, <1>5
<1>7. \A k \in 1 .. n + 1 : w[k] = "done" \/ \E m \in 1 .. n : w[k] = h[m]
  BY <1>5, <1>6
<1>8. w # << >>
  BY <1>3, <1>4, <1>e
<1>9. \A k \in 1 .. n + 1 :
        /\ w[k] = "done" => k = n + 1 /\ task \in RX
        /\ w[k] \in STARTING => task = "sys_evt"
  BY <1>5, <1>6, <1>h DEF STARTING
<1>10. ASSUME NEW k \in 1 .. n + 1, w[k] = "advertised", NEW m \in k + 1 .. n + 1
       PROVE  w[m] = "done"
  <2>1. k \in 1 .. n
    BY <1>5, <1>6, <1>10
  <2>2. k = n
    BY <1>6, <1>h, <1>10, <2>1
  <2>3. m = n + 1
    BY <1>3, <2>2
  <2> QED  BY <1>6, <2>3
<1>11. TodoOK(task, w)
  BY <1>4, <1>6, <1>9, <1>10 DEF TodoOK
<1> QED  BY <1>2, <1>4, <1>7, <1>8, <1>11 DEF d, w, n

\* The work of the start-up ends in advertising.
LEMMA StartUpEnds ==
  /\ StartUp \in Seq(WORK)
  /\ \A k \in 1 .. Len(StartUp) : StartUp[k] # "done" /\ (StartUp[k] = "advertised" => k = Len(StartUp))
<1> DEFINE W == {"sys", "open_ble", "ble_init", "hci"}
           a == <<"sys", "sys", "open_ble", "ble_init">>
           b == [i \in 1 .. InitCmds |-> "hci"]
           c == a \o b
           d == <<"advertised">>
           s == c \o d
<1>1. a \in Seq(W) /\ b \in Seq(W) /\ d \in Seq(WORK) /\ Len(d) = 1 /\ d[1] = "advertised"
  BY LinkConstants DEF LinkConstants, WORK
<1> HIDE DEF a, b, d
<1>2. c \in Seq(W)
  BY <1>1, ConcatProperties
<1> HIDE DEF c
<1>3. c \in Seq(WORK) /\ Len(c) \in Nat /\ \A k \in 1 .. Len(c) : c[k] \in W
  <2>1. \A k \in 1 .. Len(c) : c[k] \in W
    BY <1>2, ElementOfSeq
  <2>2. W \subseteq WORK
    BY DEF WORK
  <2>3. c \in Seq(WORK)
    <3> HIDE DEF W
    <3>1. c = [i \in 1 .. Len(c) |-> c[i]] /\ Len(c) \in Nat
      BY <1>2, LenProperties
    <3> QED  BY <2>1, <2>2, <3>1, SeqDef
  <2> QED  BY <1>2, <2>1, <2>3, LenProperties
<1>4. /\ s \in Seq(WORK) /\ Len(s) = Len(c) + Len(d)
      /\ \A k \in 1 .. Len(c) + Len(d) : s[k] = IF k <= Len(c) THEN c[k] ELSE d[k - Len(c)]
  BY <1>1, <1>3, ConcatProperties
<1>5. StartUp = s
  BY DEF StartUp, a, b, c, d, s
<1> DEFINE n == Len(c)
<1> HIDE DEF s
<1>6. Len(s) = n + 1 /\ \A k \in 1 .. n + 1 : s[k] = IF k <= n THEN c[k] ELSE d[k - n]
  BY <1>1, <1>4
<1>7. n \in Nat /\ \A k \in 1 .. n : c[k] # "done" /\ c[k] # "advertised"
  BY <1>3
<1> HIDE DEF n
<1>8. \A k \in 1 .. n + 1 : (k \in 1 .. n /\ k <= n) \/ (k = n + 1 /\ ~(k <= n) /\ k - n = 1)
  BY <1>7
<1>9. \A k \in 1 .. n + 1 : s[k] # "done" /\ (s[k] = "advertised" => k = n + 1)
  BY <1>1, <1>6, <1>7, <1>8
<1> QED  BY <1>4, <1>5, <1>6, <1>9

\* What the handling of an event has to do: it starts the BLE stack up for the
\* ready event only, and asks for it or for an event of the link.
LEMMA HandlingOK ==
  ASSUME NEW task \in RX, NEW e \in EVENTS(task)
  PROVE  LET w == Handling(e) \o <<"done">>
         IN  /\ TodoOK(task, w) /\ w \in Seq(WORK) /\ w # << >>
             /\ e = "note" => \A k \in 1 .. Len(w) : w[k] = "done"
<1> DEFINE h == Handling(e)
<1>1. e \in {"ready", "note", "link"} /\ (e = "ready" => task = "sys_evt")
  BY DEF EVENTS, RX
<1>2. /\ h \in Seq(WORK) /\ (e = "note" => Len(h) = 0)
      /\ \A k \in 1 .. Len(h) : /\ h[k] # "done"
                                /\ h[k] \in STARTING => task = "sys_evt"
                                /\ h[k] = "advertised" => k = Len(h)
  <2>1. CASE e = "ready" /\ cpu2_fw = "wireless"
    <3>1. h = StartUp
      BY <2>1 DEF Handling
    <3> HIDE DEF h
    <3> QED  BY <1>1, <2>1, <3>1, StartUpEnds
  <2>2. CASE e = "link"
    <3>1. h = <<"hci">>
      BY <2>2 DEF Handling
    <3>2. <<"hci">> \in Seq(WORK) /\ Len(<<"hci">>) = 1 /\ \A k \in 1 .. 1 : <<"hci">>[k] = "hci"
      BY DEF WORK
    <3> HIDE DEF h
    <3> QED  BY <2>2, <3>1, <3>2 DEF STARTING
  <2>3. CASE ~(e = "ready" /\ cpu2_fw = "wireless") /\ e # "link"
    <3>1. h = << >>
      BY <1>1, <2>3 DEF Handling
    <3>2. << >> \in Seq(WORK) /\ Len(<< >>) = 0
      BY EmptySeq
    <3> HIDE DEF h
    <3> QED  BY <3>1, <3>2
  <2> QED  BY <2>1, <2>2, <2>3
<1> HIDE DEF h
<1>3. /\ TodoOK(task, h \o <<"done">>)
      /\ h \o <<"done">> \in Seq(WORK) /\ h \o <<"done">> # << >>
      /\ \A k \in 1 .. Len(h \o <<"done">>) :
           (h \o <<"done">>)[k] = "done" \/ \E m \in 1 .. Len(h) : (h \o <<"done">>)[k] = h[m]
  BY <1>2, DoneLast
<1>4. Len(h) = 0 => ~ \E m \in 1 .. Len(h) : TRUE
  OBVIOUS
<1> QED  BY <1>2, <1>3, <1>4 DEF h

\* A new frame holds its event's buffer, and changes nothing for the other tasks.
LEMMA PushHolds ==
  ASSUME Len(frames) \in Nat, NEW f, Pushed(f), NEW x \in RX
  PROVE  /\ f.task # x => Held(x)' = Held(x)
         /\ f.task = x /\ f.todo # << >> /\ (\A i \in 1 .. Len(frames) : frames[i].task # x) =>
              Held(x) = 0 /\ Held(x)' = 1
<1> DEFINE n == Len(frames)
           H(i) == frames[i].task = x /\ frames[i].todo # << >>
           G(i) == frames'[i].task = x /\ frames'[i].todo # << >>
<1>1. /\ Len(frames') = n + 1 /\ \A i \in 1 .. n : frames'[i] = frames[i]
      /\ frames'[n + 1] = f
  BY DEF Pushed
<1>2. Held(x) = (IF \E i \in 1 .. n : H(i) THEN 1 ELSE 0)
  BY DEF Held
<1>3. Held(x)' = (IF \E i \in 1 .. n + 1 : G(i) THEN 1 ELSE 0)
  BY <1>1 DEF Held
<1>4. n \in Nat
  OBVIOUS
<1>5. \A i \in 1 .. n : H(i) <=> G(i)
  BY <1>1
<1>6. G(n + 1) <=> f.task = x /\ f.todo # << >>
  BY <1>1
<1>7. (\A i \in 1 .. n : frames[i].task # x) => \A i \in 1 .. n : ~H(i)
  OBVIOUS
<1> HIDE DEF n, H, G
<1>8. \A i \in 1 .. n + 1 : i = n + 1 \/ i \in 1 .. n
  BY <1>4
<1>9. n + 1 \in 1 .. n + 1 /\ \A i \in 1 .. n : i \in 1 .. n + 1
  BY <1>4
<1>10. ASSUME f.task # x PROVE Held(x)' = Held(x)
  <2>1. (\E i \in 1 .. n + 1 : G(i)) <=> (\E i \in 1 .. n : H(i))
    BY <1>5, <1>6, <1>8, <1>9, <1>10
  <2> QED  BY <1>2, <1>3, <2>1
<1>11. ASSUME f.task = x, f.todo # << >>, \A i \in 1 .. n : frames[i].task # x
       PROVE  Held(x) = 0 /\ Held(x)' = 1
  <2>1. \E i \in 1 .. n + 1 : G(i)
    BY <1>6, <1>9, <1>11
  <2>2. ~ \E i \in 1 .. n : H(i)
    BY <1>7, <1>11
  <2> QED  BY <1>2, <1>3, <2>1, <2>2
<1> QED  BY <1>10, <1>11 DEF n

\* A new frame runs: it waits for no system command, and starts or asks for nothing
\* unless what it has to do does.
LEMMA PushKeeps ==
  ASSUME IInv, LinkIInv, NEW f \in FRAME, Pushed(f), f.pc = "run",
         UNCHANGED <<flag, open, evt_set, cpu2_sys>>
  PROVE  /\ SysCmdInv'
         /\ NoStart /\ (f.task = "sys_evt" => \A k \in 1 .. Len(f.todo) : f.todo[k] = "done") => NoStart'
         /\ (\A i \in 1 .. Len(frames) : frames[i].task # "sys_evt" => ~ Asks(frames[i]))
              /\ (f.task # "sys_evt" => ~ Asks(f)) =>
              (\A i \in 1 .. Len(frames') : frames'[i].task # "sys_evt" => ~ Asks(frames'[i]))
<1> DEFINE n == Len(frames)
<1>1. /\ Len(frames') = n + 1 /\ \A i \in 1 .. n : frames'[i] = frames[i]
      /\ frames'[n + 1] = f
  BY DEF Pushed
<1>2. n \in Nat
  BY LenProperties DEF IInv, StackInv
<1> HIDE DEF n
<1>3. \A i \in 1 .. n + 1 : i = n + 1 \/ i \in 1 .. n
  BY <1>2
<1>4. n + 1 \in 1 .. n + 1 /\ \A i \in 1 .. n : i \in 1 .. n + 1
  BY <1>2
<1>5. SysCmdInv'
  <2>1. (\E i \in 1 .. n : frames[i].pc = "sys_wait") <=>
          (\E i \in 1 .. n + 1 : frames'[i].pc = "sys_wait")
    BY <1>1, <1>3, <1>4
  <2>2. (\E i \in 1 .. n : frames[i].pc = "sys_mask") <=>
          (\E i \in 1 .. n + 1 : frames'[i].pc = "sys_mask")
    BY <1>1, <1>3, <1>4
  <2> QED  BY <1>1, <2>1, <2>2 DEF LinkIInv, SysCmdInv, n
<1>6. ASSUME NoStart, f.task = "sys_evt" => \A k \in 1 .. Len(f.todo) : f.todo[k] = "done"
      PROVE  NoStart'
  <2>1. \A i \in 1 .. n : frames[i].task = "sys_evt" =>
          \A k \in 1 .. Len(frames[i].todo) : frames[i].todo[k] = "done"
    BY <1>6 DEF NoStart, n
  <2>2. \A i \in 1 .. n + 1 : frames'[i].task = "sys_evt" =>
          \A k \in 1 .. Len(frames'[i].todo) : frames'[i].todo[k] = "done"
    BY <1>1, <1>3, <1>6, <2>1
  <2> QED  BY <1>1, <2>2 DEF NoStart
<1>7. ASSUME \A i \in 1 .. n : frames[i].task # "sys_evt" => ~ Asks(frames[i]),
             f.task # "sys_evt" => ~ Asks(f)
      PROVE  \A i \in 1 .. n + 1 : frames'[i].task # "sys_evt" => ~ Asks(frames'[i])
  BY <1>1, <1>3, <1>7
<1> QED  BY <1>1, <1>5, <1>6, <1>7 DEF n

\* A frame that waits for the answer of an HCI command would send one again if it
\* went back.
LEMMA WaiterAsks ==
  ASSUME IInv, TasksInv, NEW i \in 1 .. Len(frames), frames[i].pc = "hci_wait"
  PROVE  Asks(frames[i])
<1>1. frames[i] \in FRAME /\ frames[i].todo # << >>
  BY ElementOfSeq DEF IInv, StackInv, BUSY, WAITING
<1>2. frames[i].todo \in Seq(WORK) /\ frames[i].todo[1] = "hci"
  BY <1>1 DEF TasksInv, FrameOK, FRAME
<1>3. 1 \in 1 .. Len(frames[i].todo)
  BY <1>1, <1>2, Rest
<1> QED  BY <1>2, <1>3 DEF Asks

\* A task that handles no event: the cancelling of the advertising, or the loop itself.
LEMMA OtherPushKeeps ==
  ASSUME IInv, LinkIInv, NEW f \in FRAME, f.pc = "run", f.task \notin RX,
         f.todo \in {<<"hci">>, << >>}, Pushed(f), advertised,
         \A i \in 1 .. Len(frames) : frames[i].task # f.task,
         \A i \in 1 .. Len(frames) : frames[i].pc # "hci_wait",
         tasks' \subseteq tasks,
         UNCHANGED <<flag, open, evt_set, cpu2_sys, posted, asynch, events, advertised, stopped, paused,
                     local_free, free_list, cpu2_free>>
  PROVE  LinkIInv'
<1>1. Len(frames) \in Nat
  BY LenProperties DEF IInv, StackInv
<1>2. FrameOK(f)
  <2>1. Len(<<"hci">>) = 1 /\ <<"hci">>[1] = "hci" /\ Len(<< >>) = 0
    OBVIOUS
  <2> DEFINE w == f.todo
  <2>2. \A k \in 1 .. Len(w) : w[k] = "hci"
    BY <2>1
  <2> HIDE DEF w
  <2>3. TodoOK(f.task, w)
    BY <2>2 DEF TodoOK, STARTING
  <2> QED  BY <2>3 DEF FrameOK, SYS_PCS, w
<1>3. TasksInv'
  BY <1>1, <1>2, PushTasks DEF LinkIInv
<1>4. f.task # "sys_evt"
  BY DEF RX
<1>5. SysCmdInv' /\ (NoStart => NoStart')
  BY <1>4, PushKeeps
<1>6. StartInv'
  <2>1. ReadyAhead' <=> ReadyAhead
    BY DEF ReadyAhead, ReadyIn
  <2> QED  BY <1>5, <2>1 DEF LinkIInv, StartInv
<1>7. AskersInv' /\ TypesInv'
  BY DEF AskersInv, LinkIInv, TypesInv
<1>8. BuffersInv'
  <2>1. Held("sys_evt")' = Held("sys_evt") /\ Held("ble_evt")' = Held("ble_evt")
    BY <1>1, PushHolds DEF RX
  <2>2. WithTasks' = WithTasks
    BY <2>1 DEF WithTasks, Listed
  <2> QED  BY <2>2 DEF LinkIInv, BuffersInv
<1> QED  BY <1>3, <1>5, <1>6, <1>7, <1>8 DEF LinkIInv

\* A task takes the next event.
LEMMA EventKeeps ==
  ASSUME IInv, LinkIInv, NEW t \in RX, t \notin paused, asynch[t] # << >>,
         \A i \in 1 .. Len(frames) : frames[i].task # t,
         frames' = Append(frames, Frame(t, Handling(Head(asynch[t])) \o <<"done">>)),
         asynch' = [asynch EXCEPT ![t] = Tail(@)], tasks' \subseteq tasks,
         UNCHANGED <<flag, open, evt_set, cpu2_sys, posted, events, advertised, stopped, paused,
                     local_free, free_list, cpu2_free>>
  PROVE  LinkIInv'
<1> DEFINE e == Head(asynch[t])
           w == Handling(e) \o <<"done">>
           f == Frame(t, w)
<1>1. /\ TypesInv /\ TasksInv /\ StackInv /\ Len(frames) \in Nat
      /\ "sys_evt" \in RX /\ "ble_evt" \in RX /\ t \in {"sys_evt", "ble_evt"}
  BY LenProperties DEF LinkIInv, IInv, StackInv, RX
<1>2. /\ asynch[t] \in Seq(EVENTS(t)) /\ Len(asynch[t]) \in Nat \ {0} /\ e = asynch[t][1]
      /\ Tail(asynch[t]) \in Seq(EVENTS(t)) /\ Len(Tail(asynch[t])) = Len(asynch[t]) - 1
      /\ \A k \in 1 .. Len(asynch[t]) - 1 : Tail(asynch[t])[k] = asynch[t][k + 1]
  <2>1. asynch[t] \in Seq(EVENTS(t))
    BY <1>1 DEF TypesInv
  <2>2. Len(asynch[t]) \in Nat \ {0}
    BY <2>1, EmptySeq, LenProperties
  <2> QED  BY <2>1, <2>2, HeadTailProperties
<1>3. e \in EVENTS(t) /\ 1 \in 1 .. Len(asynch[t])
  <2>1. 1 \in 1 .. Len(asynch[t])
    BY <1>2
  <2> QED  BY <1>2, <2>1, ElementOfSeq
<1>4. /\ asynch'[t] = Tail(asynch[t]) /\ \A c \in RX : c # t => asynch'[c] = asynch[c]
      /\ DOMAIN asynch' = RX
  BY <1>1 DEF TypesInv
<1> HIDE DEF e
<1>5. /\ TodoOK(t, w) /\ w \in Seq(WORK) /\ w # << >>
      /\ e = "note" => \A k \in 1 .. Len(w) : w[k] = "done"
  BY <1>3, HandlingOK
<1> HIDE DEF w
<1>6. f \in FRAME /\ f.task = t /\ f.pc = "run" /\ f.todo = w
  BY <1>5 DEF Frame, FRAME, PCS, TASKS
<1>7. Pushed(f)
  <2>1. frames' = Append(frames, f)
    BY DEF f, w, e
  <2> HIDE DEF f
  <2> QED  BY <1>1, <1>6, <2>1, AppendPushes
<1> HIDE DEF f
<1>8. FrameOK(f)
  BY <1>5, <1>6 DEF FrameOK, SYS_PCS
<1>9. e = "note" => ~ Asks(f)
  BY <1>5, <1>6 DEF Asks
<1>10. /\ e = "ready" => t = "sys_evt" /\ ReadyAhead /\ ~advertised
       /\ e \in {"ready", "note", "link"} /\ (e = "link" => t = "ble_evt" /\ advertised)
  <2>1. e \in {"ready", "note", "link"} /\ (e = "ready" => t = "sys_evt") /\ (e = "link" => t = "ble_evt")
    BY <1>3 DEF EVENTS, RX
  <2>2. e = "ready" => ReadyAhead
    BY <1>2, <1>3, <2>1 DEF ReadyAhead, ReadyIn
  <2>3. e = "link" => advertised
    BY <1>2, <1>3, <2>1 DEF LinkIInv, AskersInv
  <2> QED  BY <2>1, <2>2, <2>3 DEF LinkIInv, StartInv
<1>11. \A i \in 1 .. Len(frames) : frames[i].pc = "hci_wait" => ~ Asks(f)
  <2> SUFFICES ASSUME NEW i \in 1 .. Len(frames), frames[i].pc = "hci_wait"
               PROVE  ~ Asks(f)
    OBVIOUS
  <2>1. Asks(frames[i]) /\ "ble_evt" \in paused
    BY <1>1, WaiterAsks DEF TasksInv, WITH_HCICMD
  <2>2. t = "sys_evt"
    BY <1>1, <2>1
  <2>3. advertised
    BY <2>1, <2>2 DEF LinkIInv, AskersInv
  <2> QED  BY <1>9, <1>10, <2>2, <2>3
<1>12. TasksInv'
  BY <1>1, <1>6, <1>7, <1>8, <1>11, PushTasks
<1>13. SysCmdInv'
  BY <1>6, <1>7, PushKeeps
<1>14. TypesInv'
  <2>1. \A c \in RX : asynch'[c] \in Seq(EVENTS(c))
    BY <1>1, <1>2, <1>4 DEF TypesInv
  <2> QED  BY <1>1, <1>4, <2>1 DEF TypesInv, EVENTS
<1>15. NoStart /\ e # "ready" => NoStart'
  BY <1>5, <1>6, <1>7, <1>10, PushKeeps
<1>16. StartInv'
  <2>1. CASE t = "ble_evt"
    <3>1. asynch'["sys_evt"] = asynch["sys_evt"]
      BY <1>1, <1>4, <2>1
    <3>2. NoStart => NoStart'
      BY <1>10, <1>15, <2>1
    <3>3. ReadyAhead' <=> ReadyAhead
      BY <3>1 DEF ReadyAhead, ReadyIn
    <3> QED  BY <3>1, <3>2, <3>3 DEF LinkIInv, StartInv
  <2>2. CASE t = "sys_evt"
    <3> DEFINE A == asynch["sys_evt"]
               B == asynch'["sys_evt"]
               P == posted["sys_evt"]
    <3>1. /\ \A k \in 1 .. Len(P) : P[k] = "ready" => k = 1 /\ A = << >>
          /\ \A k \in 1 .. Len(A) : A[k] = "ready" => k = 1
          /\ events = 0 => P = << >> /\ A = << >>
          /\ advertised => NoStart
      BY DEF LinkIInv, StartInv
    <3>2. A # << >> /\ Len(A) \in Nat /\ Len(B) = Len(A) - 1 /\ \A k \in 1 .. Len(A) - 1 : B[k] = A[k + 1]
      BY <1>2, <1>4, <2>2
    <3> HIDE DEF A, B, P
    <3>3. \A k \in 1 .. Len(B) : B[k] # "ready"
      <4> TAKE k \in 1 .. Len(B)
      <4>1. k \in 1 .. Len(A) - 1 /\ k + 1 \in 1 .. Len(A) /\ k + 1 # 1
        BY <3>2
      <4> QED  BY <3>1, <3>2, <4>1
    <3>4. \A k \in 1 .. Len(P) : P[k] # "ready"
      BY <3>1, <3>2
    <3>5. events # 0
      BY <3>1, <3>2
    <3>6. ~ReadyAhead'
      BY <3>3, <3>4 DEF ReadyAhead, ReadyIn, B, P
    <3>7. advertised => NoStart'
      BY <1>10, <1>15, <3>1
    <3>8. /\ \A k \in 1 .. Len(posted'["sys_evt"]) : posted'["sys_evt"][k] # "ready"
          /\ \A k \in 1 .. Len(asynch'["sys_evt"]) : asynch'["sys_evt"][k] # "ready"
      BY <3>3, <3>4 DEF B, P
    <3> QED  BY <3>5, <3>6, <3>7, <3>8 DEF StartInv
  <2> QED  BY <1>1, <2>1, <2>2
<1>17. AskersInv'
  <2> SUFFICES ASSUME ~advertised
               PROVE  AskersInv'
    BY DEF AskersInv
  <2>1. /\ \A k \in 1 .. Len(posted["ble_evt"]) : posted["ble_evt"][k] # "link"
        /\ \A k \in 1 .. Len(asynch["ble_evt"]) : asynch["ble_evt"][k] # "link"
        /\ "adv_cancel" \notin tasks
        /\ \A i \in 1 .. Len(frames) : frames[i].task # "sys_evt" => ~ Asks(frames[i])
    BY DEF LinkIInv, AskersInv
  <2>2. f.task # "sys_evt" => ~ Asks(f)
    BY <1>1, <1>6, <1>9, <1>10
  <2>3. \A i \in 1 .. Len(frames') : frames'[i].task # "sys_evt" => ~ Asks(frames'[i])
    BY <1>6, <1>7, <2>1, <2>2, PushKeeps
  <2>4. \A k \in 1 .. Len(asynch'["ble_evt"]) : asynch'["ble_evt"][k] # "link"
    <3>1. CASE t = "sys_evt"
      BY <1>1, <1>4, <2>1, <3>1
    <3>2. CASE t = "ble_evt"
      <4> DEFINE A == asynch["ble_evt"]
                 B == asynch'["ble_evt"]
      <4>1. Len(A) \in Nat /\ Len(B) = Len(A) - 1 /\ \A k \in 1 .. Len(A) - 1 : B[k] = A[k + 1]
        BY <1>2, <1>4, <3>2
      <4>2. \A k \in 1 .. Len(A) : A[k] # "link"
        BY <2>1
      <4> HIDE DEF A, B
      <4>3. \A k \in 1 .. Len(B) : B[k] # "link"
        <5> TAKE k \in 1 .. Len(B)
        <5>1. k \in 1 .. Len(A) - 1 /\ k + 1 \in 1 .. Len(A)
          BY <4>1
        <5> QED  BY <4>1, <4>2, <5>1
      <4> QED  BY <4>3 DEF B
    <3> QED  BY <1>1, <3>1, <3>2
  <2> QED  BY <2>1, <2>3, <2>4 DEF AskersInv, Asks
<1>18. WithTasks' = WithTasks
  <2>1. /\ \A x \in RX : x = t => Held(x) = 0 /\ Held(x)' = 1
        /\ \A x \in RX : x # t => Held(x)' = Held(x)
    BY <1>1, <1>5, <1>6, <1>7, PushHolds
  <2>2. \A x \in RX : Listed(x) \in Nat /\ Held(x) \in Nat
    BY <1>1, LenProperties DEF TypesInv, Listed, Held
  <2>3. /\ \A x \in RX : x = t => Listed(x)' = Listed(x) + (-1)
        /\ \A x \in RX : x # t => Listed(x)' = Listed(x)
    <3> DEFINE p == Len(posted[t])
               a == Len(asynch[t])
               b == Len(asynch'[t])
    <3>1. p \in Nat /\ a \in Nat /\ b = a - 1
      BY <1>1, <1>2, <1>4, LenProperties DEF TypesInv
    <3>2. Listed(t) = p + a /\ Listed(t)' = p + b
      BY DEF Listed
    <3> HIDE DEF p, a, b
    <3>3. Listed(t)' = Listed(t) + (-1)
      BY <3>1, <3>2
    <3>4. \A x \in RX : x # t => Listed(x)' = Listed(x)
      BY <1>4 DEF Listed
    <3> QED  BY <3>3, <3>4
  <2>4. CASE t = "sys_evt"
    <3>1. /\ Listed("sys_evt")' = Listed("sys_evt") + (-1) /\ Held("sys_evt")' = Held("sys_evt") + 1
          /\ Listed("ble_evt")' = Listed("ble_evt") + 0 /\ Held("ble_evt")' = Held("ble_evt") + 0
      BY <1>1, <2>1, <2>2, <2>3, <2>4
    <3>2. WithTasks' = WithTasks + ((-1) + 1 + 0 + 0)
      BY <1>1, <1>14, <3>1, TasksHave
    <3> QED  BY <1>1, <1>14, <3>2, TasksHave
  <2>5. CASE t = "ble_evt"
    <3>1. /\ Listed("sys_evt")' = Listed("sys_evt") + 0 /\ Held("sys_evt")' = Held("sys_evt") + 0
          /\ Listed("ble_evt")' = Listed("ble_evt") + (-1) /\ Held("ble_evt")' = Held("ble_evt") + 1
      BY <1>1, <2>1, <2>2, <2>3, <2>5
    <3>2. WithTasks' = WithTasks + (0 + 0 + (-1) + 1)
      BY <1>1, <1>14, <3>1, TasksHave
    <3> QED  BY <1>1, <1>14, <3>2, TasksHave
  <2> QED  BY <1>1, <2>4, <2>5
<1>19. BuffersInv'
  BY <1>18 DEF LinkIInv, BuffersInv
<1> QED  BY <1>12, <1>13, <1>14, <1>16, <1>17, <1>19 DEF LinkIInv

\* The sequencer runs a task, in the loop or in a wait.
LEMMA RunKeeps ==
  ASSUME IInv, LinkIInv, NEW t \in RX \cup {"adv_cancel"}, RunTask(t)
  PROVE  LinkIInv'
<1>1. /\ t \in tasks /\ t \notin paused
      /\ UNCHANGED <<flag, open, evt_set, cpu2_sys, posted, events, advertised, stopped, paused,
                     local_free, free_list, cpu2_free>>
  BY DEF RunTask, mailbox, buffers, cpu2, outcome, bounds
<1>2. \A i \in 1 .. Len(frames) : frames[i].task # t
  <2>1. DOMAIN frames = 1 .. Len(frames)
    BY LenProperties DEF IInv, StackInv
  <2> QED  BY <2>1 DEF RunTask
<1>3. CASE UNCHANGED <<frames, asynch>> /\ tasks' \subseteq tasks
  <2>1. TypesInv'
    BY <1>1, <1>3 DEF LinkIInv, TypesInv
  <2> QED  BY <1>1, <1>3, <2>1, TasksStay, StartStays, AskersStay, BuffersStay, SysCmdStays DEF LinkIInv
<1>4. CASE t \in RX /\ ~(UNCHANGED <<frames, asynch>> /\ tasks' \subseteq tasks)
  <2>1. /\ asynch[t] # << >> /\ tasks' \subseteq tasks
        /\ frames' = Append(frames, Frame(t, Handling(Head(asynch[t])) \o <<"done">>))
        /\ asynch' = [asynch EXCEPT ![t] = Tail(@)]
    BY <1>4 DEF RunTask
  <2> QED  BY <1>1, <1>2, <1>4, <2>1, EventKeeps
<1>5. CASE t \notin RX
  <2>1. PICK todo \in {<<"hci">>, << >>} : frames' = Append(frames, Frame(t, todo))
    BY <1>5 DEF RunTask
  <2>2. tasks' \subseteq tasks /\ asynch' = asynch
    BY <1>5 DEF RunTask
  <2> DEFINE f == Frame(t, todo)
  <2>3. f \in FRAME /\ f.pc = "run" /\ f.task = t /\ f.todo = todo
    <3>1. <<"hci">> \in Seq(WORK) /\ << >> \in Seq(WORK)
      BY DEF WORK
    <3>2. todo \in Seq(WORK) /\ t \in TASKS /\ "run" \in PCS
      BY <3>1 DEF TASKS, PCS
    <3> QED  BY <3>2 DEF Frame, FRAME
  <2> HIDE DEF f
  <2>4. Pushed(f)
    BY <2>1, <2>3, AppendPushes DEF IInv, f
  <2>5. t = "adv_cancel"
    BY <1>5
  <2>6. \A i \in 1 .. Len(frames) : frames[i].pc # "hci_wait"
    BY <1>1, <2>5 DEF LinkIInv, TasksInv, WITH_HCICMD
  <2>7. advertised
    BY <1>1, <2>5 DEF LinkIInv, AskersInv
  <2> QED  BY <1>1, <1>2, <1>5, <2>2, <2>3, <2>4, <2>6, <2>7, OtherPushKeeps
<1> QED  BY <1>3, <1>4, <1>5

\* The loop sends a notification.
LEMMA NotifyKeeps ==
  ASSUME IInv, LinkIInv, Notify
  PROVE  LinkIInv'
<1> DEFINE f == Frame("loop", <<"hci">>)
<1>1. /\ advertised /\ frames = << >> /\ frames' = <<f>>
      /\ UNCHANGED <<flag, open, evt_set, tasks, cpu2_sys, posted, asynch, events, advertised, stopped, paused,
                     local_free, free_list, cpu2_free>>
  BY DEF Notify, mailbox, queues, sequencer, buffers, cpu2, outcome
<1>2. f \in FRAME /\ f.pc = "run" /\ f.task = "loop" /\ f.todo = <<"hci">>
  BY DEF Frame, FRAME, PCS, TASKS, WORK
<1>3. frames' = Append(frames, f)
  BY <1>1
<1> HIDE DEF f
<1>4. Pushed(f) /\ Len(frames) = 0
  BY <1>1, <1>2, <1>3, AppendPushes DEF IInv
<1>5. "loop" \notin RX
  BY DEF RX
<1> QED  BY <1>1, <1>2, <1>4, <1>5, OtherPushKeeps

\* A task that has nothing left returns.
LEMMA ReturnKeeps ==
  ASSUME IInv, LinkIInv, Return
  PROVE  LinkIInv'
<1> DEFINE n == Len(frames)
<1>1. /\ frames # << >> /\ Top.pc = "run" /\ Top.todo = << >> /\ frames' = Below
      /\ UNCHANGED <<flag, open, evt_set, tasks, cpu2_sys, posted, asynch, events, advertised, stopped, paused,
                     local_free, free_list, cpu2_free>>
  BY DEF Return, At, mailbox, queues, sequencer, buffers, cpu2, outcome, bounds
<1>2. n \in Nat \ {0} /\ Top = frames[n] /\ Popped
  BY <1>1, TopIsOK, BelowPops DEF LinkIInv, IInv
<1>3. Len(frames') = n - 1 /\ \A i \in 1 .. n - 1 : frames'[i] = frames[i]
  BY <1>2 DEF Popped
<1>4. TasksInv'
  BY <1>1, <1>2, PopTasks DEF LinkIInv
<1> HIDE DEF n
<1>5. /\ \A i \in 1 .. n : i = n \/ i \in 1 .. n - 1
      /\ \A i \in 1 .. n - 1 : i \in 1 .. n
  BY <1>2
<1>6. SysCmdInv'
  <2>1. (\E i \in 1 .. n : frames[i].pc = "sys_wait") <=>
          (\E i \in 1 .. n - 1 : frames'[i].pc = "sys_wait")
    BY <1>1, <1>2, <1>3, <1>5
  <2>2. (\E i \in 1 .. n : frames[i].pc = "sys_mask") <=>
          (\E i \in 1 .. n - 1 : frames'[i].pc = "sys_mask")
    BY <1>1, <1>2, <1>3, <1>5
  <2> QED  BY <1>1, <1>3, <2>1, <2>2 DEF LinkIInv, SysCmdInv, n
<1>7. StartInv'
  <2>1. NoStart => NoStart'
    BY <1>3, <1>5 DEF NoStart, n
  <2>2. ReadyAhead' <=> ReadyAhead
    BY <1>1 DEF ReadyAhead, ReadyIn
  <2> QED  BY <1>1, <2>1, <2>2 DEF LinkIInv, StartInv
<1>8. AskersInv'
  <2>1. (\A i \in 1 .. n : frames[i].task # "sys_evt" => ~ Asks(frames[i])) =>
          (\A i \in 1 .. n - 1 : frames'[i].task # "sys_evt" => ~ Asks(frames'[i]))
    BY <1>3, <1>5
  <2> QED  BY <1>1, <1>3, <2>1 DEF LinkIInv, AskersInv, Asks, n
<1>9. TypesInv'
  BY <1>1 DEF LinkIInv, TypesInv
<1>10. BuffersInv'
  <2>1. ASSUME NEW x \in RX PROVE Held(x)' = Held(x)
    <3> DEFINE H(i) == frames[i].task = x /\ frames[i].todo # << >>
               G(i) == frames'[i].task = x /\ frames'[i].todo # << >>
    <3>1. Held(x) = (IF \E i \in 1 .. n : H(i) THEN 1 ELSE 0)
      BY DEF Held, n
    <3>2. Held(x)' = (IF \E i \in 1 .. n - 1 : G(i) THEN 1 ELSE 0)
      BY <1>3 DEF Held
    <3>3. ~H(n) /\ \A i \in 1 .. n - 1 : H(i) <=> G(i)
      BY <1>1, <1>2, <1>3
    <3> HIDE DEF H, G
    <3>4. (\E i \in 1 .. n : H(i)) <=> (\E i \in 1 .. n - 1 : G(i))
      BY <1>5, <3>3
    <3> QED  BY <3>1, <3>2, <3>4
  <2>2. WithTasks' = WithTasks
    BY <1>1, <2>1 DEF WithTasks, Listed, RX
  <2> QED  BY <1>1, <2>2 DEF LinkIInv, BuffersInv
<1> QED  BY <1>4, <1>6, <1>7, <1>8, <1>9, <1>10 DEF LinkIInv

-----------------------------------------------------------------------------

\* The initial states.
LEMMA InitLinkIInv == Init => LinkIInv
<1> SUFFICES ASSUME Init PROVE LinkIInv
  OBVIOUS
<1>1. /\ posted = [c \in RX |-> << >>] /\ asynch = [c \in RX |-> << >>]
      /\ open = {"sys_evt"} /\ evt_set = {} /\ tasks = {} /\ paused = {} /\ frames = << >>
      /\ local_free = 0 /\ free_list = 0 /\ cpu2_free = NBUF
      /\ cpu2_sys = "idle" /\ advertised = FALSE /\ stopped = FALSE /\ events = 0
  BY DEF Init
<1>2. /\ Len(frames) = 0 /\ "sys_evt" \in RX /\ "ble_evt" \in RX
      /\ \A c \in RX : posted[c] = << >> /\ asynch[c] = << >> /\ Len(posted[c]) = 0 /\ Len(asynch[c]) = 0
      /\ \A S : << >> \in Seq(S)
  BY <1>1, EmptySeq DEF RX
<1>3. TypesInv
  BY <1>1, <1>2 DEF TypesInv, CHANNELS
<1>4. TasksInv
  BY <1>2 DEF TasksInv
<1>5. SysCmdInv
  BY <1>1, <1>2 DEF SysCmdInv
<1>6. StartInv
  BY <1>1, <1>2 DEF StartInv, ReadyAhead, ReadyIn, NoStart
<1>7. AskersInv
  BY <1>1, <1>2 DEF AskersInv
<1>8. BuffersInv
  <2>1. ASSUME NEW c \in RX PROVE Held(c) = 0 /\ Listed(c) = 0
    <3>1. Listed(c) = 0 + 0
      BY <1>2 DEF Listed
    <3>2. 1 .. Len(frames) = {}
      BY <1>2
    <3>3. Held(c) = 0
      BY <3>2 DEF Held
    <3> QED  BY <3>1, <3>3
  <2>2. WithTasks = 0
    BY <1>2, <2>1 DEF WithTasks
  <2> QED  BY <1>1, <2>2, LinkConstants DEF BuffersInv, LinkConstants
<1> QED  BY <1>3, <1>4, <1>5, <1>6, <1>7, <1>8 DEF LinkIInv

\* Every step keeps the invariant.
LEMMA NextLinkIInv ==
  ASSUME IInv, LinkIInv, [Next]_vars
  PROVE  LinkIInv'
<1>1. CASE Cpu2 \/ AdvTimer
  BY <1>1, Cpu2Keeps
<1>2. CASE \E c \in RX : Cpu2Sends(c)
  BY <1>2, SendsKeeps
<1>3. CASE Interrupt
  BY <1>3, DrainKeeps, InterruptKeeps DEF Interrupt
<1>4. CASE (\E t \in RX \cup {"adv_cancel"} : RunTask(t)) \/ Notify \/ Return
  BY <1>4, RunKeeps, NotifyKeeps, ReturnKeeps
<1>5. CASE (\E x \in {"sys", "ble_init"} : SendSys(x)) \/ SysSetFlag \/ SysEnableTransmit \/ SysAnswered
  BY <1>5, SendSysKeeps, SysKeeps
<1>6. CASE OpenBle \/ SendHci \/ HciAnswered \/ Advertises
  BY <1>6, OpenBleKeeps, HciKeeps, AdvertisesKeeps
<1>7. CASE EvtDone \/ SendFreeBuf \/ FreeWhenTaken \/ FreeNow \/ FreeSetFlag
  BY <1>7, EvtDoneKeeps, FreeKeeps
<1>8. CASE UNCHANGED vars
  <2>1. UNCHANGED <<frames, paused, posted, asynch, events, advertised, stopped, tasks, flag, open, evt_set,
                    cpu2_sys, local_free, free_list, cpu2_free>>
    BY <1>8 DEF vars, mailbox, queues, sequencer, buffers, cpu2, outcome, bounds
  <2>2. TypesInv'
    BY <2>1 DEF LinkIInv, TypesInv
  <2> QED  BY <2>1, <2>2, TasksStay, StartStays, AskersStay, BuffersStay, SysCmdStays DEF LinkIInv
<1> QED  BY <1>1, <1>2, <1>3, <1>4, <1>5, <1>6, <1>7, <1>8 DEF Next, Cpu1

\* The invariant says what LinkInv says.
LEMMA AnswersAreTheirOwn == IInv /\ LinkIInv => LinkInv
<1> SUFFICES ASSUME IInv, LinkIInv PROVE LinkInv
  OBVIOUS
<1>1. TypeOK
  <2>1. \A c \in RX : Len(posted[c]) \in Nat /\ Len(asynch[c]) \in Nat /\ Held(c) \in Nat /\ Listed(c) = Len(posted[c]) + Len(asynch[c])
    BY LenProperties DEF LinkIInv, TypesInv, Held, Listed
  <2>2. \A c \in RX : Listed(c) \in Nat
    <3> TAKE c \in RX
    <3> DEFINE a == Len(posted[c])
               b == Len(asynch[c])
    <3>1. a \in Nat /\ b \in Nat /\ Listed(c) = a + b
      BY <2>1
    <3> HIDE DEF a, b
    <3> QED  BY <3>1
  <2> DEFINE p == Listed("sys_evt")
             q == Held("sys_evt")
             r == Listed("ble_evt")
             s == Held("ble_evt")
  <2>3. p \in Nat /\ q \in Nat /\ r \in Nat /\ s \in Nat
    BY <2>1, <2>2 DEF RX
  <2>4. p + q + r + s + local_free + free_list + cpu2_free = NBUF
    BY DEF LinkIInv, BuffersInv, WithTasks
  <2>5. local_free \in Nat /\ free_list \in Nat /\ cpu2_free \in Nat /\ NBUF \in Nat
    BY LinkConstants DEF LinkIInv, BuffersInv, LinkConstants
  <2> HIDE DEF p, q, r, s
  <2>6. /\ p <= NBUF /\ r <= NBUF
        /\ local_free \in 0 .. NBUF /\ free_list \in 0 .. NBUF /\ cpu2_free \in 0 .. NBUF
    BY <2>3, <2>4, <2>5
  <2>7. \A c \in RX : Len(posted[c]) + Len(asynch[c]) <= NBUF
    <3>1. \A c \in RX : Listed(c) <= NBUF
      BY <2>6 DEF RX, p, r
    <3> QED  BY <2>1, <3>1
  <2> QED  BY <2>6, <2>7 DEF IInv, LinkIInv, TypesInv, TypeOK
<1>2. AnswerIsItsOwn
  <2> DEFINE n == Len(frames)
  <2>1. DOMAIN frames = 1 .. n /\ n \in Nat
    BY LenProperties DEF IInv, StackInv
  <2>2. "sys" \in evt_set => cpu2_sys \in {"answered", "refused"}
    BY DEF LinkIInv, SysCmdInv
  <2>3. ASSUME NEW i \in 1 .. n, NEW j \in 1 .. n, frames[i].pc = "hci_wait", frames[j].pc = "hci_wait"
        PROVE  i = j
    <3>1. Asks(frames[i]) /\ Asks(frames[j])
      BY <2>3, WaiterAsks DEF LinkIInv
    <3>2. ~(i < j) /\ ~(j < i)
      BY <2>3, <3>1 DEF LinkIInv, TasksInv
    <3> HIDE DEF n
    <3> QED  BY <2>1, <3>2
  <2> QED  BY <2>1, <2>2, <2>3 DEF AnswerIsItsOwn
<1> QED  BY <1>1, <1>2 DEF LinkInv

\* Where events and waiting tasks may be (shci_user_evt_proc, hci_user_evt_proc, the
\* waits of app_ble.c), always; and no buffer of the pool is lost or counted twice
\* (TL_MM_EvtDone, HW_IPCC_MM_SendFreeBuf).
THEOREM LinkInvariant == Spec => []LinkIInv
<1>1. Init => LinkIInv
  BY InitLinkIInv
<1>2. IInv /\ LinkIInv /\ [Next]_vars => LinkIInv'
  BY NextLinkIInv
<1> QED  BY <1>1, <1>2, Invariant, PTL DEF Spec

\* Whatever runs on the stack of a wait (UTIL_SEQ_WaitEvt), nothing releases a system
\* command that CPU2 has not answered, two HCI commands are never under way at once,
\* and the lists never hold more than the pool has.
THEOREM AnswersCorrect == Spec => []LinkInv
<1>1. IInv /\ LinkIInv => LinkInv
  BY AnswersAreTheirOwn
<1> QED  BY <1>1, Invariant, LinkInvariant, PTL

=============================================================================
