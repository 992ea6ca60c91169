------------------------------- MODULE SDLog -------------------------------
(***************************************************************************)
(* The SD run log of Core/Src/main.c: the commands that open and close a   *)
(* run, the double buffer between SDLog_WriteSample and SDLog_Service, the *)
(* puff rows, and the files on the card.  All of it runs in the main loop, *)
(* one call at a time in the order of the loop (pc); an action is a whole  *)
(* call with one of the outcomes FatFs can give it.                        *)
(*                                                                         *)
(* A file is the sequence of its rows, the header being row 0, with the    *)
(* number of rows its directory entry covers: FatFs updates the entry in   *)
(* f_sync and f_close, so a power cut leaves just those rows.  A write may *)
(* fail, or end short with FR_OK on a full card, with part of its row in   *)
(* the file.                                                               *)
(*                                                                         *)
(* Left out: the contents of the rows (RFPuff has the puff numbers), and   *)
(* what the host writes once the card is its own (CardOwnership).          *)
(***************************************************************************)
EXTENDS Integers, Sequences

CONSTANTS
  MAG_BUF_LEN,  \* rows in each half of the double buffer
  RUNS,         \* the last run number SDLog_FindNextRun tries (999)
  MaxRows,      \* bound: MAG rows sampled and puff rows written
  MaxCuts       \* bound: power cuts

ASSUME LogConstants ==
  MAG_BUF_LEN \in Nat \ {0} /\ RUNS \in Nat /\ MaxRows \in Nat /\ MaxCuts \in Nat

VARIABLES
  sd_mounted, sd_logging, sd_faulted,
  \* mag_fill_buf[0 .. mag_fill_count - 1], mag_write_buf[0 .. mag_write_count - 1]
  mag_fill, mag_write, mag_buffer_ready, mag_overrun,
  run,    \* the run sd_puff_file and sd_mag_file belong to
  open,   \* which of the two FatFs holds open
  card,   \* the files on the card
  pc,     \* the call of the main loop that comes next
  \* history: the row numbers used, the rows handed over in each run, the runs
  \* that were closed cleanly, the power cuts
  serial, given, kept, cuts

flags == <<sd_mounted, sd_logging, sd_faulted>>
buffers == <<mag_fill, mag_write, mag_buffer_ready, mag_overrun>>
files == <<run, open, card>>
vars == <<flags, buffers, files, pc, serial, given, kept, cuts>>

KINDS == {"puff", "mag"}
Header == 0
NoFile == [made |-> FALSE, rows |-> << >>, synced |-> 0]

\* A part of row n, and what a write of row n that fails leaves of it.
Part(n) == -n - 1
Torn(n) == {<< >>, <<Part(n)>>}

\* main() starts with the static initial values; the card may hold anything,
\* here a card without runs.
RamInit ==
  /\ sd_mounted = FALSE /\ sd_logging = FALSE /\ sd_faulted = FALSE
  /\ mag_fill = << >> /\ mag_write = << >>
  /\ mag_buffer_ready = FALSE /\ mag_overrun = FALSE
  /\ run = 0 /\ open = {} /\ pc = "command"

Init ==
  /\ RamInit
  /\ card = [i \in 1 .. RUNS |-> [k \in KINDS |-> NoFile]]
  /\ serial = 1 /\ given = [i \in 1 .. RUNS |-> [k \in KINDS |-> << >>]]
  /\ kept = {} /\ cuts = 0

-----------------------------------------------------------------------------
(* FatFs, on the files of the current run.                                 *)

\* c after a successful f_sync or f_close of the files ks.
WithSynced(c, ks) ==
  [c EXCEPT ![run] = [k \in KINDS |->
     IF k \in ks THEN [@[k] EXCEPT !.synced = Len(c[run][k].rows)] ELSE @[k]]]

\* c after rows were written to file k.
WithRows(c, k, rows) == [c EXCEPT ![run][k].rows = @ \o rows]

\* The card after SDLog_Service wrote a block, which it does if there is one;
\* a second after the last sync it synchronises both files.
WithBlock(c, block) ==
  IF block = << >> THEN {c}
  ELSE {WithSynced(WithRows(c, "mag", block), ks) : ks \in {{}, KINDS}}

\* SDLog_Abort, on card contents c: both files are closed, which may fail, and
\* the file system is detached, which invalidates both file objects.
\* Mutant: sd_logging is left set.
SDLog_Abort_KeepsLogging(c) ==
  /\ sd_faulted' = TRUE /\ sd_mounted' = FALSE /\ UNCHANGED sd_logging
  /\ open' = {}
  /\ \E closed \in SUBSET KINDS : card' = WithSynced(c, closed)
  /\ UNCHANGED run
SDLog_Abort(c) ==
  /\ sd_faulted' = TRUE
  /\ sd_logging' = FALSE
  /\ sd_mounted' = FALSE
  /\ open' = {}
  /\ \E closed \in SUBSET KINDS : card' = WithSynced(c, closed)
  /\ UNCHANGED run

-----------------------------------------------------------------------------
(* The command 'd'.                                                        *)

\* SDLog_Mount fails: the card is detached.
MountFails ==
  /\ sd_mounted' = FALSE
  /\ open' = {}
  /\ UNCHANGED <<sd_logging, sd_faulted, buffers, run, card, given>>

\* SDLog_FindNextRun: the first number neither of whose files exists.
Free(i) == \A k \in KINDS : ~card[i][k].made
NextRun == {i \in 1 .. RUNS : Free(i) /\ \A j \in 1 .. i - 1 : ~Free(j)}

\* No number is free, f_stat fails, or the PUFF file cannot be created.
FindOrOpenFails ==
  /\ sd_mounted' = TRUE
  /\ open' = {}
  /\ UNCHANGED <<sd_logging, sd_faulted, buffers, run, card, given>>

\* The files of run i, with what is in them and which of them are not synced.
NewFiles(i, made, rows, unsynced) ==
  /\ run' = i
  /\ card' = [card EXCEPT ![i] = [k \in KINDS |->
       IF k \in made
         THEN [made |-> TRUE, rows |-> rows[k],
               synced |-> IF k \in unsynced THEN 0 ELSE Len(rows[k])]
         ELSE @[k]]]
  /\ given' = [given EXCEPT ![i] = [k \in KINDS |-> <<Header>>]]

\* The files made and what is in them where SDLog_Start gives up: the MAG file
\* is not created, a header is not written whole, or the first sync fails.
HeaderWhole == [k \in KINDS |-> <<Header>>]
Unfinished ==
  {[made |-> {"puff"}, rows |-> [k \in KINDS |-> << >>]], [made |-> KINDS, rows |-> HeaderWhole]}
  \cup {[made |-> KINDS, rows |-> [k \in KINDS |-> IF k = "puff" THEN torn ELSE << >>]] :
         torn \in Torn(Header)}
  \cup {[made |-> KINDS, rows |-> [k \in KINDS |-> IF k = "mag" THEN torn ELSE <<Header>>]] :
         torn \in Torn(Header)}

\* The files made are closed, which may fail too (left), and stay on the card; f_sync
\* may have synchronised the PUFF file before it failed on the other.
HeaderFails ==
  /\ \E i \in NextRun, f \in Unfinished, left \in SUBSET KINDS, unsynced \in SUBSET KINDS :
       /\ left \subseteq f.made
       /\ unsynced = left \/ (f.rows = HeaderWhole /\ unsynced = left \ {"puff"})
       /\ NewFiles(i, f.made, f.rows, unsynced)
       /\ open' = left
  /\ sd_mounted' = TRUE
  /\ UNCHANGED <<sd_logging, sd_faulted, buffers>>

\* The buffers a new run starts with.  Mutant: a block an aborted run left
\* waiting is kept.
ResetBuffers_KeepsBlock ==
  mag_fill' = << >> /\ mag_overrun' = FALSE /\ UNCHANGED <<mag_write, mag_buffer_ready>>
ResetBuffers ==
  mag_fill' = << >> /\ mag_write' = << >> /\ mag_buffer_ready' = FALSE /\ mag_overrun' = FALSE

\* Mutant: sd_faulted is not cleared.
SetLogging_KeepsFault == sd_mounted' = TRUE /\ sd_logging' = TRUE /\ UNCHANGED sd_faulted
SetLogging == sd_mounted' = TRUE /\ sd_logging' = TRUE /\ sd_faulted' = FALSE

RunOpens ==
  /\ \E i \in NextRun : NewFiles(i, KINDS, HeaderWhole, {})
  /\ open' = KINDS
  /\ ResetBuffers
  /\ SetLogging

SDLog_Start ==
  /\ ~sd_logging
  /\ MountFails \/ FindOrOpenFails \/ HeaderFails \/ RunOpens
  /\ UNCHANGED kept

-----------------------------------------------------------------------------
(* SDLog_WriteSample, SDLog_Service, SDLog_WritePuffEvent.                 *)

\* Hand over row n of file k, if the bound on rows allows one more.
Given(k) ==
  /\ serial <= MaxRows
  /\ serial' = serial + 1
  /\ given' = [given EXCEPT ![run][k] = Append(@, serial)]

FillFull == Len(mag_fill) >= MAG_BUF_LEN

SDLog_WriteSample ==
  /\ sd_logging
  /\ Given("mag")
  /\ \/ /\ ~FillFull
        /\ mag_fill' = Append(mag_fill, serial)
        /\ UNCHANGED <<mag_write, mag_buffer_ready, mag_overrun>>
     \/ /\ FillFull /\ mag_buffer_ready
        /\ mag_overrun' = TRUE
        /\ UNCHANGED <<mag_fill, mag_write, mag_buffer_ready>>
     \/ /\ FillFull /\ ~mag_buffer_ready
        /\ mag_write' = mag_fill
        /\ mag_fill' = <<serial>>
        /\ mag_buffer_ready' = TRUE
        /\ UNCHANGED mag_overrun
  /\ UNCHANGED <<flags, files, kept>>

\* SDLog_Service fails on a block with card contents c, `rest' being in
\* mag_fill: a row is not written, or not whole, or the sync fails.
BlockFails(c, block, rest) ==
  /\ mag_fill' = rest
  /\ \/ /\ \E n \in 0 .. Len(block) - 1 : \E torn \in Torn(block[n + 1]) :
             SDLog_Abort(WithRows(c, "mag", SubSeq(block, 1, n) \o torn))
        /\ mag_write' = block /\ mag_buffer_ready' = TRUE
     \/ /\ SDLog_Abort(WithRows(c, "mag", block))
        /\ mag_write' = << >> /\ mag_buffer_ready' = FALSE
  /\ UNCHANGED mag_overrun

\* The whole block is written, and an overrun is reported.
BlockWritten ==
  /\ card' \in WithBlock(card, mag_write)
  /\ mag_write' = << >> /\ mag_buffer_ready' = FALSE
  /\ mag_overrun' = FALSE
  /\ UNCHANGED <<flags, mag_fill, run, open>>

SDLog_Service ==
  /\ sd_logging /\ mag_buffer_ready
  /\ BlockFails(card, mag_write, mag_fill) \/ BlockWritten
  /\ UNCHANGED <<serial, given, kept>>

SDLog_WritePuffEvent ==
  /\ sd_logging
  /\ Given("puff")
  /\ \/ \E torn \in Torn(serial) : SDLog_Abort(WithRows(card, "puff", torn))
     \/ card' = WithRows(card, "puff", <<serial>>) /\ UNCHANGED <<flags, run, open>>
  /\ UNCHANGED <<buffers, kept>>

-----------------------------------------------------------------------------
(* The commands 's', 'e' and 'boot'.                                       *)

Waiting == IF mag_buffer_ready THEN mag_write ELSE << >>

\* SDLog_FlushMagBuffers writes the waiting block, then the rows being filled.
\* Mutant: only the waiting block.
Flushed_WaitingOnly == WithBlock(card, Waiting)
Flushed == UNION {WithBlock(c, mag_fill) : c \in WithBlock(card, Waiting)}

FlushFails ==
  /\ \/ mag_buffer_ready /\ BlockFails(card, mag_write, mag_fill)
     \/ /\ mag_fill # << >>
        /\ \E c \in WithBlock(card, Waiting) : BlockFails(c, mag_fill, << >>)
  /\ UNCHANGED kept

FlushSucceeds ==
  /\ mag_fill' = << >> /\ mag_write' = << >> /\ mag_buffer_ready' = FALSE
  /\ mag_overrun' \in {mag_overrun, FALSE}
  /\ UNCHANGED run

CloseFails ==
  /\ FlushSucceeds
  /\ \E c \in Flushed, synced \in SUBSET KINDS, closed \in SUBSET KINDS :
       /\ synced # KINDS \/ closed # KINDS
       /\ card' = WithSynced(c, synced \cup closed)
       /\ open' = KINDS \ closed
  /\ sd_logging' = FALSE /\ sd_faulted' = TRUE
  /\ UNCHANGED kept

ClosesCleanly ==
  /\ FlushSucceeds
  /\ \E c \in Flushed : card' = WithSynced(c, KINDS)
  /\ open' = {}
  /\ sd_logging' = FALSE
  /\ kept' = kept \cup {run}

SDLog_Stop ==
  /\ sd_logging
  /\ \/ FlushFails
     \/ CloseFails /\ UNCHANGED sd_mounted
     \/ ClosesCleanly /\ UNCHANGED <<sd_mounted, sd_faulted>>
  /\ UNCHANGED given

\* SDLog_Eject up to the switch to mass storage.  f_mount(NULL) may fail.
SDLog_Eject ==
  /\ \/ /\ ~sd_logging
        /\ UNCHANGED <<sd_logging, buffers, run, card, kept>>
        /\ sd_faulted' = FALSE
        /\ \/ sd_mounted' = FALSE /\ open' = {}
           \/ sd_mounted /\ UNCHANGED <<sd_mounted, open>>
     \/ /\ sd_logging
        /\ \/ FlushFails
           \/ CloseFails /\ UNCHANGED sd_mounted
           \/ ClosesCleanly /\ sd_faulted' = FALSE /\ sd_mounted' \in {FALSE, sd_mounted}
  /\ UNCHANGED given

\* A power cut or a reset: RAM is lost, and what is on the card but not in the
\* directory; a file that was never synchronised may have no entry at all.
Restart(c) ==
  /\ sd_mounted' = FALSE /\ sd_logging' = FALSE /\ sd_faulted' = FALSE
  /\ mag_fill' = << >> /\ mag_write' = << >>
  /\ mag_buffer_ready' = FALSE /\ mag_overrun' = FALSE
  /\ run' = 0 /\ open' = {} /\ pc' = "command"
  /\ \E lost \in SUBSET {ik \in (1 .. RUNS) \X KINDS : c[ik[1]][ik[2]].synced = 0} :
       card' = [i \in 1 .. RUNS |-> [k \in KINDS |->
         IF <<i, k>> \in lost THEN NoFile
         ELSE [c[i][k] EXCEPT !.rows = SubSeq(@, 1, c[i][k].synced)]]]
  /\ UNCHANGED <<serial, given>>

PowerCut ==
  /\ cuts < MaxCuts
  /\ cuts' = cuts + 1
  /\ Restart(card)
  /\ UNCHANGED kept

\* Cmd_EnterBootloader: a failed stop cancels it, otherwise it ends in a reset.
BootCancelled ==
  /\ sd_logging
  /\ FlushFails \/ (CloseFails /\ UNCHANGED sd_mounted)
  /\ UNCHANGED given

BootResets ==
  /\ cuts < MaxCuts
  /\ cuts' = cuts + 1
  /\ \/ ~sd_logging /\ Restart(card) /\ UNCHANGED kept
     \/ /\ sd_logging
        /\ \E c \in Flushed : Restart(WithSynced(c, KINDS))
        /\ kept' = kept \cup {run}

-----------------------------------------------------------------------------
(* The main loop.                                                          *)

\* Mutant: SDLog_Service is not called.
After_NoService(call) ==
  [command |-> "sample", sample |-> "puff", puff |-> "command", service |-> "command"][call]
After(call) ==
  [command |-> "sample", sample |-> "puff", puff |-> "service", service |-> "command"][call]

\* The call has nothing to do, or has done it.
Idle ==
  /\ ~(pc = "service" /\ sd_logging /\ mag_buffer_ready)
  /\ pc' = After(pc)
  /\ UNCHANGED <<flags, buffers, files, serial, given, kept, cuts>>

\* A command that does nothing to the log ('p', 'x', ...) is Idle.
Command ==
  /\ pc = "command" /\ pc' = After("command")
  /\ SDLog_Start \/ SDLog_Stop \/ SDLog_Eject \/ BootCancelled
  /\ UNCHANGED <<serial, cuts>>

Sample ==
  pc = "sample" /\ pc' = After("sample") /\ SDLog_WriteSample /\ UNCHANGED cuts

\* PuffLogService hands over any number of events.
Puff == pc = "puff" /\ UNCHANGED pc /\ SDLog_WritePuffEvent /\ UNCHANGED cuts

Service ==
  pc = "service" /\ pc' = After("service") /\ SDLog_Service /\ UNCHANGED cuts

Boot == pc = "command" /\ BootResets

Next == Command \/ Sample \/ Puff \/ Service \/ Boot \/ PowerCut \/ Idle
Spec == Init /\ [][Next]_vars

-----------------------------------------------------------------------------
(* Properties.                                                             *)

File == [made : BOOLEAN, rows : Seq(Int), synced : Nat]

TypeOK ==
  /\ sd_mounted \in BOOLEAN /\ sd_logging \in BOOLEAN /\ sd_faulted \in BOOLEAN
  /\ mag_fill \in Seq(Nat) /\ Len(mag_fill) <= MAG_BUF_LEN
  /\ mag_write \in Seq(Nat) /\ Len(mag_write) <= MAG_BUF_LEN
  /\ mag_buffer_ready \in BOOLEAN /\ mag_overrun \in BOOLEAN
  /\ run \in 0 .. RUNS /\ open \subseteq KINDS
  /\ card \in [1 .. RUNS -> [KINDS -> File]]
  /\ pc \in {"command", "sample", "puff", "service"}
  /\ serial \in Nat /\ given \in [1 .. RUNS -> [KINDS -> Seq(Nat)]]
  /\ kept \subseteq 1 .. RUNS /\ cuts \in Nat

\* s is the first rows of t, of which the last may be there in part.
FirstRows(s, t) ==
  /\ Len(s) <= Len(t)
  /\ \A j \in 1 .. Len(s) : s[j] = t[j] \/ (j = Len(s) /\ s[j] = Part(t[j]))

\* While a run is logged, its MAG file, the block that waits and the rows being
\* filled are together exactly the rows sampled, in order: the double buffer
\* loses, repeats and swaps none, and mag_overrun is never set.  The PUFF file
\* is exactly the puff events handed over.
RowsAccountedFor ==
  sd_logging =>
    /\ card[run]["mag"].rows \o (IF mag_buffer_ready THEN mag_write ELSE << >>)
         \o mag_fill = given[run]["mag"]
    /\ card[run]["puff"].rows = given[run]["puff"]

\* Rows are only written through file objects FatFs holds open, on a mounted
\* card: no failure path leaves the log running without its files.
LogsToOpenFiles ==
  sd_logging => sd_mounted /\ open = KINDS /\ \A k \in KINDS : card[run][k].made
LogInv == TypeOK /\ LogsToOpenFiles

\* However a run ends (a failed or short write, a failed close, a power cut, a
\* failed header), its files hold the first rows of that run, and after them at
\* most a part of the next one: no gap, nothing after a torn row, and no row of an
\* earlier run that was still in a buffer.
EveryRunIsAPrefix ==
  \A i \in 1 .. RUNS, k \in KINDS : FirstRows(card[i][k].rows, given[i][k])

\* A run that was stopped, ejected or left by 'boot' without a reported fault is
\* complete on the card, with no torn row, whatever power cuts and runs follow.
CleanRunIsComplete ==
  \A i \in kept, k \in KINDS :
    card[i][k].rows = given[i][k] /\ card[i][k].synced = Len(given[i][k])

\* The three flags change as the abstract session says.
Abstract == INSTANCE SdSession WITH
  session <- [mounted |-> sd_mounted, logging |-> sd_logging, faulted |-> sd_faulted]
ImplementsSession == Abstract!SessionSpec
=============================================================================
