---------------------------- MODULE JournalStore ----------------------------
(***************************************************************************)
(* The journal file as its store and its scanner see it                    *)
(* (src/storage/journal_store.cpp, scan_journal of src/journal/codec.cpp). *)
(*                                                                         *)
(* A file is a sequence of frames, as a scan that starts at each of them   *)
(* takes it: whole, with the command batch in it; torn, when by its header *)
(* it ends behind the end of the file, or its header does; or corrupt.     *)
(* JournalFrames has the same file cell by cell.                           *)
(***************************************************************************)
EXTENDS Naturals, Sequences, SequencesExt, Outcome

Frame(batch) == [complete |-> TRUE, batch |-> batch]
TornFrame == [complete |-> FALSE, short |-> TRUE]
CorruptFrame == [complete |-> FALSE, short |-> FALSE]

(* What the file may hold once an append has failed, or the process has    *)
(* died in it: nothing of the frame, a part of it, or all of it (the       *)
(* stream still flushes what it buffered when it is closed).               *)
Leftovers(file, batch) ==
  {file, Append(file, TornFrame), Append(file, Frame(batch))}

(* scan_journal reads up to the first frame that does not decode, and     *)
(* takes the file for torn there when that frame is short: also when whole *)
(* frames stand behind it, within the length that its header declares.     *)
Readable(file) == {i \in DOMAIN file : \A j \in 1..i : file[j].complete}

StopsAt(file, frame) ==
  \E i \in DOMAIN file :
    file[i] = frame /\ \A j \in 1..(i - 1) : file[j].complete

IsTorn(file) == StopsAt(file, TornFrame)
ScanError(file) == Fail(StopsAt(file, CorruptFrame), "CodecFailure")
BatchesOf(file) == [i \in Readable(file) |-> file[i].batch]

(* recover_journal cuts off a torn frame and all that is behind it.        *)
TruncateAlways(file) == IF file = <<>> THEN file ELSE Front(file) \* mutant
TruncateTail(file) ==
  IF IsTorn(file) THEN [i \in Readable(file) |-> file[i]] ELSE file

(* recover_journal: read_all may fail, and so may the truncation.          *)
RecoveryError(file, readable, resizable) ==
     Fail(~readable, "StoreFailure")
  ?? ScanError(file)
  ?? Fail(IsTorn(file) /\ ~resizable, "StoreFailure")

=============================================================================
