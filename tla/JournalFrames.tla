--------------------------- MODULE JournalFrames ---------------------------
(***************************************************************************)
(* The layout of the journal file and the scan that reads it back          *)
(* (encode_frame, decode_frame and scan_journal of src/journal/codec.cpp,  *)
(* recover_journal of src/storage/journal_store.cpp).                      *)
(*                                                                         *)
(* A file is a sequence of cells, each a field with its content; a frame   *)
(* is a magic cell (with the version), a length cell, the cells of the     *)
(* payload and a checksum cell.  The server may stop within an append,     *)
(* which leaves any prefix of the frame, and cells of the file may change  *)
(* while no server runs.  JournalStore has the same file as whole, torn    *)
(* and corrupt frames; ScanIsTheStores says that it may.                   *)
(***************************************************************************)
EXTENDS Naturals, Sequences, SequencesExt, Outcome

CONSTANTS Bytes,            \* what a payload is made of
          Payloads,         \* the encoded batches
          MaximumPayload,   \* maximum_payload_length
          MaxFrames,        \* bound on the frames written
          MaxDamage         \* bound on the cells damaged

ASSUME PayloadsEncode ==
  /\ MaximumPayload \in Nat
  /\ \A p \in Payloads : p \in Seq(Bytes) /\ Len(p) \in 1..MaximumPayload
ASSUME FrameBounds == MaxFrames \in Nat /\ MaxDamage \in Nat

VARIABLES
  bytes,        \* the file
  open,         \* a server has recovered it and appends
  written,      \* auxiliary: the payloads in it, as its writers know them
  damage        \* auxiliary: how many cells were changed so far

vars == <<bytes, open, written, damage>>

Init == bytes = <<>> /\ open = FALSE /\ written = <<>> /\ damage = 0

-----------------------------------------------------------------------------
(* The checksum is ideal: that of a payload is the one of no other.        *)
HeaderSize == 2
CrcSize == 1
Magic == <<"magic", "BBK1">>
Length(n) == <<"length", n>>
Data(payload) == [i \in DOMAIN payload |-> <<"byte", payload[i]>>]
Crc(data) == <<"crc", data>>

EncodeFrame(payload) ==
  <<Magic, Length(Len(payload))>> \o Data(payload) \o <<Crc(Data(payload))>>

EncodeJournal(payloads) ==
  FlattenSeq([i \in DOMAIN payloads |-> EncodeFrame(payloads[i])])

(* decode_frame of what is left of the file.                               *)
PayloadSize(rest) == rest[2][2]
FrameSize(rest) == HeaderSize + PayloadSize(rest) + CrcSize
DataOf(rest) == SubSeq(rest, HeaderSize + 1, HeaderSize + PayloadSize(rest))
StoredCrc(rest) == rest[HeaderSize + PayloadSize(rest) + 1]

(* Mutant of HeaderError: the magic is not looked at.                      *)
HeaderErrorOfLength(rest) ==
     Fail(Len(rest) < HeaderSize, "UnexpectedEnd")
  ?? Fail(PayloadSize(rest) > MaximumPayload, "PayloadTooLarge")
HeaderError(rest) ==
     Fail(Len(rest) < HeaderSize, "UnexpectedEnd")
  ?? Fail(rest[1] # Magic, "InvalidMagic")
  ?? Fail(PayloadSize(rest) > MaximumPayload, "PayloadTooLarge")

(* Mutant of SizeError: a frame that ends with the file is short.          *)
SizeErrorAtEnd(rest) == Fail(Len(rest) <= FrameSize(rest), "UnexpectedEnd")
SizeError(rest) == Fail(Len(rest) < FrameSize(rest), "UnexpectedEnd")

Unchecked(rest) == Ok                                \* mutant of CrcError
CrcError(rest) == Fail(StoredCrc(rest) # Crc(DataOf(rest)), "CrcMismatch")

DecodeError(rest) == HeaderError(rest) ?? SizeError(rest) ?? CrcError(rest)

DecodePayload(rest) == [i \in 1..PayloadSize(rest) |-> DataOf(rest)[i][2]]

-----------------------------------------------------------------------------
(* scan_journal: the frames up to the end, to the first one cut short or   *)
(* to the first one that is wrong.                                         *)
ScanStopped(error, offset, torn) ==
  [error |-> error, payloads |-> <<>>, lastValidOffset |-> offset,
   truncatedTail |-> torn]

ScanJournal(file) ==
  LET scanFrom[offset \in 0..Len(file)] ==
        LET rest == SubSeq(file, offset + 1, Len(file))
            error == DecodeError(rest)
        IN  CASE rest = <<>> -> ScanStopped(Ok, offset, FALSE)
              [] rest # <<>> /\ error = "UnexpectedEnd" ->
                   ScanStopped(Ok, offset, TRUE)
              [] rest # <<>> /\ error \notin {Ok, "UnexpectedEnd"} ->
                   ScanStopped(error, offset, FALSE)
              [] OTHER ->
                   LET later == scanFrom[offset + FrameSize(rest)]
                   IN  [later EXCEPT !.payloads = <<DecodePayload(rest)>> \o @]
  IN  scanFrom[0]

(* recover_journal cuts off what follows the last valid frame.             *)
KeepTail(file, scan) == file                       \* mutant of Truncated
Truncated(file, scan) ==
  IF scan.truncatedTail THEN SubSeq(file, 1, scan.lastValidOffset) ELSE file

-----------------------------------------------------------------------------
AppendAndFlush == \E p \in Payloads :
  /\ open /\ Len(written) < MaxFrames
  /\ bytes' = bytes \o EncodeFrame(p)
  /\ written' = Append(written, p)
  /\ UNCHANGED <<open, damage>>

(* The server ends, or stops writing for good, within an append: a prefix  *)
(* of the frame is there, from nothing to all of it.                       *)
StopWithin == \E p \in Payloads :
  /\ open
  /\ \E n \in 0..Len(EncodeFrame(p)) :
       /\ n = Len(EncodeFrame(p)) => Len(written) < MaxFrames
       /\ bytes' = bytes \o SubSeq(EncodeFrame(p), 1, n)
       /\ written' = IF n = Len(EncodeFrame(p)) THEN Append(written, p) ELSE written
  /\ open' = FALSE
  /\ UNCHANGED damage

(* What a cell may be turned into: a length is any number then, possibly   *)
(* one no payload has; the checksum is that of other data.                 *)
DamagedCells(cell) ==
  (CASE cell[1] = "length" -> {Length(n) : n \in 0..(MaximumPayload + 1)}
     [] cell[1] = "byte"   -> {<<"byte", b>> : b \in Bytes}
     [] cell[1] = "crc"    -> {Crc(<<>>)}
     [] cell[1] = "magic"  -> {<<"magic", "BBK2">>}) \ {cell}

Damage ==
  /\ ~open /\ damage < MaxDamage
  /\ \E i \in DOMAIN bytes : \E cell \in DamagedCells(bytes[i]) :
       bytes' = [bytes EXCEPT ![i] = cell]
  /\ damage' = damage + 1
  /\ UNCHANGED <<open, written>>

(* A start that succeeds; what it reads is the journal from then on.       *)
Recover ==
  LET scan == ScanJournal(bytes)
  IN  /\ ~open /\ scan.error = Ok
      /\ bytes' = Truncated(bytes, scan)
      /\ open' = TRUE
      /\ written' = scan.payloads
      /\ UNCHANGED damage

Next == AppendAndFlush \/ StopWithin \/ Damage \/ Recover

Spec == Init /\ [][Next]_vars

-----------------------------------------------------------------------------
Intact(file) == IsPrefix(EncodeJournal(written), file)

(* Whatever happened to the file, what a scan returns are payloads that    *)
(* were written, from the first one on, in their order and none left out:  *)
(* no command is invented, altered, repeated or skipped by recovery.       *)
OnlyWrittenIsRecovered ==
  ScanJournal(bytes).error = Ok => IsPrefix(ScanJournal(bytes).payloads, written)

(* The next frame always goes directly behind a whole one: the cut after a *)
(* torn append, and after a damaged length, is exactly where it belongs.   *)
OpenIsWhole == open => bytes = EncodeJournal(written)

(* While the lengths of the whole frames are right, no damage to them is   *)
(* taken for a torn append: the scan reports it and the file is kept.      *)
ChecksummedDamageIsReported ==
  LET whole == EncodeJournal(written)
      LengthsAreRight == \A i \in DOMAIN whole :
                           whole[i][1] = "length" => bytes[i] = whole[i]
  IN  ~Intact(bytes) /\ LengthsAreRight => ScanJournal(bytes).error # Ok

(* code-tour.md: "Recovery truncates only an incomplete final frame", so   *)
(* at most one frame is missing from what a successful scan returns.       *)
OnlyFinalFrameIsCut ==
  ScanJournal(bytes).error = Ok =>
    Len(ScanJournal(bytes).payloads) >= Len(written) - 1

(* Where frames were written the file is seen as JournalStore has it: a    *)
(* frame as it was, one that by its header ends behind the end of the file *)
(* (a torn append behind the last, or a raised length), or a corrupt one.  *)
Store == INSTANCE JournalStore

StartOf(i) == Len(EncodeJournal(SubSeq(written, 1, i - 1)))

IsWhole(i) ==
  /\ i \in DOMAIN written
  /\ SubSeq(bytes, StartOf(i) + 1, StartOf(i) + Len(EncodeFrame(written[i])))
       = EncodeFrame(written[i])

EndsBehindFile(rest) ==
  \/ Len(rest) < HeaderSize
  \/ /\ rest[1] = Magic /\ PayloadSize(rest) <= MaximumPayload
     /\ Len(rest) < FrameSize(rest)

StoreFrame(i) ==
  IF IsWhole(i) THEN Store!Frame(written[i])
  ELSE IF EndsBehindFile(SubSeq(bytes, StartOf(i) + 1, Len(bytes)))
       THEN Store!TornFrame ELSE Store!CorruptFrame

StoreView ==
  [i \in {n \in 1..(Len(written) + 1) : StartOf(n) < Len(bytes)} |-> StoreFrame(i)]

(* Whatever happened to the file, the scan does what JournalStore says of  *)
(* it: it goes from frame to frame as they were written, never astray      *)
(* behind a damaged length, and refuses or cuts the file at the same one.  *)
ScanIsTheStores ==
  LET scan == ScanJournal(bytes)
  IN  /\ (scan.error # Ok) = (Store!ScanError(StoreView) # Ok)
      /\ scan.error = Ok =>
           /\ scan.payloads = Store!BatchesOf(StoreView)
           /\ scan.truncatedTail = Store!IsTorn(StoreView)

=============================================================================
