----------------------------- MODULE ServiceProofs -----------------------------
(***************************************************************************)
(* Theorems about CommandService, HttpServer and ForeignJournal, for every *)
(* value of their constants: any set of threads, any requests, any file to *)
(* start on, and any number of failed appends, crashes and restarts.       *)
(*                                                                         *)
(* The auxiliary variable past holds the states that the journaled batches *)
(* produced.  The inductive invariant ties everything to it: each batch    *)
(* leads from one of these states to the next, the published state is the  *)
(* last or the last but one, and what a thread is about to append would    *)
(* lead on from the last.                                                  *)
(***************************************************************************)
EXTENDS ForeignJournal, DomainProofs

-----------------------------------------------------------------------------
(* The journal file.                                                       *)

(* Whole frames, and behind them perhaps one cut short: what appends leave.*)
Sound(f) ==
  /\ IsSeq(f)
  /\ \A i \in 1..Len(f) :
       (i < Len(f) => f[i].complete) /\ (f[i].complete \/ f[i] = TornFrame)

(* Frames of the three kinds, in any order.                                *)
Frames(f) ==
  /\ IsSeq(f)
  /\ \A i \in 1..Len(f) : f[i].complete \/ f[i] \in {TornFrame, CorruptFrame}

(* A scan reads the first n frames, and stops there.                       *)
Stops(f, n) ==
  /\ n \in 0..Len(f) /\ Readable(f) = 1..n
  /\ \A i \in 1..n : f[i].complete
  /\ n # Len(f) => ~f[n + 1].complete

LEMMA ScanStops == ASSUME NEW f, IsSeq(f) PROVE \E n : Stops(f, n)
<1>1. PICK m \in Nat : m = Len(f) /\ DOMAIN f = 1..m
  BY SeqFacts
<1> DEFINE T == {k \in 1..m : ~f[k].complete}
<1>2. CASE T = {}
  <2>1. \A i \in 1..m : f[i].complete
    BY <1>2
  <2>2. Readable(f) = 1..m
    BY <1>1, <2>1 DEF Readable
  <2>3. Stops(f, m)
    BY <1>1, <2>1, <2>2 DEF Stops
  <2> QED BY <2>3
<1>3. CASE T # {}
  <2>1. T \in SUBSET Nat
    OBVIOUS
  <2>2. PICK k \in T : \A x \in T : k <= x
    <3> HIDE DEF T
    <3> QED BY <1>3, <2>1, SmallestNumber
  <2>3. PICK n \in 0..m : n + 1 = k /\ n # m
    <3>1. k - 1 \in 0..m /\ k - 1 + 1 = k /\ k - 1 # m
      OBVIOUS
    <3> QED BY <3>1
  <2>4. \A i \in 1..n : f[i].complete
    <3>1. TAKE i \in 1..n
    <3>2. i \in 1..m /\ ~(k <= i)
      BY <2>3
    <3>3. i \notin T
      BY <2>2, <3>2
    <3> QED BY <3>2, <3>3
  <2>5. ~f[n + 1].complete
    BY <2>3
  <2>6. Readable(f) = 1..n
    <3>1. ASSUME NEW i \in 1..n PROVE i \in Readable(f)
      BY <1>1, <2>4 DEF Readable
    <3>2. ASSUME NEW i \in 1..m, i \notin 1..n PROVE i \notin Readable(f)
      <4>1. n + 1 \in 1..i
        BY <3>2
      <4> QED BY <2>5, <4>1 DEF Readable
    <3>3. Readable(f) \in SUBSET (1..m)
      BY <1>1 DEF Readable
    <3> QED BY <3>1, <3>2, <3>3
  <2>7. Stops(f, n)
    BY <1>1, <2>3, <2>4, <2>5, <2>6 DEF Stops
  <2> QED BY <2>7
<1> QED BY <1>2, <1>3

(* What stands where the scan stops decides what becomes of the file.      *)
LEMMA StoppedBy ==
  ASSUME NEW f, IsSeq(f), NEW n, Stops(f, n)
  PROVE  /\ IsTorn(f) <=> n # Len(f) /\ f[n + 1] = TornFrame
         /\ ScanError(f) = Ok <=> ~(n # Len(f) /\ f[n + 1] = CorruptFrame)
<1>1. PICK m \in Nat : m = Len(f) /\ DOMAIN f = 1..m
  BY SeqFacts
<1>2. /\ n \in 0..m /\ \A i \in 1..n : f[i].complete
      /\ n # m => ~f[n + 1].complete
  BY <1>1 DEF Stops
<1>3. ASSUME NEW x, ~x.complete
      PROVE  StopsAt(f, x) <=> n # m /\ f[n + 1] = x
  <2>1. ASSUME NEW i \in 1..m, f[i] = x, \A j \in 1..(i - 1) : f[j].complete
        PROVE  n # m /\ i = n + 1
    <3>1. i \notin 1..n
      BY <1>2, <1>3, <2>1
    <3>2. n # m
      BY <3>1
    <3>3. n + 1 \notin 1..(i - 1)
      BY <1>2, <2>1, <3>2
    <3> QED BY <1>2, <3>1, <3>2, <3>3
  <2>2. ASSUME n # m, f[n + 1] = x PROVE StopsAt(f, x)
    <3>1. PICK i \in 1..m : i = n + 1 /\ i - 1 = n
      BY <1>2, <2>2
    <3>2. f[i] = x /\ \A j \in 1..(i - 1) : f[j].complete
      BY <1>2, <2>2, <3>1
    <3> QED BY <1>1, <3>2 DEF StopsAt
  <2> QED BY <1>1, <2>1, <2>2 DEF StopsAt
<1>4. ~TornFrame.complete /\ ~CorruptFrame.complete
  BY DEF TornFrame, CorruptFrame
<1>5. IsTorn(f) <=> n # m /\ f[n + 1] = TornFrame
  BY <1>3, <1>4 DEF IsTorn
<1>6. StopsAt(f, CorruptFrame) <=> n # m /\ f[n + 1] = CorruptFrame
  BY <1>3, <1>4
<1>7. ScanError(f) = Ok <=> ~StopsAt(f, CorruptFrame)
  BY DEF ScanError, Fail, Ok
<1> QED BY <1>1, <1>5, <1>6, <1>7

(* The batches that a scan returns: those of the first n frames.           *)
ReadsAs(f, n, J) ==
  IsSeq(J) /\ Len(J) = n /\ \A i \in 1..n : J[i] = f[i].batch

LEMMA BatchesRead ==
  ASSUME NEW f, IsSeq(f), NEW n, Stops(f, n), NEW J, J = BatchesOf(f)
  PROVE  ReadsAs(f, n, J)
<1>1. n \in Nat /\ J = [i \in 1..n |-> f[i].batch]
  BY SeqFacts DEF Stops, BatchesOf
<1>2. DOMAIN J = 1..n /\ J = [i \in 1..n |-> J[i]] /\ \A i \in 1..n : J[i] = f[i].batch
  BY <1>1
<1> QED BY <1>1, <1>2, SeqMade DEF ReadsAs

(* A file that appends left and that is not torn is whole.                 *)
LEMMA WholeFile ==
  ASSUME NEW f, Sound(f), ~IsTorn(f)
  PROVE  Stops(f, Len(f)) /\ \A i \in 1..Len(f) : f[i].complete
<1>1. IsSeq(f) /\ Len(f) \in Nat
  BY SeqFacts DEF Sound
<1>2. PICK n : Stops(f, n)
  BY <1>1, ScanStops
<1>3. n \in 0..Len(f) /\ n # Len(f) => ~f[n + 1].complete
  BY <1>2 DEF Stops
<1>4. n = Len(f)
  <2>1. SUFFICES ASSUME n # Len(f) PROVE FALSE
    OBVIOUS
  <2>2. n + 1 \in 1..Len(f) /\ ~f[n + 1].complete
    BY <1>1, <1>2, <2>1 DEF Stops
  <2>3. f[n + 1] = TornFrame
    BY <2>2 DEF Sound
  <2> QED BY <1>1, <1>2, <2>1, <2>3, StoppedBy
<1> QED BY <1>2, <1>4 DEF Stops

(* It holds one batch per frame.                                           *)
LEMMA BatchesOfWhole ==
  ASSUME NEW f, Sound(f), ~IsTorn(f), NEW J, J = BatchesOf(f)
  PROVE  IsSeq(J) /\ Len(J) = Len(f) /\ \A i \in 1..Len(f) : J[i] = f[i].batch
<1>1. IsSeq(f) /\ Stops(f, Len(f))
  BY WholeFile DEF Sound
<1> QED BY <1>1, BatchesRead DEF ReadsAs

(* A file of whole frames is one that appends leave, and is not torn.      *)
LEMMA WholeIsSound ==
  ASSUME NEW f, IsSeq(f), \A i \in 1..Len(f) : f[i].complete
  PROVE  Sound(f) /\ ~IsTorn(f)
<1>1. Sound(f)
  BY DEF Sound
<1>2. PICK n : Stops(f, n)
  BY ScanStops
<1>3. PICK m \in Nat : m = Len(f)
  BY SeqFacts
<1>4. n = m
  <2>1. n \in 0..m /\ (n # m => ~f[n + 1].complete)
    BY <1>2, <1>3 DEF Stops
  <2>2. n # m => n + 1 \in 1..m
    BY <2>1
  <2> QED BY <1>3, <2>1, <2>2
<1>5. ~IsTorn(f)
  BY <1>2, <1>3, <1>4, StoppedBy
<1> QED BY <1>1, <1>5

(* t is what recover_journal leaves of f.  It cuts no frame that the scan  *)
(* has read, and where it succeeds, whole frames are left.                 *)
IsCutTo(f, t) ==
  /\ IsSeq(t) /\ Frames(t)
  /\ BatchesOf(t) = BatchesOf(f) /\ ScanError(t) = ScanError(f)
  /\ \A i \in Readable(f) : i \in DOMAIN t /\ t[i] = f[i]
  /\ ScanError(f) = Ok => Sound(t) /\ ~IsTorn(t)

LEMMA ScanIsCut ==
  ASSUME NEW f, Frames(f), NEW t, t = TruncateTail(f)
  PROVE  IsCutTo(f, t)
<1>1. IsSeq(f) /\ DOMAIN f = 1..Len(f) /\ Len(f) \in Nat
  BY SeqFacts DEF Frames
<1>2. PICK n : Stops(f, n)
  BY <1>1, ScanStops
<1>3. PICK m \in Nat : m = Len(f) /\ n \in 0..m /\ n \in Nat
  <2>1. PICK m \in Nat : m = Len(f)
    BY SeqFacts DEF Frames
  <2>2. n \in 0..m
    BY <1>2, <2>1 DEF Stops
  <2> QED BY <2>1, <2>2
<1>4. Readable(f) = 1..n /\ \A i \in 1..n : f[i].complete
  BY <1>2 DEF Stops
<1>5. /\ IsTorn(f) <=> n # Len(f) /\ f[n + 1] = TornFrame
      /\ ScanError(f) = Ok <=> ~(n # Len(f) /\ f[n + 1] = CorruptFrame)
  BY <1>1, <1>2, StoppedBy
<1>6. CASE IsTorn(f)
  <2>1. n # m /\ f[n + 1] = TornFrame
    BY <1>3, <1>6, <1>5
  <2>2. TornFrame # CorruptFrame
    BY DEF TornFrame, CorruptFrame
  <2>3. ScanError(f) = Ok
    BY <1>5, <2>1, <2>2
  <2>4. t = [i \in 1..n |-> f[i]]
    BY <1>4, <1>6 DEF TruncateTail
  <2>5. DOMAIN t = 1..n /\ t = [i \in 1..n |-> t[i]] /\ \A i \in 1..n : t[i] = f[i]
    BY <2>4
  <2>6. IsSeq(t) /\ Len(t) = n
    BY <1>3, <2>5, SeqMade
  <2>7. \A i \in 1..Len(t) : t[i].complete
    BY <1>4, <2>5, <2>6
  <2>8. Sound(t) /\ ~IsTorn(t)
    BY <2>6, <2>7, WholeIsSound
  <2>9. Stops(t, n)
    BY <2>6, <2>8, WholeFile
  <2>10. ScanError(t) = Ok
    BY <2>6, <2>9, StoppedBy
  <2>11. BatchesOf(t) = BatchesOf(f)
    <3>1. PICK J, K : J = BatchesOf(f) /\ K = BatchesOf(t)
      OBVIOUS
    <3>2. IsSeq(J) /\ Len(J) = n /\ \A i \in 1..n : J[i] = f[i].batch
      BY <1>1, <1>2, <3>1, BatchesRead DEF ReadsAs
    <3>3. IsSeq(K) /\ Len(K) = n /\ \A i \in 1..n : K[i] = t[i].batch
      BY <2>6, <2>9, <3>1, BatchesRead DEF ReadsAs
    <3>4. Agree(J, K)
      BY <2>5, <3>2, <3>3 DEF Agree
    <3> QED BY <3>1, <3>4, EqualSequences
  <2>12. Frames(t)
    BY <2>6, <2>7 DEF Frames
  <2> QED BY <1>4, <2>3, <2>5, <2>6, <2>8, <2>10, <2>11, <2>12 DEF IsCutTo
<1>7. CASE ~IsTorn(f)
  <2>1. t = f
    BY <1>7 DEF TruncateTail
  <2>2. ASSUME ScanError(f) = Ok PROVE Sound(f)
    <3>1. ~(n # m /\ f[n + 1] = CorruptFrame) /\ ~(n # m /\ f[n + 1] = TornFrame)
      BY <1>3, <1>7, <1>5, <2>2
    <3>2. n = m
      <4>1. SUFFICES ASSUME n # m PROVE FALSE
        OBVIOUS
      <4>2. n + 1 \in 1..Len(f) /\ ~f[n + 1].complete
        BY <1>2, <1>3, <4>1 DEF Stops
      <4> QED BY <3>1, <4>1, <4>2 DEF Frames
    <3> QED BY <1>1, <1>3, <1>4, <3>2, WholeIsSound
  <2>3. \A i \in Readable(f) : i \in DOMAIN f
    BY DEF Readable
  <2> QED BY <1>1, <1>7, <2>1, <2>2, <2>3 DEF IsCutTo
<1> QED BY <1>6, <1>7

LEMMA SoundIsFrames == ASSUME NEW f, Sound(f) PROVE Frames(f)
BY DEF Sound, Frames

(* Of a file that appends left only the frame cut short is cut off.        *)
LEMMA TailIsCut ==
  ASSUME NEW f, Sound(f), NEW t, t = TruncateTail(f)
  PROVE  /\ Sound(t) /\ ~IsTorn(t) /\ BatchesOf(t) = BatchesOf(f)
         /\ ScanError(f) = Ok
         /\ \A i \in DOMAIN f : f[i].complete => i \in DOMAIN t /\ t[i] = f[i]
<1>1. IsSeq(f) /\ DOMAIN f = 1..Len(f) /\ Len(f) \in Nat
  BY SeqFacts DEF Sound
<1>2. PICK n : Stops(f, n)
  BY <1>1, ScanStops
<1>3. PICK m \in Nat : m = Len(f)
  BY SeqFacts DEF Sound
<1>4. n \in 0..m /\ Readable(f) = 1..n /\ (n # m => ~f[n + 1].complete)
  BY <1>2, <1>3 DEF Stops
<1>5. ScanError(f) = Ok
  <2>1. n # Len(f) => f[n + 1] = TornFrame
    <3>1. n # m => n + 1 \in 1..m
      BY <1>4
    <3> QED BY <1>3, <1>4, <3>1 DEF Sound
  <2>2. TornFrame # CorruptFrame
    BY DEF TornFrame, CorruptFrame
  <2> QED BY <1>1, <1>2, <2>1, <2>2, StoppedBy
<1>6. IsCutTo(f, t)
  BY SoundIsFrames, ScanIsCut
<1>7. ASSUME NEW i \in DOMAIN f, f[i].complete PROVE i \in Readable(f)
  <2>1. SUFFICES ASSUME i \notin 1..n PROVE FALSE
    BY <1>4
  <2>2. i \in 1..m
    BY <1>1, <1>3
  <2>3. n + 1 \in 1..m /\ ~f[n + 1].complete /\ n + 1 <= i
    BY <1>4, <2>1, <2>2
  <2>4. n + 1 < m => f[n + 1].complete
    BY <1>3, <2>3 DEF Sound
  <2>5. i = n + 1
    BY <2>2, <2>3, <2>4
  <2> QED BY <1>7, <2>3, <2>5
<1> QED BY <1>5, <1>6, <1>7 DEF IsCutTo

(* A frame written to its end adds its batch.                              *)
LEMMA FrameAdds ==
  ASSUME NEW f, Sound(f), ~IsTorn(f), NEW b, NEW r, r = Append(f, Frame(b))
  PROVE  Sound(r) /\ ~IsTorn(r) /\ BatchesOf(r) = Append(BatchesOf(f), b)
<1>1. IsSeq(f)
  BY DEF Sound
<1>2. PICK x : x = Frame(b)
  OBVIOUS
<1>3. r = Append(f, x)
  BY <1>2
<1>4. /\ IsSeq(r) /\ Len(f) \in Nat /\ Len(r) = Len(f) + 1
      /\ r[Len(f) + 1] = x /\ Last(r) = x
      /\ \A i \in 1..Len(f) : r[i] = f[i]
  <2>1. Grown(r, f, x)
    BY <1>1, <1>3, Appended
  <2> QED BY <2>1 DEF Grown
<1>5. x.complete /\ x.batch = b
  BY <1>2 DEF Frame
<1>6. Sound(r) /\ ~IsTorn(r)
  <2>1. \A i \in 1..Len(f) : f[i].complete
    BY WholeFile
  <2>2. \A i \in 1..Len(r) : r[i].complete
    BY <1>4, <1>5, <2>1
  <2> QED BY <1>4, <2>2, WholeIsSound
<1>7. PICK J : J = BatchesOf(f)
  OBVIOUS
<1>8. IsSeq(J) /\ Len(J) = Len(f) /\ \A i \in 1..Len(f) : J[i] = f[i].batch
  BY <1>7, BatchesOfWhole
<1>9. PICK K : K = BatchesOf(r)
  OBVIOUS
<1>10. IsSeq(K) /\ Len(K) = Len(r) /\ \A i \in 1..Len(r) : K[i] = r[i].batch
  BY <1>6, <1>9, BatchesOfWhole
<1>11. PICK M : M = Append(J, b)
  OBVIOUS
<1>12. /\ IsSeq(M) /\ Len(M) = Len(J) + 1 /\ M[Len(J) + 1] = b
       /\ \A i \in 1..Len(J) : M[i] = J[i]
  <2>1. Grown(M, J, b)
    BY <1>8, <1>11, Appended
  <2> QED BY <2>1 DEF Grown
<1>13. \A i \in 1..Len(K) : K[i] = M[i]
  <2>1. SUFFICES ASSUME NEW i \in 1..Len(K) PROVE K[i] = M[i]
    OBVIOUS
  <2>2. CASE i = Len(f) + 1
    BY <1>4, <1>5, <1>8, <1>10, <1>12, <2>2
  <2>3. CASE i \in 1..Len(f)
    BY <1>4, <1>8, <1>10, <1>12, <2>3
  <2> QED BY <1>4, <1>10, <2>2, <2>3
<1>14. Agree(K, M)
  BY <1>4, <1>8, <1>10, <1>12, <1>13 DEF Agree
<1>15. K = M
  BY <1>14, EqualSequences
<1> QED BY <1>6, <1>7, <1>9, <1>11, <1>15

(* A torn frame adds none.                                                 *)
LEMMA TornFrameAddsNothing ==
  ASSUME NEW f, Sound(f), ~IsTorn(f), NEW r, r = Append(f, TornFrame)
  PROVE  Sound(r) /\ BatchesOf(r) = BatchesOf(f) /\ \A b : r # Append(f, Frame(b))
<1>1. IsSeq(f)
  BY DEF Sound
<1>2. PICK x : x = TornFrame
  OBVIOUS
<1>3. r = Append(f, x)
  BY <1>2
<1>4. /\ IsSeq(r) /\ Len(f) \in Nat /\ Len(r) = Len(f) + 1
      /\ r[Len(f) + 1] = x /\ Last(r) = x /\ r # <<>>
      /\ \A i \in 1..Len(f) : r[i] = f[i]
  <2>1. Grown(r, f, x)
    BY <1>1, <1>3, Appended
  <2> QED BY <2>1 DEF Grown
<1>5. ~x.complete
  BY <1>2 DEF TornFrame
<1>6. PICK n \in Nat : n = Len(f)
  BY <1>4
<1>7. \A i \in 1..n : r[i].complete /\ f[i].complete
  <2>1. \A i \in 1..Len(f) : f[i].complete
    BY WholeFile
  <2> QED BY <1>4, <1>6, <2>1
<1>8. Sound(r)
  <2>1. ASSUME NEW i \in 1..(n + 1)
        PROVE  (i < n + 1 => r[i].complete) /\ (r[i].complete \/ r[i] = TornFrame)
    <3>1. CASE i = n + 1
      BY <1>2, <1>4, <1>6, <3>1
    <3>2. CASE i # n + 1
      <4>1. i \in 1..n
        BY <3>2
      <4> QED BY <1>7, <4>1
    <3> QED BY <3>1, <3>2
  <2> QED BY <1>4, <1>6, <2>1 DEF Sound
<1>9. BatchesOf(r) = BatchesOf(f)
  <2>1. PICK k : Stops(r, k)
    BY <1>4, ScanStops
  <2>2. k = n
    <3>1. /\ k \in 0..(n + 1) /\ \A i \in 1..k : r[i].complete
          /\ k # n + 1 => ~r[k + 1].complete
      BY <1>4, <1>6, <2>1 DEF Stops
    <3>2. k # n + 1
      BY <1>4, <1>5, <1>6, <3>1
    <3>3. ~(k < n)
      <4>1. SUFFICES ASSUME k < n PROVE FALSE
        OBVIOUS
      <4>2. k + 1 \in 1..n
        BY <3>1, <4>1
      <4> QED BY <1>7, <3>1, <3>2, <4>2
    <3> QED BY <3>1, <3>2, <3>3
  <2>3. PICK J, K : J = BatchesOf(f) /\ K = BatchesOf(r)
    OBVIOUS
  <2>4. IsSeq(K) /\ Len(K) = n /\ \A i \in 1..n : K[i] = r[i].batch
    <3>1. IsSeq(r)
      BY <1>4
    <3>2. ReadsAs(r, k, K)
      BY <2>1, <2>3, <3>1, BatchesRead
    <3> QED BY <2>2, <3>2 DEF ReadsAs
  <2>5. IsSeq(J) /\ Len(J) = n /\ \A i \in 1..n : J[i] = f[i].batch
    BY <1>6, <2>3, BatchesOfWhole
  <2>6. Agree(J, K)
    BY <1>4, <1>6, <2>4, <2>5 DEF Agree
  <2> QED BY <2>3, <2>6, EqualSequences
<1>10. ASSUME NEW b, r = Append(f, Frame(b)) PROVE FALSE
  <2>1. PICK y : y = Frame(b)
    OBVIOUS
  <2>2. Last(r) = y
    <3>1. r = Append(f, y)
      BY <1>10, <2>1
    <3>2. Grown(r, f, y)
      BY <1>1, <3>1, Appended
    <3> QED BY <3>2 DEF Grown
  <2>3. y.complete
    BY <2>1 DEF Frame
  <2> QED BY <1>4, <1>5, <2>2, <2>3
<1> QED BY <1>8, <1>9, <1>10

(* The file as it was is not the file with a frame more.                   *)
LEMMA NothingIsNotAFrame ==
  ASSUME NEW f, IsSeq(f), NEW b
  PROVE  f # Append(f, Frame(b))
<1>1. PICK r, x : x = Frame(b) /\ r = Append(f, x)
  OBVIOUS
<1>2. Len(f) \in Nat /\ Len(r) = Len(f) + 1
  BY <1>1, Appended DEF Grown
<1>3. r # f
  BY <1>2
<1> QED BY <1>1, <1>3

-----------------------------------------------------------------------------
(* Commands.                                                               *)

(* The fields of a command, by its kind.                                   *)
LEMMA CommandShape ==
  ASSUME NEW c \in Commands
  PROVE  /\ c.kind \in Kinds
         /\ c.kind = "TradeBooked" =>
              c.tradeId \in TradeIds /\ c.path \in LimitPath /\ c.terms \in FxTerms
         /\ c.kind = "TradeConfirmed" => c.postingIds \in IdTuples
         /\ c.kind = "TradeAmended" =>
              /\ c.terms \in FxTerms
              /\ c.reversalIds \in IdTuples /\ c.postingIds \in IdTuples
         /\ c.kind = "TradeCancelled" =>
              c.reversalIds \in IdTuples \cup {NoReversalIds}
BY DEF Commands, Kinds

(* A later state of the domain: its version tells it from an earlier one.  *)
Follows(new, old) ==
  /\ new.version >= old.version
  /\ new.version = old.version => new = old
  /\ IsPrefix(old.ledgerEntries, new.ledgerEntries)

LEMMA BooksVersion ==
  ASSUME NEW s, BooksInv(s)
  PROVE  s.version \in Nat /\ IsSeq(s.ledgerEntries)
<1>1. s.version \in 0..MaxStateVersion
  BY DEF BooksInv, DomainInv
<1>2. s.ledgerEntries \in Seq(Entries)
  BY DEF BooksInv, DomainInv, LedgerOK
<1> QED BY <1>1, <1>2, StateVersionWidth DEF IsSeq

LEMMA FollowsItself == ASSUME NEW s, BooksInv(s) PROVE Follows(s, s)
<1>1. s.version \in Nat /\ IsPrefix(s.ledgerEntries, s.ledgerEntries)
  BY BooksVersion, PrefixIsItself
<1> QED BY <1>1 DEF Follows

LEMMA FollowsOn ==
  ASSUME NEW a, NEW b, NEW c, BooksInv(a), BooksInv(b), BooksInv(c),
         Follows(b, a), Follows(c, b)
  PROVE  Follows(c, a)
<1>1. a.version \in Nat /\ b.version \in Nat /\ c.version \in Nat
  BY BooksVersion
<1>2. PICK x, y, z : x = a.ledgerEntries /\ y = b.ledgerEntries /\ z = c.ledgerEntries
  OBVIOUS
<1>3. IsSeq(x) /\ IsSeq(y) /\ IsSeq(z)
  BY <1>2, BooksVersion
<1>4. IsPrefix(x, y) /\ IsPrefix(y, z)
  BY <1>2 DEF Follows
<1>5. IsPrefix(x, z)
  BY <1>3, <1>4, PrefixIsTransitive
<1> QED BY <1>1, <1>2, <1>5 DEF Follows

LEMMA HistoryFollows ==
  ASSUME NEW s, BooksInv(s), NEW r, HistoryKept(s, r)
  PROVE  Follows(r, s)
<1>1. s.version \in Nat
  BY BooksVersion
<1>2. r.version = s.version + 1 /\ IsPrefix(s.ledgerEntries, r.ledgerEntries)
  BY DEF HistoryKept
<1>3. r.version >= s.version /\ r.version # s.version
  BY <1>1, <1>2
<1> QED BY <1>2, <1>3 DEF Follows

(* An accepted command keeps the books.                                    *)
LEMMA CommandKeeps ==
  ASSUME NEW s, BooksInv(s), NEW c \in Commands, CommandError(s, c) = Ok,
         NEW r, r = Prospective(s, c)
  PROVE  BooksInv(r) /\ Follows(r, s)
<1>1. DomainInv(s)
  BY DEF BooksInv
<1>2. c.kind \in Kinds
  BY CommandShape
<1>3. CASE c.kind = "TradeBooked"
  <2>1. BookTradeError(s, c) = Ok /\ r = BookTradeResult(s, c)
    BY <1>3 DEF CommandError, Prospective
  <2>2. c.tradeId \in TradeIds /\ c.path \in LimitPath /\ c.terms \in FxTerms
    BY <1>3, CommandShape
  <2>3. DomainInv(r) /\ HistoryKept(s, r)
    BY <1>1, <2>1, <2>2, BookKeeps
  <2>4. BooksHold(r) /\ r.ledgerTotals = ZeroTotals
    BY <2>1, <2>2, BookBooks
  <2> QED BY <2>3, <2>4, HistoryFollows DEF BooksInv
<1>4. CASE c.kind = "TradeConfirmed"
  <2>1. ConfirmTradeError(s, c) = Ok /\ r = ConfirmTradeResult(s, c)
    BY <1>4 DEF CommandError, Prospective
  <2>2. c.postingIds \in IdTuples
    BY <1>4, CommandShape
  <2>3. DomainInv(r) /\ HistoryKept(s, r)
    BY <1>1, <2>1, <2>2, ConfirmKeeps
  <2>4. BooksHold(r) /\ r.ledgerTotals = ZeroTotals
    BY <2>1, <2>2, ConfirmBooks
  <2> QED BY <2>3, <2>4, HistoryFollows DEF BooksInv
<1>5. CASE c.kind = "TradeAmended"
  <2>1. AmendTradeError(s, c) = Ok /\ r = AmendTradeResult(s, c)
    BY <1>5 DEF CommandError, Prospective
  <2>2. /\ c.terms \in FxTerms
        /\ c.reversalIds \in IdTuples /\ c.postingIds \in IdTuples
    BY <1>5, CommandShape
  <2>3. DomainInv(r) /\ HistoryKept(s, r)
    BY <1>1, <2>1, <2>2, AmendKeeps
  <2>4. BooksHold(r) /\ r.ledgerTotals = ZeroTotals
    BY <2>1, <2>2, AmendBooks
  <2> QED BY <2>3, <2>4, HistoryFollows DEF BooksInv
<1>6. CASE c.kind = "TradeCancelled"
  <2>1. CancelTradeError(s, c) = Ok /\ r = CancelTradeResult(s, c)
    BY <1>6 DEF CommandError, Prospective
  <2>2. c.reversalIds \in IdTuples \cup {NoReversalIds}
    BY <1>6, CommandShape
  <2>3. DomainInv(r) /\ HistoryKept(s, r)
    BY <1>1, <2>1, <2>2, CancelKeeps
  <2>4. BooksHold(r) /\ r.ledgerTotals = ZeroTotals
    BY <2>1, <2>2, CancelBooks
  <2> QED BY <2>3, <2>4, HistoryFollows DEF BooksInv
<1>7. CASE c.kind = "EodRun"
  <2>1. RunEodError(s, c) = Ok /\ r = RunEodResult(s, c)
    BY <1>7 DEF CommandError, Prospective
  <2>2. DomainInv(r) /\ (r = s \/ HistoryKept(s, r))
    BY <1>1, <2>1, EodKeeps
  <2>3. BooksHold(r) /\ r.ledgerTotals = ZeroTotals
    BY <2>1, EodBooks
  <2> QED BY <2>2, <2>3, HistoryFollows, FollowsItself DEF BooksInv
<1> QED BY <1>2, <1>3, <1>4, <1>5, <1>6, <1>7 DEF Kinds

(* The trade versions that the answer to a command speaks of are there.    *)
LEMMA AnsweredTrades ==
  ASSUME NEW s, BooksInv(s), NEW c \in Commands, CommandError(s, c) = Ok,
         NEW r, r = Prospective(s, c)
  PROVE  /\ c.kind = "TradeBooked" => FindsTrade(r, c.tradeId, 1, "Captured")
         /\ c.kind = "TradeConfirmed" =>
              FindsTrade(r, c.tradeId, c.expectedVersion, "Confirmed")
         /\ c.kind = "TradeAmended" =>
              /\ FindsTrade(r, c.tradeId, c.expectedVersion, "Superseded")
              /\ FindsTrade(r, c.tradeId, c.expectedVersion + 1, "Confirmed")
         /\ c.kind = "TradeCancelled" =>
              FindsTrade(r, c.tradeId, c.expectedVersion, "Cancelled")
<1>1. DomainInv(s) /\ HasFields(s) /\ CurrentIsKnown(s)
  BY CurrentKnown DEF BooksInv, DomainInv
<1>2. IsMap(s.trades, Trades)
  BY <1>1 DEF DomainInv
<1>3. PICK key : key = <<c.tradeId, c.expectedVersion>>
  OBVIOUS
<1>4. PICK current : current = s.trades[key]
  OBVIOUS
<1>5. ASSUME c.kind = "TradeBooked" PROVE FindsTrade(r, c.tradeId, 1, "Captured")
  <2>1. BookTradeError(s, c) = Ok /\ r = BookTradeResult(s, c)
    BY <1>5 DEF CommandError, Prospective
  <2>2. c.tradeId \notin DOMAIN s.currentVersions
    BY <2>1, BookAccepted
  <2>3. PICK captured : captured = Capture(c.tradeId, c.path, c.terms)
    OBVIOUS
  <2>4. PICK first : first = <<c.tradeId, 1>>
    OBVIOUS
  <2>5. r.trades = Emplace(s.trades, first, captured)
    BY <1>1, <2>1, <2>3, <2>4, BookTradeFields DEF Is
  <2>6. first \notin DOMAIN s.trades
    <3>1. \A k \in DOMAIN s.trades : k[1] \in DOMAIN s.currentVersions
      BY <1>1 DEF DomainInv, Chained
    <3> QED BY <2>2, <2>4, <3>1
  <2>7. first \in DOMAIN r.trades /\ r.trades[first] = captured
    BY <2>5, <2>6 DEF Emplace, Put
  <2>8. captured.state = "Captured"
    BY <2>3 DEF Capture
  <2> QED BY <2>4, <2>7, <2>8 DEF FindsTrade
<1>6. ASSUME c.kind = "TradeConfirmed"
      PROVE  FindsTrade(r, c.tradeId, c.expectedVersion, "Confirmed")
  <2>1. ConfirmTradeError(s, c) = Ok /\ r = ConfirmTradeResult(s, c)
    BY <1>6 DEF CommandError, Prospective
  <2>2. PICK confirmed : confirmed = Apply(current, "ConfirmTrade")
    OBVIOUS
  <2>3. PICK entry : entry = ConfirmationEntry(confirmed, c.postingIds)
    OBVIOUS
  <2>4. /\ c.tradeId \in DOMAIN s.currentVersions
        /\ s.currentVersions[c.tradeId] = c.expectedVersion
        /\ current.state = "Captured"
    BY <1>1, <1>3, <1>4, <2>1, <2>2, <2>3, ConfirmAccepted
  <2>5. current \in Trades
    BY <1>1, <1>3, <1>4, <2>4, CommandKey
  <2>6. r.trades = Put(s.trades, key, confirmed)
    BY <1>1, <1>3, <1>4, <2>1, <2>2, <2>3, ConfirmTradeFields DEF Is
  <2>7. key \in DOMAIN r.trades /\ r.trades[key] = confirmed
    BY <2>6 DEF Put
  <2>8. confirmed.state = "Confirmed"
    BY <2>2, <2>4, <2>5 DEF Apply, Transition, Trades
  <2> QED BY <1>3, <2>7, <2>8 DEF FindsTrade
<1>7. ASSUME c.kind = "TradeAmended"
      PROVE  /\ FindsTrade(r, c.tradeId, c.expectedVersion, "Superseded")
             /\ FindsTrade(r, c.tradeId, c.expectedVersion + 1, "Confirmed")
  <2>1. AmendTradeError(s, c) = Ok /\ r = AmendTradeResult(s, c)
    BY <1>7 DEF CommandError, Prospective
  <2>2. c.terms \in FxTerms
    BY <1>7, CommandShape
  <2>3. PICK replacement : replacement = Replacement(current, c.terms)
    OBVIOUS
  <2>4. PICK entry : entry = ConfirmationEntry(replacement, c.postingIds)
    OBVIOUS
  <2>5. PICK reversal :
          reversal = ReversalEntry(s.ledgerEntries[s.confirmationEntries[key]],
                                   c.reversalIds)
    OBVIOUS
  <2>6. /\ c.tradeId \in DOMAIN s.currentVersions
        /\ s.currentVersions[c.tradeId] = c.expectedVersion
        /\ current.version # MaxTradeVersion
    BY <1>1, <1>3, <1>4, <2>1, <2>3, <2>4, <2>5, AmendAccepted
  <2>7. current \in Trades /\ current.version = c.expectedVersion
    BY <1>1, <1>3, <1>4, <2>6, CommandKey
  <2>8. PICK superseded : superseded = Superseded(current)
    OBVIOUS
  <2>9. superseded.state = "Superseded"
    BY <2>6, <2>7, <2>8, SupersededType
  <2>10. replacement.state = "Confirmed" /\ replacement.version = c.expectedVersion + 1
    BY <2>2, <2>3, <2>6, <2>7, ReplacementType
  <2>11. PICK newKey : newKey = <<c.tradeId, replacement.version>>
    OBVIOUS
  <2>12. PICK old : old = Put(s.trades, key, superseded)
    OBVIOUS
  <2>13. r.trades = Emplace(old, newKey, replacement)
    BY <1>1, <1>3, <1>4, <2>1, <2>3, <2>4, <2>5, <2>8, <2>11, <2>12, AmendTradeFields DEF Is
  <2>14. newKey # key /\ newKey \notin DOMAIN s.trades
    <3>1. c.expectedVersion \in Nat
      BY <2>7, WidthsArePositive DEF Trades, Versions
    <3>2. newKey \notin DOMAIN s.trades
      BY <1>1, <1>3, <2>6, <2>10, <2>11, CommandKey
    <3> QED BY <1>3, <2>10, <2>11, <3>1, <3>2
  <2>15. key \in DOMAIN old /\ old[key] = superseded /\ newKey \notin DOMAIN old
    BY <2>12, <2>14 DEF Put
  <2>16. /\ key \in DOMAIN r.trades /\ r.trades[key] = superseded
         /\ newKey \in DOMAIN r.trades /\ r.trades[newKey] = replacement
    BY <2>13, <2>14, <2>15 DEF Emplace, Put
  <2> QED BY <1>3, <2>9, <2>10, <2>11, <2>16 DEF FindsTrade
<1>8. ASSUME c.kind = "TradeCancelled"
      PROVE  FindsTrade(r, c.tradeId, c.expectedVersion, "Cancelled")
  <2>1. CancelTradeError(s, c) = Ok /\ r = CancelTradeResult(s, c)
    BY <1>8 DEF CommandError, Prospective
  <2>2. PICK cancelled : cancelled = Apply(current, "CancelTrade")
    OBVIOUS
  <2>3. PICK reversal :
          reversal = ReversalEntry(s.ledgerEntries[s.confirmationEntries[key]],
                                   c.reversalIds)
    OBVIOUS
  <2>4. /\ c.tradeId \in DOMAIN s.currentVersions
        /\ s.currentVersions[c.tradeId] = c.expectedVersion
        /\ current.state \in {"Captured", "Confirmed"}
    BY <1>1, <1>3, <1>4, <2>1, <2>3, CancelAccepted
  <2>5. current \in Trades
    BY <1>1, <1>3, <1>4, <2>4, CommandKey
  <2>6. PICK trades : trades = Put(s.trades, key, cancelled)
    OBVIOUS
  <2>7. r.trades = trades
    BY <1>1, <1>3, <1>4, <2>1, <2>2, <2>3, <2>6, CancelTradeFields DEF Is
  <2>8. key \in DOMAIN r.trades /\ r.trades[key] = cancelled
    BY <2>6, <2>7 DEF Put
  <2>9. cancelled.state = "Cancelled"
    BY <2>2, <2>4, <2>5 DEF Apply, Transition, Trades
  <2> QED BY <1>3, <2>8, <2>9 DEF FindsTrade
<1> QED BY <1>5, <1>6, <1>7, <1>8

(* Replay accepts the answer that was given.                               *)
LEMMA AnswerMatches ==
  ASSUME NEW s, BooksInv(s), NEW c \in Commands, CommandError(s, c) = Ok,
         NEW r, r = Prospective(s, c)
  PROVE  ResultMatches(ResultOf(s, c, r), c, s, r)
<1>1. c.kind \in Kinds
  BY CommandShape
<1>2. PICK result : result = ResultOf(s, c, r)
  OBVIOUS
<1>3. CASE c.kind = "TradeBooked"
  <2>1. FindsTrade(r, c.tradeId, 1, "Captured")
    BY <1>3, AnsweredTrades
  <2>2. result = [kind |-> c.kind, tradeId |-> c.tradeId, version |-> 1,
                  stateVersion |-> r.version]
    BY <1>2, <1>3 DEF ResultOf
  <2> QED BY <1>2, <1>3, <2>1, <2>2 DEF ResultMatches
<1>4. CASE c.kind = "TradeConfirmed"
  <2>1. FindsTrade(r, c.tradeId, c.expectedVersion, "Confirmed")
    BY <1>4, AnsweredTrades
  <2>2. result = [kind |-> c.kind, tradeId |-> c.tradeId,
                  version |-> c.expectedVersion, stateVersion |-> r.version]
    BY <1>2, <1>4 DEF ResultOf
  <2> QED BY <1>2, <1>4, <2>1, <2>2 DEF ResultMatches
<1>5. CASE c.kind = "TradeAmended"
  <2>1. /\ FindsTrade(r, c.tradeId, c.expectedVersion, "Superseded")
        /\ FindsTrade(r, c.tradeId, c.expectedVersion + 1, "Confirmed")
    BY <1>5, AnsweredTrades
  <2>2. result = [kind |-> c.kind, tradeId |-> c.tradeId,
                  supersededVersion |-> c.expectedVersion,
                  replacementVersion |-> c.expectedVersion + 1,
                  stateVersion |-> r.version]
    BY <1>2, <1>5 DEF ResultOf
  <2> QED BY <1>2, <1>5, <2>1, <2>2 DEF ResultMatches
<1>6. CASE c.kind = "TradeCancelled"
  <2>1. FindsTrade(r, c.tradeId, c.expectedVersion, "Cancelled")
    BY <1>6, AnsweredTrades
  <2>2. result = [kind |-> c.kind, tradeId |-> c.tradeId,
                  version |-> c.expectedVersion, stateVersion |-> r.version]
    BY <1>2, <1>6 DEF ResultOf
  <2> QED BY <1>2, <1>6, <2>1, <2>2 DEF ResultMatches
<1>7. CASE c.kind = "EodRun"
  <2>1. result = [kind |-> c.kind, asOf |-> c.asOf,
                  settledCount |-> SettledCount(r) - SettledCount(s),
                  stateVersion |-> r.version]
    BY <1>2, <1>7 DEF ResultOf
  <2> QED BY <1>2, <1>7, <2>1 DEF ResultMatches
<1> QED BY <1>1, <1>3, <1>4, <1>5, <1>6, <1>7 DEF Kinds

-----------------------------------------------------------------------------
(* The journal and the states it leads through.                            *)

(* b is the n-th batch: an accepted command and its answer.                *)
Executed(b, n, before, after) ==
  \E e \in Envelopes :
    /\ b = [sequence |-> n, commandId |-> e.commandId, request |-> e,
            events |-> <<e.command>>, result |-> ResultOf(before, e.command, after)]
    /\ CommandError(before, e.command) = Ok
    /\ after = Prospective(before, e.command)

(* What recovery can tell of it: a command that is accepted, its answer,   *)
(* and a request that may be the one it came from.                         *)
Replays(b, n, before, after) ==
  \E c \in Commands :
    /\ b.sequence = n /\ b.events = <<c>>
    /\ b.result = ResultOf(before, c, after)
    /\ b.request.commandId = b.commandId /\ b.request.command.kind = c.kind
    /\ CommandError(before, c) = Ok
    /\ after = Prospective(before, c)

Distinct(J) == \A i, j \in 1..Len(J) : J[i].commandId = J[j].commandId => i = j

(* What the batches of J did, with the states between them.                *)
Recorded(J, states) ==
  /\ IsSeq(J) /\ IsSeq(states)
  /\ Len(states) = Len(J) + 1 /\ Len(J) <= MaxSequence
  /\ states[1] = InitialState
  /\ \A i \in 1..Len(J) : Replays(J[i], i, states[i], states[i + 1])
  /\ Distinct(J)
  /\ \A i \in 1..Len(states) : BooksInv(states[i])
  /\ \A i, j \in 1..Len(states) : i <= j => Follows(states[j], states[i])

(* The batch may be the next one, leading to the state after.              *)
Ready(J, states, batch, after) ==
  /\ Len(J) < MaxSequence
  /\ Executed(batch, Len(J) + 1, states[Len(J) + 1], after)
  /\ \A i \in 1..Len(J) : J[i].commandId # batch.commandId

(* An envelope and the command in it.                                      *)
LEMMA EnvelopeCommand == \A e \in Envelopes : e.command \in Commands
BY EnvelopesAreCommands

LEMMA SequenceWidth == MaxSequence \in Nat /\ MaxSequence > 0 /\ Exhausted = 0
BY StateVersionWidth DEF MaxSequence, Exhausted

LEMMA ReplaysKeeps ==
  ASSUME NEW b, NEW n, NEW before, BooksInv(before), NEW after,
         Replays(b, n, before, after)
  PROVE  BooksInv(after) /\ Follows(after, before)
<1>1. PICK c \in Commands : /\ CommandError(before, c) = Ok
                            /\ after = Prospective(before, c)
  BY DEF Replays
<1> QED BY <1>1, CommandKeeps

(* What can be read off a batch.                                           *)
LEMMA BatchFields ==
  ASSUME NEW b, NEW n, NEW before, NEW after, Executed(b, n, before, after)
  PROVE  /\ b.sequence = n /\ b.request \in Envelopes
         /\ b.commandId = b.request.commandId
         /\ b.events = <<b.request.command>>
         /\ b.result = ResultOf(before, b.request.command, after)
         /\ CommandError(before, b.request.command) = Ok
         /\ after = Prospective(before, b.request.command)
BY DEF Executed

LEMMA ExecutedReplays ==
  ASSUME NEW b, NEW n, NEW before, NEW after, Executed(b, n, before, after)
  PROVE  Replays(b, n, before, after)
<1>1. PICK c : c = b.request.command
  OBVIOUS
<1>2. /\ b.sequence = n /\ b.request \in Envelopes
      /\ b.commandId = b.request.commandId /\ b.events = <<c>>
      /\ b.result = ResultOf(before, c, after)
      /\ CommandError(before, c) = Ok /\ after = Prospective(before, c)
  BY <1>1, BatchFields
<1>3. c \in Commands
  BY <1>1, <1>2, EnvelopeCommand
<1> QED BY <1>1, <1>2, <1>3 DEF Replays

LEMMA NextIsRecorded ==
  ASSUME NEW J, NEW states, Recorded(J, states), NEW batch, NEW after,
         Ready(J, states, batch, after),
         NEW K, K = Append(J, batch), NEW more, more = Append(states, after)
  PROVE  Recorded(K, more) /\ Grown(K, J, batch) /\ Grown(more, states, after)
<1>1. /\ IsSeq(J) /\ IsSeq(states) /\ Len(states) = Len(J) + 1
      /\ states[1] = InitialState /\ Distinct(J)
  BY DEF Recorded
<1>2. Grown(K, J, batch) /\ Grown(more, states, after)
  BY <1>1, Appended
<1>3. PICK n \in Nat : n = Len(J)
  BY <1>1, SeqFacts
<1>4. /\ IsSeq(K) /\ Len(K) = n + 1 /\ K[n + 1] = batch
      /\ \A i \in 1..n : K[i] = J[i]
  BY <1>2, <1>3 DEF Grown
<1>5. /\ IsSeq(more) /\ Len(more) = n + 2 /\ more[n + 2] = after
      /\ \A i \in 1..(n + 1) : more[i] = states[i]
  BY <1>1, <1>2, <1>3 DEF Grown
<1>6. /\ n < MaxSequence /\ Replays(batch, n + 1, states[n + 1], after)
      /\ \A i \in 1..n : J[i].commandId # batch.commandId
  <2>1. Executed(batch, n + 1, states[n + 1], after)
    BY <1>3 DEF Ready
  <2> QED BY <1>3, <2>1, ExecutedReplays DEF Ready
<1>7. more[1] = InitialState
  BY <1>1, <1>5
<1>8. n + 1 <= MaxSequence
  BY <1>6, SequenceWidth
<1>9. \A i \in 1..(n + 1) : Replays(K[i], i, more[i], more[i + 1])
  <2>1. \A i \in 1..n : Replays(J[i], i, states[i], states[i + 1])
    BY <1>3 DEF Recorded
  <2>2. SUFFICES ASSUME NEW i \in 1..(n + 1)
                 PROVE  Replays(K[i], i, more[i], more[i + 1])
    OBVIOUS
  <2>3. CASE i = n + 1
    <3>1. K[i] = batch /\ more[i] = states[n + 1] /\ more[i + 1] = after /\ i = n + 1
      BY <1>4, <1>5, <2>3
    <3> QED BY <1>6, <3>1
  <2>4. CASE i \in 1..n
    <3>1. K[i] = J[i] /\ more[i] = states[i] /\ more[i + 1] = states[i + 1]
      BY <1>4, <1>5, <2>4
    <3> QED BY <2>1, <2>4, <3>1
  <2>5. i = n + 1 \/ i \in 1..n
    OBVIOUS
  <2> QED BY ONLY <2>3, <2>4, <2>5
<1>10. Distinct(K)
  <2>1. \A i, j \in 1..n : J[i].commandId = J[j].commandId => i = j
    BY <1>1, <1>3 DEF Distinct
  <2>2. \A i, j \in 1..(n + 1) : K[i].commandId = K[j].commandId => i = j
    BY <1>4, <1>6, <2>1
  <2> QED BY <1>4, <2>2 DEF Distinct
<1>11. \A i \in 1..(n + 1) : BooksInv(states[i])
  BY <1>1, <1>3 DEF Recorded
<1>12. BooksInv(after) /\ Follows(after, states[n + 1])
  <2>1. BooksInv(states[n + 1])
    BY <1>11
  <2> QED BY <1>6, <2>1, ReplaysKeeps
<1>13. \A i \in 1..(n + 2) : BooksInv(more[i])
  BY <1>5, <1>11, <1>12
<1>14. \A i \in 1..(n + 1) : Follows(after, states[i])
  <2>1. SUFFICES ASSUME NEW i \in 1..(n + 1) PROVE Follows(after, states[i])
    OBVIOUS
  <2>2. Follows(states[n + 1], states[i])
    <3>1. n + 1 \in 1..Len(states) /\ i \in 1..Len(states) /\ i <= n + 1
      BY <1>1, <1>3
    <3> QED BY <3>1 DEF Recorded
  <2>3. PICK a, b : a = states[i] /\ b = states[n + 1]
    OBVIOUS
  <2>4. BooksInv(a) /\ BooksInv(b) /\ Follows(b, a) /\ Follows(after, b)
    BY <1>11, <1>12, <2>2, <2>3
  <2> QED BY <1>12, <2>3, <2>4, FollowsOn
<1>15. \A i, j \in 1..(n + 2) : i <= j => Follows(more[j], more[i])
  <2>1. SUFFICES ASSUME NEW i \in 1..(n + 2), NEW j \in 1..(n + 2), i <= j
                 PROVE  Follows(more[j], more[i])
    OBVIOUS
  <2>2. CASE j \in 1..(n + 1)
    <3>1. i \in 1..Len(states) /\ j \in 1..Len(states)
      BY <1>1, <1>3, <2>1, <2>2
    <3>2. Follows(states[j], states[i])
      BY <2>1, <3>1 DEF Recorded
    <3>3. more[j] = states[j] /\ more[i] = states[i]
      BY <1>1, <1>3, <1>5, <3>1
    <3> QED BY <3>2, <3>3
  <2>3. CASE j = n + 2 /\ i \in 1..(n + 1)
    BY <1>5, <1>14, <2>3
  <2>4. CASE j = n + 2 /\ i = n + 2
    BY <1>5, <1>12, <2>4, FollowsItself
  <2>5. j \in 1..(n + 1) \/ j = n + 2
    OBVIOUS
  <2>6. i \in 1..(n + 1) \/ i = n + 2
    OBVIOUS
  <2> QED BY ONLY <2>2, <2>3, <2>4, <2>5, <2>6
<1>16. Len(more) = Len(K) + 1 /\ Len(K) <= MaxSequence
  BY <1>4, <1>5, <1>8
<1>17. /\ \A i \in 1..Len(K) : Replays(K[i], i, more[i], more[i + 1])
       /\ \A i \in 1..Len(more) : BooksInv(more[i])
       /\ \A i, j \in 1..Len(more) : i <= j => Follows(more[j], more[i])
  BY <1>4, <1>5, <1>9, <1>13, <1>15
<1> QED BY <1>2, <1>4, <1>5, <1>7, <1>10, <1>16, <1>17 DEF Recorded

-----------------------------------------------------------------------------
(* The index and the sequence that belong to the first n batches.          *)

(* index has the record of every batch of J, and nothing else.             *)
Indexes(index, J) ==
  /\ DOMAIN index = {J[i].commandId : i \in 1..Len(J)}
  /\ \A i \in 1..Len(J) : index[J[i].commandId] = RecordOf(J[i])
  /\ index = [id \in DOMAIN index |-> index[id]]

LEMMA IndexFacts ==
  ASSUME NEW J, IsSeq(J), Distinct(J), NEW index, index = IndexOf(J)
  PROVE  Indexes(index, J)
<1>1. DOMAIN J = 1..Len(J)
  BY SeqFacts
<1>2. DOMAIN index = {J[i].commandId : i \in 1..Len(J)}
  BY <1>1 DEF IndexOf
<1>3. ASSUME NEW i \in 1..Len(J) PROVE index[J[i].commandId] = RecordOf(J[i])
  <2>1. PICK at : at = CHOOSE k \in DOMAIN J : J[k].commandId = J[i].commandId
    OBVIOUS
  <2>2. at \in DOMAIN J /\ J[at].commandId = J[i].commandId
    BY <1>1, <2>1
  <2>3. at = i
    BY <1>1, <2>2 DEF Distinct
  <2>4. J[i].commandId \in {J[k].commandId : k \in DOMAIN J}
    BY <1>1
  <2>5. index[J[i].commandId] = RecordOf(J[at])
    BY <2>1, <2>4 DEF IndexOf
  <2> QED BY <2>3, <2>5
<1>4. index = [id \in DOMAIN index |-> index[id]]
  BY DEF IndexOf
<1> QED BY <1>2, <1>3, <1>4 DEF Indexes

LEMMA FirstAreDistinct ==
  ASSUME NEW J, IsSeq(J), Distinct(J), NEW n \in 0..Len(J), NEW P, P = SubSeq(J, 1, n)
  PROVE  IsSeq(P) /\ Distinct(P) /\ Len(P) = n /\ \A i \in 1..n : P[i] = J[i]
<1>1. IsSeq(P)
  BY FirstOf
<1>2. Len(P) = n /\ \A i \in 1..n : P[i] = J[i]
  BY FirstOf
<1>3. Len(J) \in Nat /\ \A i \in 1..n : i \in 1..Len(J)
  BY SeqFacts
<1>4. Distinct(P)
  BY <1>2, <1>3 DEF Distinct
<1> QED BY <1>1, <1>2, <1>4

LEMMA IndexNext ==
  ASSUME NEW J, IsSeq(J), Distinct(J), NEW n \in Nat, n < Len(J),
         NEW old, old = IndexOf(SubSeq(J, 1, n)),
         NEW new, new = IndexOf(SubSeq(J, 1, n + 1)),
         NEW b, b = J[n + 1]
  PROVE  Emplace(old, b.commandId, RecordOf(b)) = new
<1>1. Len(J) \in Nat /\ n \in 0..Len(J) /\ n + 1 \in 0..Len(J)
  BY SeqFacts
<1>2. PICK P, m, Q : P = SubSeq(J, 1, n) /\ m = n + 1 /\ Q = SubSeq(J, 1, m)
  OBVIOUS
<1>3. IsSeq(P) /\ Distinct(P) /\ Len(P) = n /\ \A i \in 1..n : P[i] = J[i]
  BY <1>1, <1>2, FirstAreDistinct
<1>4. IsSeq(Q) /\ Distinct(Q) /\ Len(Q) = m /\ \A i \in 1..m : Q[i] = J[i]
  BY <1>1, <1>2, FirstAreDistinct
<1>5. /\ DOMAIN old = {P[i].commandId : i \in 1..Len(P)}
      /\ \A i \in 1..Len(P) : old[P[i].commandId] = RecordOf(P[i])
  <2>1. old = IndexOf(P)
    BY <1>2
  <2>2. Indexes(old, P)
    BY <1>3, <2>1, IndexFacts
  <2> QED BY <2>2 DEF Indexes
<1>6. /\ DOMAIN new = {Q[i].commandId : i \in 1..Len(Q)}
      /\ \A i \in 1..Len(Q) : new[Q[i].commandId] = RecordOf(Q[i])
      /\ new = [id \in DOMAIN new |-> new[id]]
  <2>1. new = IndexOf(Q)
    BY <1>2
  <2>2. Indexes(new, Q)
    BY <1>4, <2>1, IndexFacts
  <2> QED BY <2>2 DEF Indexes
<1>7. \A i \in 1..n : J[i].commandId # b.commandId
  BY <1>1 DEF Distinct
<1>8. b.commandId \notin DOMAIN old
  BY <1>3, <1>5, <1>7
<1>9. PICK r : r = Emplace(old, b.commandId, RecordOf(b))
  OBVIOUS
<1>10. r = [k \in DOMAIN old \cup {b.commandId} |->
              IF k = b.commandId THEN RecordOf(b) ELSE old[k]]
  BY <1>8, <1>9 DEF Emplace, Put
<1>11. DOMAIN new = DOMAIN old \cup {b.commandId}
  <2>1. DOMAIN new = {J[i].commandId : i \in 1..m}
    BY <1>4, <1>6
  <2>2. DOMAIN old = {J[i].commandId : i \in 1..n}
    BY <1>3, <1>5
  <2>3. \A i : i \in 1..m <=> i \in 1..n \/ i = m
    BY <1>1, <1>2
  <2>4. b = J[m]
    BY <1>2
  <2> QED BY <2>1, <2>2, <2>3, <2>4, Zenon
<1>12. \A k \in DOMAIN new :
         new[k] = IF k = b.commandId THEN RecordOf(b) ELSE old[k]
  <2>1. new[b.commandId] = RecordOf(b)
    <3>1. m \in 1..Len(Q) /\ Q[m] = b
      BY <1>1, <1>2, <1>4
    <3> QED BY <1>6, <3>1
  <2>2. ASSUME NEW k \in DOMAIN old PROVE new[k] = old[k]
    <3>1. PICK i \in 1..n : k = P[i].commandId
      BY <1>3, <1>5
    <3>2. i \in 1..m /\ P[i] = Q[i]
      BY <1>1, <1>2, <1>3, <1>4
    <3>3. old[k] = RecordOf(P[i])
      BY <1>3, <1>5, <3>1
    <3>4. new[k] = RecordOf(Q[i])
      BY <1>4, <1>6, <3>1, <3>2
    <3> QED BY <3>2, <3>3, <3>4
  <2> QED BY <1>8, <1>11, <2>1, <2>2
<1> QED BY <1>6, <1>9, <1>10, <1>11, <1>12

(* The next sequence after n batches, and back.                            *)
Numbered(n) == IF n = MaxSequence THEN Exhausted ELSE n + 1

LEMMA NumberedNext ==
  ASSUME NEW n \in 0..MaxSequence
  PROVE  /\ Numbered(n) \in 1..MaxSequence \cup {Exhausted}
         /\ Numbered(n) # Exhausted => n < MaxSequence /\ Numbered(n) = n + 1
         /\ n < MaxSequence => Following(Numbered(n)) = Numbered(n + 1)
         /\ Following(n) = Numbered(n) /\ Numbered(0) = 1
BY SequenceWidth DEF Numbered, Following

LEMMA SequenceOfFirst ==
  ASSUME NEW J, NEW states, Recorded(J, states), NEW n \in 0..Len(J)
  PROVE  SequenceAfter(SubSeq(J, 1, n)) = Numbered(n)
<1>1. IsSeq(J) /\ Len(J) \in Nat /\ Len(J) <= MaxSequence
  BY SeqFacts DEF Recorded
<1>2. PICK P : P = SubSeq(J, 1, n)
  OBVIOUS
<1>3. Len(P) = n /\ \A i \in 1..n : P[i] = J[i]
  BY <1>1, <1>2, FirstOf
<1>4. IsSeq(P)
  BY <1>1, <1>2, FirstOf
<1>5. n \in 0..MaxSequence
  BY <1>1, SequenceWidth
<1>6. CASE n = 0
  <2>1. P = <<>>
    BY <1>3, <1>4, <1>6, SeqFacts
  <2> QED BY <1>2, <1>5, <1>6, <2>1, NumberedNext DEF SequenceAfter
<1>7. CASE n # 0
  <2>1. n \in 1..Len(J) /\ n \in 1..n
    BY <1>1, <1>7
  <2>2. P # <<>>
    BY <1>3, <1>4, <1>7, SeqFacts
  <2>3. Replays(J[n], n, states[n], states[n + 1])
    BY <2>1 DEF Recorded
  <2>4. J[n].sequence = n
    BY <2>3 DEF Replays
  <2>5. Last(P).sequence = n
    BY <1>3, <2>1, <2>4 DEF Last
  <2> QED BY <1>2, <1>5, <2>2, <2>5, NumberedNext DEF SequenceAfter
<1> QED BY <1>6, <1>7

-----------------------------------------------------------------------------
(* The inductive invariant.                                                *)

(* What is published is the state after the first n batches, with their    *)
(* index and the sequence that follows them.                               *)
ServesAt(n, J, states, snap, index, sequence) ==
  /\ n \in 0..Len(J)
  /\ snap = states[n + 1]
  /\ index = IndexOf(SubSeq(J, 1, n))
  /\ sequence = Numbered(n)

Working == {"appending", "publishing"}

(* A thread, when n of the batches in J are published.                     *)
ThreadOK(th, n, J, states, canWrite) ==
  /\ th.pc \in {"idle", "waiting", "answered"} \cup Working
  /\ th.pc # "idle" => th.request \in Envelopes
  /\ th.pc = "appending" =>
       /\ canWrite /\ n = Len(J)
       /\ th = [pc |-> th.pc, request |-> th.request,
                batch |-> th.batch, after |-> th.after]
       /\ th.batch.request = th.request
       /\ Ready(J, states, th.batch, th.after)
  /\ th.pc = "publishing" =>
       /\ n + 1 = Len(J)
       /\ th.batch.request = th.request
       /\ th.batch = J[n + 1] /\ th.after = states[n + 2]
  /\ th.pc = "answered" /\ th.code = Ok =>
       \E i \in 1..Len(J) : /\ J[i].request = th.request
                            /\ J[i].result = th.receipt.result

(* The mutex: one thread at a time works.                                  *)
ThreadsOK(n, J, states, canWrite, ths) ==
  /\ ths = [t \in Threads |-> ths[t]]
  /\ \A t \in Threads : ThreadOK(ths[t], n, J, states, canWrite)
  /\ \A t, u \in Threads : ths[t].pc \in Working /\ ths[u].pc \in Working => t = u

(* A replay that has come as far as its position.                          *)
Replaying(r, J, states) ==
  /\ r = [batches |-> J, position |-> r.position, state |-> states[r.position + 1]]
  /\ r.position \in 0..Len(J)

PhaseOK(n, J, states) ==
  /\ phase \in {"down", "recovering", "serving"}
  /\ phase # "serving" => n = 0 /\ threads = AllIdle
  /\ phase # "recovering" => recovered = NothingRecovered
  /\ phase = "down" => ~writable
  /\ phase = "recovering" => writable /\ Replaying(recovered, J, states)
  /\ phase = "serving" =>
       /\ n = Len(J) \/ n + 1 = Len(J)
       /\ n + 1 = Len(J) => ~writable \/ \E t \in Threads : threads[t].pc = "publishing"

(* The reader's last state is one of the published ones.                   *)
SeenOK(n, states) ==
  \E m \in 1..Len(states) : seen = states[m] /\ (phase = "serving" => m <= n + 1)

InvAt(n) ==
  /\ Sound(file)
  /\ Recorded(Journal, past)
  /\ ServesAt(n, Journal, past, snapshot, idempotency, nextSequence)
  /\ writable => ~IsTorn(file)
  /\ ThreadsOK(n, Journal, past, writable, threads)
  /\ PhaseOK(n, Journal, past)
  /\ SeenOK(n, past)
  /\ startError \in {Ok, "StoreFailure"}

Inv == \E n : InvAt(n)

-----------------------------------------------------------------------------
(* How the parts of the invariant follow a journal that grows.             *)

Continues(new, old) ==
  /\ Len(old) \in Nat /\ Len(new) \in Nat /\ Len(old) <= Len(new)
  /\ \A i \in 1..Len(old) : new[i] = old[i]

(* One more batch, or none.                                                *)
LogStep(J, states, K, more) ==
  \/ K = J /\ more = states
  \/ \E batch, after : /\ Ready(J, states, batch, after)
                       /\ K = Append(J, batch) /\ more = Append(states, after)

LEMMA LogStepKeeps ==
  ASSUME NEW J, NEW states, Recorded(J, states), NEW K, NEW more,
         LogStep(J, states, K, more)
  PROVE  /\ Recorded(K, more)
         /\ Continues(K, J) /\ Continues(more, states)
         /\ Len(K) = Len(J) \/ Len(K) = Len(J) + 1
<1>1. IsSeq(J) /\ IsSeq(states) /\ Len(J) \in Nat /\ Len(states) \in Nat
  BY SeqFacts DEF Recorded
<1>2. CASE K = J /\ more = states
  BY <1>1, <1>2 DEF Continues
<1>3. CASE \E batch, after : /\ Ready(J, states, batch, after)
                             /\ K = Append(J, batch) /\ more = Append(states, after)
  <2>1. PICK batch, after : /\ Ready(J, states, batch, after)
                            /\ K = Append(J, batch) /\ more = Append(states, after)
    BY <1>3
  <2>2. Recorded(K, more) /\ Grown(K, J, batch) /\ Grown(more, states, after)
    BY <2>1, NextIsRecorded
  <2>3. Continues(K, J) /\ Len(K) = Len(J) + 1
    BY <1>1, <2>2 DEF Grown, Continues
  <2>4. Continues(more, states)
    BY <1>1, <2>2 DEF Grown, Continues
  <2> QED BY <2>2, <2>3, <2>4
<1> QED BY <1>2, <1>3 DEF LogStep

LEMMA SameFirst ==
  ASSUME NEW J, NEW K, IsSeq(J), IsSeq(K), Continues(K, J), NEW n \in 0..Len(J)
  PROVE  SubSeq(K, 1, n) = SubSeq(J, 1, n)
<1>1. PICK P, Q : P = SubSeq(J, 1, n) /\ Q = SubSeq(K, 1, n)
  OBVIOUS
<1>2. n \in 0..Len(K) /\ \A i \in 1..n : K[i] = J[i]
  BY DEF Continues
<1>3. IsSeq(P)
  BY <1>1, FirstOf
<1>4. Len(P) = n /\ \A i \in 1..n : P[i] = J[i]
  BY <1>1, FirstOf
<1>5. IsSeq(Q)
  BY <1>1, <1>2, FirstOf
<1>6. Len(Q) = n /\ \A i \in 1..n : Q[i] = K[i]
  BY <1>1, <1>2, FirstOf
<1>7. Agree(Q, P)
  BY <1>2, <1>3, <1>4, <1>5, <1>6 DEF Agree
<1>8. Q = P
  BY <1>7, EqualSequences
<1> QED BY <1>1, <1>8

LEMMA ServesStill ==
  ASSUME NEW J, NEW states, Recorded(J, states), NEW K, NEW more,
         Recorded(K, more), Continues(K, J), Continues(more, states),
         NEW n, NEW snap, NEW index, NEW sequence,
         ServesAt(n, J, states, snap, index, sequence)
  PROVE  ServesAt(n, K, more, snap, index, sequence)
<1>1. IsSeq(J) /\ IsSeq(K) /\ Len(states) = Len(J) + 1 /\ Len(J) \in Nat
  BY SeqFacts DEF Recorded
<1>2. n \in 0..Len(J) /\ n \in 0..Len(K)
  BY <1>1 DEF ServesAt, Continues
<1>3. SubSeq(K, 1, n) = SubSeq(J, 1, n)
  BY <1>1, <1>2, SameFirst
<1>4. more[n + 1] = states[n + 1]
  BY <1>1, <1>2 DEF Continues
<1> QED BY <1>2, <1>3, <1>4 DEF ServesAt

LEMMA ServesNext ==
  ASSUME NEW J, NEW states, Recorded(J, states),
         NEW n, NEW snap, NEW index, NEW sequence,
         ServesAt(n, J, states, snap, index, sequence), n + 1 = Len(J),
         NEW b, b = J[n + 1]
  PROVE  ServesAt(n + 1, J, states, states[n + 2],
                  Emplace(index, b.commandId, RecordOf(b)), Following(sequence))
<1>1. IsSeq(J) /\ Distinct(J) /\ Len(J) \in Nat /\ Len(J) <= MaxSequence
  BY SeqFacts DEF Recorded
<1>2. n \in Nat /\ n < Len(J) /\ n \in 0..MaxSequence /\ n < MaxSequence
  BY <1>1, SequenceWidth DEF ServesAt
<1>3. PICK new : new = IndexOf(SubSeq(J, 1, n + 1))
  OBVIOUS
<1>4. index = IndexOf(SubSeq(J, 1, n)) /\ sequence = Numbered(n)
  BY DEF ServesAt
<1>5. Emplace(index, b.commandId, RecordOf(b)) = new
  BY <1>1, <1>2, <1>3, <1>4, IndexNext
<1>6. Following(sequence) = Numbered(n + 1)
  BY <1>2, <1>4, NumberedNext
<1>7. states[(n + 1) + 1] = states[n + 2] /\ n + 1 \in 0..Len(J)
  BY <1>1, <1>2
<1> QED BY <1>3, <1>5, <1>6, <1>7 DEF ServesAt

(* A service that has just started, or has not.                            *)
LEMMA ServesNone ==
  ASSUME NEW J, NEW states, Recorded(J, states)
  PROVE  ServesAt(0, J, states, InitialState, EmptyMap, 1)
<1>1. IsSeq(J) /\ Len(J) \in Nat /\ states[1] = InitialState
  BY SeqFacts DEF Recorded
<1>2. PICK P : P = SubSeq(J, 1, 0)
  OBVIOUS
<1>3. P = <<>>
  BY <1>1, <1>2, FirstOf
<1>4. IndexOf(<<>>) = EmptyMap
  BY DEF IndexOf, EmptyMap
<1>5. Numbered(0) = 1
  BY SequenceWidth DEF Numbered
<1>6. 0 \in 0..Len(J) /\ InitialState = states[0 + 1]
  BY <1>1
<1>7. IndexOf(SubSeq(J, 1, 0)) = EmptyMap
  BY <1>2, <1>3, <1>4
<1> QED BY <1>5, <1>6, <1>7 DEF ServesAt

LEMMA ServesAll ==
  ASSUME NEW J, NEW states, Recorded(J, states)
  PROVE  ServesAt(Len(J), J, states, states[Len(J) + 1], IndexOf(J), SequenceAfter(J))
<1>1. IsSeq(J) /\ Len(J) \in Nat
  BY SeqFacts DEF Recorded
<1>2. PICK n \in Nat : n = Len(J)
  BY <1>1
<1>3. PICK P : P = SubSeq(J, 1, n)
  OBVIOUS
<1>4. n \in 0..Len(J)
  BY <1>2
<1>5. P = J
  BY <1>1, <1>2, <1>3, <1>4, FirstOf
<1>6. SequenceAfter(P) = Numbered(n)
  BY <1>3, <1>4, SequenceOfFirst
<1> QED BY <1>2, <1>3, <1>4, <1>5, <1>6 DEF ServesAt

LEMMA ThreadStays ==
  ASSUME NEW th, NEW n, NEW J, NEW states, NEW canWrite,
         ThreadOK(th, n, J, states, canWrite), th.pc \notin Working,
         NEW K, Continues(K, J), NEW m, NEW more, NEW canStill
  PROVE  ThreadOK(th, m, K, more, canStill)
<1>1. th.pc # "appending" /\ th.pc # "publishing"
  BY DEF Working
<1>2. ASSUME NEW i \in 1..Len(J) PROVE i \in 1..Len(K) /\ K[i] = J[i]
  BY DEF Continues
<1> QED BY <1>1, <1>2 DEF ThreadOK

-----------------------------------------------------------------------------
(* Steps of one thread that change nothing but what the thread does.       *)

Elsewhere == <<file, phase, startError, recovered, service, seen, past>>

(* A thread has something to do only while the service runs.               *)
LEMMA BusyMeansServing ==
  ASSUME NEW n, InvAt(n), NEW t \in Threads, threads[t].pc # "idle"
  PROVE  phase = "serving"
<1>1. phase # "serving" => threads = AllIdle
  BY DEF InvAt, PhaseOK
<1>2. AllIdle[t].pc = "idle"
  BY DEF AllIdle, Idle
<1> QED BY <1>1, <1>2

LEMMA ThreadStep ==
  ASSUME NEW n, InvAt(n), phase = "serving", UNCHANGED Elsewhere,
         NEW t \in Threads, threads[t].pc # "publishing",
         NEW th, threads' = [threads EXCEPT ![t] = th],
         ThreadOK(th, n, Journal, past, writable),
         th.pc \in Working => \A u \in Threads : threads[u].pc \notin Working
  PROVE  InvAt(n)'
<1>1. /\ file' = file /\ phase' = phase /\ startError' = startError
      /\ recovered' = recovered /\ writable' = writable /\ snapshot' = snapshot
      /\ idempotency' = idempotency /\ nextSequence' = nextSequence
      /\ seen' = seen /\ past' = past
  BY DEF Elsewhere, service
<1>2. Journal' = Journal
  BY <1>1 DEF Journal
<1>3. ThreadsOK(n, Journal, past, writable, threads)
  BY DEF InvAt
<1>4. /\ threads' = [u \in Threads |-> threads'[u]]
      /\ threads'[t] = th
      /\ \A u \in Threads : u # t => threads'[u] = threads[u]
  BY <1>3 DEF ThreadsOK
<1>5. ThreadsOK(n, Journal, past, writable, threads')
  <2>1. \A u \in Threads : ThreadOK(threads'[u], n, Journal, past, writable)
    BY <1>3, <1>4 DEF ThreadsOK
  <2>2. \A u, v \in Threads :
          threads'[u].pc \in Working /\ threads'[v].pc \in Working => u = v
    BY <1>3, <1>4 DEF ThreadsOK
  <2> QED BY <1>4, <2>1, <2>2 DEF ThreadsOK
<1>6. (\E u \in Threads : threads[u].pc = "publishing")
        => \E u \in Threads : threads'[u].pc = "publishing"
  BY <1>4
<1>7. PhaseOK(n, Journal, past)'
  BY <1>1, <1>2, <1>6 DEF InvAt, PhaseOK
<1>8. SeenOK(n, past)'
  BY <1>1 DEF InvAt, SeenOK
<1>9. (writable => ~IsTorn(file))' /\ Sound(file)' /\ Recorded(Journal, past)'
  BY <1>1, <1>2 DEF InvAt
<1>10. ServesAt(n, Journal, past, snapshot, idempotency, nextSequence)'
  BY <1>1, <1>2 DEF InvAt
<1>11. ThreadsOK(n, Journal, past, writable, threads)'
  BY <1>1, <1>2, <1>5
<1> QED BY <1>1, <1>7, <1>8, <1>9, <1>10, <1>11 DEF InvAt

LEMMA CallKeeps ==
  ASSUME NEW n, InvAt(n), NEW t \in Threads, Call(t)
  PROVE  InvAt(n)'
<1>1. PICK e \in Envelopes : CallWith(t, e)
  BY DEF Call
<1>2. PICK th : th = [pc |-> "waiting", request |-> e]
  OBVIOUS
<1>3. /\ phase = "serving" /\ threads[t] = Idle /\ UNCHANGED Elsewhere
      /\ threads' = [threads EXCEPT ![t] = th]
  BY <1>1, <1>2 DEF CallWith, Elsewhere
<1>4. th.pc = "waiting" /\ th.request = e
  BY <1>2
<1>5. ThreadOK(th, n, Journal, past, writable) /\ th.pc \notin Working
  BY <1>4 DEF ThreadOK, Working
<1>6. threads[t].pc # "publishing"
  BY <1>3 DEF Idle
<1> QED BY <1>3, <1>5, <1>6, ThreadStep

LEMMA ReturnKeeps ==
  ASSUME NEW n, InvAt(n), NEW t \in Threads, Return(t)
  PROVE  InvAt(n)'
<1>1. /\ threads[t].pc = "answered" /\ UNCHANGED Elsewhere
      /\ threads' = [threads EXCEPT ![t] = Idle]
  BY DEF Return, Elsewhere
<1>2. phase = "serving"
  BY <1>1, BusyMeansServing
<1>3. PICK th : th = Idle
  OBVIOUS
<1>4. th.pc = "idle"
  BY <1>3 DEF Idle
<1>5. ThreadOK(th, n, Journal, past, writable) /\ th.pc \notin Working
  BY <1>4 DEF ThreadOK, Working
<1> QED BY <1>1, <1>2, <1>3, <1>5, ThreadStep

LEMMA RefuseKeeps ==
  ASSUME NEW n, InvAt(n), NEW t \in Threads, Refuse(t)
  PROVE  InvAt(n)'
<1>1. PICK error, stateError :
        /\ error # Ok /\ threads' = Failed(t, error, stateError)
        /\ threads[t].pc = "waiting" /\ UNCHANGED Elsewhere
  BY DEF Refuse, Elsewhere
<1>2. phase = "serving" /\ threads[t].request \in Envelopes
  BY <1>1, BusyMeansServing DEF InvAt, ThreadsOK, ThreadOK
<1>3. PICK th : th = [pc |-> "answered", request |-> threads[t].request,
                      code |-> error, stateError |-> stateError]
  OBVIOUS
<1>4. th.pc = "answered" /\ th.code # Ok /\ th.request \in Envelopes
  BY <1>1, <1>2, <1>3
<1>5. ThreadOK(th, n, Journal, past, writable) /\ th.pc \notin Working
  BY <1>4 DEF ThreadOK, Working
<1>6. threads' = [threads EXCEPT ![t] = th]
  BY <1>1, <1>3 DEF Failed
<1> QED BY <1>1, <1>2, <1>5, <1>6, ThreadStep

(* A known identifier is one in the journal, with the answer it has there. *)
LEMMA KnownIsJournaled ==
  ASSUME NEW n, InvAt(n), NEW id \in DOMAIN idempotency
  PROVE  \E i \in 1..Len(Journal) : /\ i <= n /\ Journal[i].commandId = id
                                    /\ idempotency[id] = RecordOf(Journal[i])
<1>1. PICK J : J = Journal
  OBVIOUS
<1>2. /\ IsSeq(J) /\ Distinct(J) /\ n \in 0..Len(J)
      /\ idempotency = IndexOf(SubSeq(J, 1, n))
  BY <1>1 DEF InvAt, Recorded, ServesAt
<1>3. Len(J) \in Nat
  BY <1>2, SeqFacts
<1>4. PICK P : P = SubSeq(J, 1, n)
  OBVIOUS
<1>5. IsSeq(P) /\ Distinct(P) /\ Len(P) = n /\ \A i \in 1..n : P[i] = J[i]
  BY <1>2, <1>4, FirstAreDistinct
<1>6. Indexes(idempotency, P)
  BY <1>2, <1>4, <1>5, IndexFacts
<1>7. PICK i \in 1..n : id = P[i].commandId
  BY <1>5, <1>6 DEF Indexes
<1>8. idempotency[id] = RecordOf(P[i])
  BY <1>5, <1>6, <1>7 DEF Indexes
<1>9. i \in 1..Len(J) /\ i <= n /\ P[i] = J[i]
  BY <1>2, <1>3, <1>5, <1>7
<1> QED BY <1>1, <1>7, <1>8, <1>9

LEMMA AnswerAgainKeeps ==
  ASSUME NEW n, InvAt(n), NEW t \in Threads, AnswerAgain(t)
  PROVE  InvAt(n)'
<1>1. PICK request, record :
        /\ request = threads[t].request
        /\ record = idempotency[request.commandId]
  OBVIOUS
<1>2. /\ threads[t].pc = "waiting" /\ UNCHANGED Elsewhere
      /\ request.commandId \in DOMAIN idempotency
      /\ threads' = IF record.request = request
                    THEN Answered(t, Receipt(record.result, TRUE))
                    ELSE Failed(t, "IdempotencyConflict", Ok)
  BY <1>1 DEF AnswerAgain, Elsewhere, IsKnown, SameRequest
<1>3. phase = "serving" /\ request \in Envelopes
  BY <1>1, <1>2, BusyMeansServing DEF InvAt, ThreadsOK, ThreadOK
<1>4. PICK i \in 1..Len(Journal) : /\ Journal[i].commandId = request.commandId
                                   /\ record = RecordOf(Journal[i])
  BY <1>1, <1>2, KnownIsJournaled
<1>5. record.request = Journal[i].request /\ record.result = Journal[i].result
  BY <1>4 DEF RecordOf
<1>6. CASE record.request = request
  <2>1. PICK th : th = [pc |-> "answered", request |-> request, code |-> Ok,
                        receipt |-> Receipt(record.result, TRUE)]
    OBVIOUS
  <2>2. /\ th.pc = "answered" /\ th.request = request
        /\ th.receipt.result = record.result
    BY <2>1 DEF Receipt
  <2>3. ThreadOK(th, n, Journal, past, writable) /\ th.pc \notin Working
    BY <1>3, <1>5, <1>6, <2>2 DEF ThreadOK, Working
  <2>4. threads' = [threads EXCEPT ![t] = th]
    BY <1>1, <1>2, <1>6, <2>1 DEF Answered
  <2> QED BY <1>2, <1>3, <2>3, <2>4, ThreadStep
<1>7. CASE record.request # request
  <2>1. PICK th : th = [pc |-> "answered", request |-> request,
                        code |-> "IdempotencyConflict", stateError |-> Ok]
    OBVIOUS
  <2>2. th.pc = "answered" /\ th.request = request /\ th.code # Ok
    BY <2>1 DEF Ok
  <2>3. ThreadOK(th, n, Journal, past, writable) /\ th.pc \notin Working
    BY <1>3, <2>2 DEF ThreadOK, Working
  <2>4. threads' = [threads EXCEPT ![t] = th]
    BY <1>1, <1>2, <1>7, <2>1 DEF Failed
  <2> QED BY <1>2, <1>3, <2>3, <2>4, ThreadStep
<1> QED BY <1>6, <1>7

(* What the checks before an append establish.                             *)
LEMMA ExecuteAccepted ==
  ASSUME NEW c, ExecuteError(c) = Ok
  PROVE  writable /\ nextSequence # Exhausted /\ CommandError(snapshot, c) = Ok
<1>1. writable /\ nextSequence # Exhausted /\ EvaluationError(snapshot, c) = Ok
  BY DEF ExecuteError, Fail, ??, Ok
<1>2. CommandError(snapshot, c) = Ok
  BY <1>1 DEF EvaluationError, Fail, ??, Ok
<1> QED BY <1>1, <1>2

LEMMA BeginAppendKeeps ==
  ASSUME NEW n, InvAt(n), NEW t \in Threads, BeginAppend(t)
  PROVE  InvAt(n)'
<1>1. PICK request : request = threads[t].request
  OBVIOUS
<1>2. PICK after : after = Prospective(snapshot, request.command)
  OBVIOUS
<1>3. PICK batch : batch = BatchOf(request, after)
  OBVIOUS
<1>4. PICK th : th = [pc |-> "appending", request |-> request,
                      batch |-> batch, after |-> after]
  OBVIOUS
<1>5. /\ threads[t].pc = "waiting" /\ MutexIsFree /\ UNCHANGED Elsewhere
      /\ request.commandId \notin DOMAIN idempotency
      /\ ExecuteError(request.command) = Ok
      /\ threads' = [threads EXCEPT ![t] = th]
  BY <1>1, <1>2, <1>3, <1>4 DEF BeginAppend, Elsewhere, IsKnown
<1>6. phase = "serving" /\ request \in Envelopes
  BY <1>1, <1>5, BusyMeansServing DEF InvAt, ThreadsOK, ThreadOK
<1>7. /\ writable /\ nextSequence # Exhausted
      /\ CommandError(snapshot, request.command) = Ok
  BY <1>5, ExecuteAccepted
<1>8. \A u \in Threads : threads[u].pc \notin Working
  BY <1>5 DEF MutexIsFree, Working
<1>9. PICK J : J = Journal
  OBVIOUS
<1>10. n = Len(J)
  BY <1>6, <1>7, <1>8, <1>9 DEF InvAt, PhaseOK, Working
<1>11. /\ Recorded(J, past)
       /\ ServesAt(n, J, past, snapshot, idempotency, nextSequence)
  BY <1>9 DEF InvAt
<1>12. IsSeq(J) /\ Distinct(J) /\ Len(J) \in Nat /\ n \in 0..MaxSequence
  BY <1>10, <1>11, SeqFacts, SequenceWidth DEF Recorded
<1>13. /\ n < MaxSequence /\ nextSequence = n + 1 /\ snapshot = past[n + 1]
       /\ idempotency = IndexOf(SubSeq(J, 1, n))
  BY <1>7, <1>11, <1>12, NumberedNext DEF ServesAt
<1>14. Executed(batch, n + 1, past[n + 1], after)
  <2>1. batch = [sequence |-> n + 1, commandId |-> request.commandId,
                 request |-> request, events |-> <<request.command>>,
                 result |-> ResultOf(past[n + 1], request.command, after)]
    BY <1>3, <1>13 DEF BatchOf
  <2>2. /\ CommandError(past[n + 1], request.command) = Ok
        /\ after = Prospective(past[n + 1], request.command)
    BY <1>2, <1>7, <1>13
  <2> QED BY <1>6, <2>1, <2>2 DEF Executed
<1>15. batch.commandId = request.commandId /\ batch.request = request
  BY <1>3 DEF BatchOf
<1>16. \A i \in 1..Len(J) : J[i].commandId # batch.commandId
  <2>1. PICK P : P = SubSeq(J, 1, n)
    OBVIOUS
  <2>2. P = J
    <3>1. n \in 0..Len(J)
      BY <1>10, <1>12
    <3> QED BY <1>10, <1>12, <2>1, <3>1, FirstOf
  <2>3. Indexes(idempotency, J)
    BY <1>12, <1>13, <2>1, <2>2, IndexFacts
  <2> QED BY <1>5, <1>15, <2>3 DEF Indexes
<1>17. Ready(J, past, batch, after)
  BY <1>10, <1>13, <1>14, <1>16 DEF Ready
<1>18. ThreadOK(th, n, Journal, past, writable)
  <2>1. /\ th.pc = "appending" /\ th.request = request
        /\ th.batch = batch /\ th.after = after
        /\ th = [pc |-> th.pc, request |-> th.request,
                 batch |-> th.batch, after |-> th.after]
    BY <1>4
  <2> QED BY <1>6, <1>7, <1>9, <1>10, <1>15, <1>17, <2>1 DEF ThreadOK, Working
<1>19. threads[t].pc # "publishing"
  BY <1>5
<1> QED BY <1>5, <1>6, <1>8, <1>18, <1>19, ThreadStep

-----------------------------------------------------------------------------
(* Steps that write the journal.                                           *)

LEMMA AppendingIsReady ==
  ASSUME NEW n, InvAt(n), NEW t \in Threads, threads[t].pc = "appending"
  PROVE  /\ writable /\ n = Len(Journal) /\ ~IsTorn(file)
         /\ threads[t].batch.request = threads[t].request
         /\ Ready(Journal, past, threads[t].batch, threads[t].after)
         /\ \A u \in Threads : u # t => threads[u].pc \notin Working
<1>1. ThreadsOK(n, Journal, past, writable, threads)
  BY DEF InvAt
<1>2. ThreadOK(threads[t], n, Journal, past, writable)
  BY <1>1 DEF ThreadsOK
<1>3. /\ writable /\ n = Len(Journal)
      /\ threads[t].batch.request = threads[t].request
      /\ Ready(Journal, past, threads[t].batch, threads[t].after)
  BY <1>2 DEF ThreadOK
<1>4. \A u \in Threads : u # t => threads[u].pc \notin Working
  BY <1>1 DEF ThreadsOK, Working
<1> QED BY <1>3, <1>4 DEF InvAt

(* Whatever a failed append or a crash leaves of the frame.                *)
LEMMA LeftBehind ==
  ASSUME NEW n, InvAt(n), NEW t \in Threads, threads[t].pc = "appending",
         LeaveBehind(t)
  PROVE  Sound(file') /\ LogStep(Journal, past, Journal', past')
<1>1. PICK batch, after : batch = threads[t].batch /\ after = threads[t].after
  OBVIOUS
<1>2. Sound(file) /\ ~IsTorn(file) /\ IsSeq(file) /\ Ready(Journal, past, batch, after)
  BY <1>1, AppendingIsReady DEF InvAt, Sound
<1>3. PICK whole : whole = Append(file, Frame(batch))
  OBVIOUS
<1>4. PICK torn : torn = Append(file, TornFrame)
  OBVIOUS
<1>5. /\ file' \in {file, torn, whole}
      /\ past' = IF file' = whole THEN Append(past, after) ELSE past
  BY <1>1, <1>3, <1>4 DEF LeaveBehind, Leftovers
<1>6. CASE file' = whole
  <2>1. Sound(whole) /\ BatchesOf(whole) = Append(BatchesOf(file), batch)
    BY <1>2, <1>3, FrameAdds
  <2>2. Journal' = Append(Journal, batch)
    BY <1>6, <2>1 DEF Journal
  <2> QED BY <1>2, <1>5, <1>6, <2>1, <2>2 DEF LogStep
<1>7. CASE file' = torn
  <2>1. Sound(torn) /\ BatchesOf(torn) = BatchesOf(file) /\ torn # whole
    BY <1>2, <1>3, <1>4, TornFrameAddsNothing
  <2>2. Journal' = Journal
    BY <1>7, <2>1 DEF Journal
  <2> QED BY <1>5, <1>7, <2>1, <2>2 DEF LogStep
<1>8. CASE file' = file
  <2>1. file # whole
    BY <1>2, <1>3, NothingIsNotAFrame
  <2>2. Journal' = Journal
    BY <1>8 DEF Journal
  <2> QED BY <1>2, <1>5, <1>8, <2>1, <2>2 DEF LogStep
<1> QED BY <1>5, <1>6, <1>7, <1>8

(* The parts that a step leaves alone which lets the journal grow.         *)
LEMMA LogGrows ==
  ASSUME NEW n, InvAt(n), LogStep(Journal, past, Journal', past')
  PROVE  /\ Recorded(Journal, past)'
         /\ Continues(Journal', Journal) /\ Continues(past', past)
         /\ Len(Journal') = Len(Journal) \/ Len(Journal') = Len(Journal) + 1
         /\ Len(Journal) \in Nat /\ Len(past') = Len(Journal') + 1
         /\ ServesAt(n, Journal', past', snapshot, idempotency, nextSequence)
<1>1. PICK J, K, states, more :
        J = Journal /\ K = Journal' /\ states = past /\ more = past'
  OBVIOUS
<1>2. /\ Recorded(J, states) /\ LogStep(J, states, K, more)
      /\ ServesAt(n, J, states, snapshot, idempotency, nextSequence)
  BY <1>1 DEF InvAt
<1>3. /\ Recorded(K, more) /\ Continues(K, J) /\ Continues(more, states)
      /\ Len(K) = Len(J) \/ Len(K) = Len(J) + 1
  BY <1>2, LogStepKeeps
<1>4. ServesAt(n, K, more, snapshot, idempotency, nextSequence)
  BY <1>2, <1>3, ServesStill
<1>5. Len(J) \in Nat /\ Len(more) = Len(K) + 1
  BY <1>3 DEF Continues, Recorded
<1> QED BY <1>1, <1>3, <1>4, <1>5

LEMMA AppendSucceedsKeeps ==
  ASSUME NEW n, InvAt(n), NEW t \in Threads, AppendSucceeds(t)
  PROVE  InvAt(n)' /\ Sound(file') /\ LogStep(Journal, past, Journal', past')
<1>1. PICK batch, after : batch = threads[t].batch /\ after = threads[t].after
  OBVIOUS
<1>2. /\ threads[t].pc = "appending"
      /\ file' = Append(file, Frame(batch)) /\ past' = Append(past, after)
      /\ threads' = [threads EXCEPT ![t].pc = "publishing"]
      /\ phase' = phase /\ startError' = startError /\ recovered' = recovered
      /\ writable' = writable /\ snapshot' = snapshot
      /\ idempotency' = idempotency /\ nextSequence' = nextSequence
      /\ seen' = seen
  BY <1>1 DEF AppendSucceeds, service
<1>3. /\ writable /\ n = Len(Journal) /\ ~IsTorn(file) /\ Sound(file)
      /\ batch.request = threads[t].request
      /\ Ready(Journal, past, batch, after)
      /\ \A u \in Threads : u # t => threads[u].pc \notin Working
  BY <1>1, <1>2, AppendingIsReady DEF InvAt
<1>4. Sound(file') /\ ~IsTorn(file') /\ Journal' = Append(Journal, batch)
  BY <1>2, <1>3, FrameAdds DEF Journal
<1>5. LogStep(Journal, past, Journal', past')
  BY <1>2, <1>3, <1>4 DEF LogStep
<1>6. /\ Recorded(Journal, past)'
      /\ Continues(Journal', Journal) /\ Continues(past', past)
      /\ Len(Journal) \in Nat
      /\ ServesAt(n, Journal', past', snapshot, idempotency, nextSequence)
  BY <1>5, LogGrows
<1>7. /\ Len(Journal') = n + 1 /\ Journal'[n + 1] = batch /\ past'[n + 2] = after
  <2>1. IsSeq(Journal) /\ IsSeq(past) /\ Len(past) = n + 1
    BY <1>3 DEF InvAt, Recorded
  <2>2. Grown(Journal', Journal, batch)
    BY <1>4, <2>1, Appended
  <2>3. Grown(past', past, after)
    BY <1>2, <2>1, Appended
  <2>4. Len(Journal') = n + 1 /\ Journal'[n + 1] = batch
    BY <1>3, <2>2 DEF Grown
  <2>5. past'[n + 2] = after
    <3>1. past'[Len(past) + 1] = after
      BY <2>3 DEF Grown
    <3>2. (n + 1) + 1 = n + 2
      BY <1>3, <1>6
    <3> QED BY <2>1, <3>1, <3>2
  <2> QED BY <2>4, <2>5
<1>8. phase = "serving"
  BY <1>2, BusyMeansServing
<1>9. ThreadsOK(n, Journal, past, writable, threads)
  BY DEF InvAt
<1>10. /\ threads' = [u \in Threads |-> threads'[u]]
       /\ threads'[t] = [threads[t] EXCEPT !.pc = "publishing"]
       /\ \A u \in Threads : u # t => threads'[u] = threads[u]
  BY <1>2, <1>9 DEF ThreadsOK
<1>11. /\ threads'[t].pc = "publishing"
       /\ threads'[t].request = threads[t].request
       /\ threads'[t].batch = batch /\ threads'[t].after = after
  <2>1. PICK th : th = threads[t]
    OBVIOUS
  <2>2. th = [pc |-> th.pc, request |-> th.request,
              batch |-> th.batch, after |-> th.after]
    BY <1>2, <1>9, <2>1 DEF ThreadsOK, ThreadOK
  <2> QED BY <1>1, <1>10, <2>1, <2>2
<1>12. ThreadsOK(n, Journal, past, writable, threads)'
  <2>1. ThreadOK(threads'[t], n, Journal', past', writable')
    <3>1. threads'[t].request \in Envelopes
      BY <1>2, <1>9, <1>11 DEF ThreadsOK, ThreadOK
    <3> QED BY <1>3, <1>7, <1>11, <3>1 DEF ThreadOK, Working
  <2>2. ASSUME NEW u \in Threads, u # t
        PROVE  ThreadOK(threads'[u], n, Journal', past', writable')
    <3>1. PICK th, J, K : th = threads[u] /\ J = Journal /\ K = Journal'
      OBVIOUS
    <3>2. ThreadOK(th, n, J, past, writable) /\ th.pc \notin Working
      BY <1>3, <1>9, <2>2, <3>1 DEF ThreadsOK
    <3>3. ThreadOK(th, n, K, past', writable')
      BY <1>6, <3>1, <3>2, ThreadStays
    <3> QED BY <1>10, <2>2, <3>1, <3>3
  <2>3. \A u, v \in Threads :
          threads'[u].pc \in Working /\ threads'[v].pc \in Working => u = v
    BY <1>3, <1>10
  <2> QED BY <1>10, <2>1, <2>2, <2>3 DEF ThreadsOK
<1>13. PhaseOK(n, Journal, past)'
  <2>1. recovered' = NothingRecovered
    BY <1>2, <1>8 DEF InvAt, PhaseOK
  <2> QED BY <1>2, <1>7, <1>8, <1>11, <2>1 DEF PhaseOK
<1>14. SeenOK(n, past)'
  <2>1. PICK m \in 1..Len(past) : seen = past[m] /\ m <= n + 1
    BY <1>8 DEF InvAt, SeenOK
  <2>2. m \in 1..Len(past') /\ past'[m] = past[m]
    BY <1>6 DEF Continues
  <2> QED BY <1>2, <2>1, <2>2 DEF SeenOK
<1>15. startError' \in {Ok, "StoreFailure"}
  BY <1>2 DEF InvAt
<1>16. ServesAt(n, Journal, past, snapshot, idempotency, nextSequence)'
  BY <1>2, <1>6
<1> QED BY <1>4, <1>5, <1>6, <1>12, <1>13, <1>14, <1>15, <1>16 DEF InvAt

LEMMA AppendFailsKeeps ==
  ASSUME NEW n, InvAt(n), NEW t \in Threads, AppendFails(t)
  PROVE  InvAt(n)' /\ LogStep(Journal, past, Journal', past')
<1>1. /\ threads[t].pc = "appending" /\ LeaveBehind(t)
      /\ threads' = Failed(t, "JournalUnavailable", Ok)
      /\ phase' = phase /\ startError' = startError /\ recovered' = recovered
      /\ writable' = FALSE /\ snapshot' = snapshot
      /\ idempotency' = idempotency /\ nextSequence' = nextSequence
      /\ seen' = seen
  BY DEF AppendFails, AppendFailure, WritableAfterFailure
<1>2. Sound(file') /\ LogStep(Journal, past, Journal', past')
  BY <1>1, LeftBehind
<1>3. n = Len(Journal) /\ \A u \in Threads : u # t => threads[u].pc \notin Working
  BY <1>1, AppendingIsReady
<1>4. /\ Recorded(Journal, past)'
      /\ Continues(Journal', Journal) /\ Continues(past', past)
      /\ Len(Journal') = Len(Journal) \/ Len(Journal') = Len(Journal) + 1
      /\ Len(Journal) \in Nat
      /\ ServesAt(n, Journal', past', snapshot, idempotency, nextSequence)
  BY <1>2, LogGrows
<1>5. phase = "serving"
  BY <1>1, BusyMeansServing
<1>6. ThreadsOK(n, Journal, past, writable, threads)
  BY DEF InvAt
<1>7. PICK th : th = [pc |-> "answered", request |-> threads[t].request,
                      code |-> "JournalUnavailable", stateError |-> Ok]
  OBVIOUS
<1>8. /\ threads' = [u \in Threads |-> threads'[u]]
      /\ threads'[t] = th
      /\ \A u \in Threads : u # t => threads'[u] = threads[u]
  BY <1>1, <1>6, <1>7 DEF ThreadsOK, Failed
<1>9. th.pc = "answered" /\ th.code # Ok /\ th.request \in Envelopes
  <2>1. threads[t].request \in Envelopes
    BY <1>1, <1>6 DEF ThreadsOK, ThreadOK
  <2> QED BY <1>7, <2>1 DEF Ok
<1>10. ThreadsOK(n, Journal, past, writable, threads)'
  <2>1. ThreadOK(threads'[t], n, Journal', past', writable')
    BY <1>8, <1>9 DEF ThreadOK, Working
  <2>2. ASSUME NEW u \in Threads, u # t
        PROVE  ThreadOK(threads'[u], n, Journal', past', writable')
    <3>1. PICK thu, J, K : thu = threads[u] /\ J = Journal /\ K = Journal'
      OBVIOUS
    <3>2. ThreadOK(thu, n, J, past, writable) /\ thu.pc \notin Working
      BY <1>3, <1>6, <2>2, <3>1 DEF ThreadsOK
    <3>3. ThreadOK(thu, n, K, past', writable')
      BY <1>4, <3>1, <3>2, ThreadStays
    <3> QED BY <1>8, <2>2, <3>1, <3>3
  <2>3. \A u, v \in Threads :
          threads'[u].pc \in Working /\ threads'[v].pc \in Working => u = v
    BY <1>3, <1>8, <1>9 DEF Working
  <2> QED BY <1>8, <2>1, <2>2, <2>3 DEF ThreadsOK
<1>11. PhaseOK(n, Journal, past)'
  <2>1. recovered' = NothingRecovered
    BY <1>1, <1>5 DEF InvAt, PhaseOK
  <2> QED BY <1>1, <1>3, <1>4, <1>5, <2>1 DEF PhaseOK
<1>12. SeenOK(n, past)'
  <2>1. PICK m \in 1..Len(past) : seen = past[m] /\ m <= n + 1
    BY <1>5 DEF InvAt, SeenOK
  <2>2. m \in 1..Len(past') /\ past'[m] = past[m]
    BY <1>4 DEF Continues
  <2> QED BY <1>1, <2>1, <2>2 DEF SeenOK
<1>13. ServesAt(n, Journal, past, snapshot, idempotency, nextSequence)'
  BY <1>1, <1>4
<1>14. startError' \in {Ok, "StoreFailure"} /\ ~writable'
  BY <1>1 DEF InvAt
<1> QED BY <1>2, <1>4, <1>10, <1>11, <1>12, <1>13, <1>14 DEF InvAt

LEMMA PublishKeeps ==
  ASSUME NEW n, InvAt(n), NEW t \in Threads, Publish(t)
  PROVE  InvAt(n + 1)'
<1>1. PICK batch : batch = threads[t].batch
  OBVIOUS
<1>2. /\ threads[t].pc = "publishing"
      /\ idempotency' = Emplace(idempotency, batch.commandId, RecordOf(batch))
      /\ nextSequence' = Following(nextSequence)
      /\ snapshot' = threads[t].after
      /\ threads' = Answered(t, Receipt(batch.result, FALSE))
      /\ file' = file /\ phase' = phase /\ startError' = startError
      /\ recovered' = recovered /\ writable' = writable /\ seen' = seen
      /\ past' = past
  BY <1>1 DEF Publish
<1>3. Journal' = Journal
  BY <1>2 DEF Journal
<1>4. ThreadsOK(n, Journal, past, writable, threads)
  BY DEF InvAt
<1>5. /\ n + 1 = Len(Journal) /\ batch.request = threads[t].request
      /\ batch = Journal[n + 1] /\ threads[t].after = past[n + 2]
      /\ threads[t].request \in Envelopes
      /\ \A u \in Threads : u # t => threads[u].pc \notin Working
  <2>1. ThreadOK(threads[t], n, Journal, past, writable)
    BY <1>4 DEF ThreadsOK
  <2>2. \A u \in Threads : u # t => threads[u].pc \notin Working
    BY <1>2, <1>4 DEF ThreadsOK, Working
  <2> QED BY <1>1, <1>2, <2>1, <2>2 DEF ThreadOK
<1>6. phase = "serving"
  BY <1>2, BusyMeansServing
<1>7. PICK J, states : J = Journal /\ states = past
  OBVIOUS
<1>8. /\ Recorded(J, states)
      /\ ServesAt(n, J, states, snapshot, idempotency, nextSequence)
  BY <1>7 DEF InvAt
<1>9. ServesAt(n + 1, J, states, states[n + 2],
               Emplace(idempotency, batch.commandId, RecordOf(batch)),
               Following(nextSequence))
  BY <1>5, <1>7, <1>8, ServesNext
<1>10. ServesAt(n + 1, Journal, past, snapshot, idempotency, nextSequence)'
  BY <1>2, <1>3, <1>5, <1>7, <1>9
<1>11. PICK th : th = [pc |-> "answered", request |-> threads[t].request,
                       code |-> Ok, receipt |-> Receipt(batch.result, FALSE)]
  OBVIOUS
<1>12. /\ threads' = [u \in Threads |-> threads'[u]]
       /\ threads'[t] = th
       /\ \A u \in Threads : u # t => threads'[u] = threads[u]
  BY <1>2, <1>4, <1>11 DEF ThreadsOK, Answered
<1>13. /\ th.pc = "answered" /\ th.request = batch.request
       /\ th.request \in Envelopes /\ th.receipt.result = batch.result
  BY <1>5, <1>11 DEF Receipt
<1>14. n \in Nat /\ Len(J) \in Nat /\ n + 1 \in 1..Len(Journal)
  <2>1. Len(J) \in Nat
    BY <1>8, SeqFacts DEF Recorded
  <2> QED BY <1>5, <1>7, <1>8, <2>1 DEF ServesAt
<1>15. ThreadsOK(n + 1, Journal, past, writable, threads)'
  <2>1. ThreadOK(th, n + 1, Journal, past, writable)
    BY <1>5, <1>13, <1>14 DEF ThreadOK, Working
  <2>2. ASSUME NEW u \in Threads, u # t
        PROVE  ThreadOK(threads'[u], n + 1, Journal, past, writable)
    <3>1. PICK thu : thu = threads[u]
      OBVIOUS
    <3>2. ThreadOK(thu, n, J, past, writable) /\ thu.pc \notin Working
      BY <1>4, <1>5, <1>7, <2>2, <3>1 DEF ThreadsOK
    <3>3. Continues(J, J)
      BY <1>14 DEF Continues
    <3>4. ThreadOK(thu, n + 1, J, past, writable)
      BY <3>2, <3>3, ThreadStays
    <3> QED BY <1>7, <1>12, <2>2, <3>1, <3>4
  <2>3. \A u, v \in Threads :
          threads'[u].pc \in Working /\ threads'[v].pc \in Working => u = v
    BY <1>5, <1>12, <1>13 DEF Working
  <2>4. ThreadsOK(n + 1, Journal, past, writable, threads')
    BY <1>12, <2>1, <2>2, <2>3 DEF ThreadsOK
  <2> QED BY <1>2, <1>3, <2>4
<1>16. PhaseOK(n + 1, Journal, past)'
  <2>1. recovered' = NothingRecovered
    BY <1>2, <1>6 DEF InvAt, PhaseOK
  <2>2. n + 1 = Len(Journal') /\ (n + 1) + 1 # Len(Journal')
    BY <1>3, <1>5, <1>14
  <2> QED BY <1>2, <1>6, <2>1, <2>2 DEF PhaseOK
<1>17. SeenOK(n + 1, past)'
  <2>1. PICK m \in 1..Len(past) : seen = past[m] /\ m <= n + 1
    BY <1>6 DEF InvAt, SeenOK
  <2>2. m <= (n + 1) + 1
    BY <1>14, <2>1
  <2> QED BY <1>2, <2>1, <2>2 DEF SeenOK
<1>18. /\ Sound(file') /\ Recorded(Journal, past)' /\ (writable' => ~IsTorn(file'))
       /\ startError' \in {Ok, "StoreFailure"}
  BY <1>2, <1>3 DEF InvAt
<1> QED BY <1>10, <1>15, <1>16, <1>17, <1>18 DEF InvAt

-----------------------------------------------------------------------------
(* Readers, the end of the process, and recovery.                          *)

LEMMA ReadKeeps ==
  ASSUME NEW n, InvAt(n), Read
  PROVE  InvAt(n)'
<1>1. /\ phase = "serving" /\ seen' = snapshot /\ file' = file
      /\ phase' = phase /\ startError' = startError /\ recovered' = recovered
      /\ writable' = writable /\ snapshot' = snapshot
      /\ idempotency' = idempotency /\ nextSequence' = nextSequence
      /\ threads' = threads /\ past' = past
  BY DEF Read, service
<1>2. Journal' = Journal
  BY <1>1 DEF Journal
<1>3. SeenOK(n, past)'
  <2>1. /\ snapshot = past[n + 1] /\ n \in 0..Len(Journal)
        /\ Len(past) = Len(Journal) + 1 /\ IsSeq(Journal)
    BY DEF InvAt, ServesAt, Recorded
  <2>2. Len(Journal) \in Nat
    BY <2>1, SeqFacts
  <2>3. n + 1 \in 1..Len(past) /\ n + 1 <= n + 1
    BY <2>1, <2>2
  <2> QED BY <1>1, <2>1, <2>3 DEF SeenOK
<1>4. PhaseOK(n, Journal, past)'
  BY <1>1, <1>2 DEF InvAt, PhaseOK
<1>5. /\ Sound(file') /\ Recorded(Journal, past)' /\ (writable' => ~IsTorn(file'))
      /\ startError' \in {Ok, "StoreFailure"}
      /\ ServesAt(n, Journal, past, snapshot, idempotency, nextSequence)'
      /\ ThreadsOK(n, Journal, past, writable, threads)'
  BY <1>1, <1>2 DEF InvAt
<1> QED BY <1>3, <1>4, <1>5 DEF InvAt

LEMMA IdleIsOK ==
  ASSUME NEW n, NEW J, NEW states, NEW canWrite
  PROVE  ThreadsOK(n, J, states, canWrite, AllIdle)
<1>1. PICK ths : ths = AllIdle
  OBVIOUS
<1>2. ths = [t \in Threads |-> ths[t]] /\ \A t \in Threads : ths[t].pc = "idle"
  BY <1>1 DEF AllIdle, Idle
<1>3. ThreadsOK(n, J, states, canWrite, ths)
  BY <1>2 DEF ThreadsOK, ThreadOK, Working
<1> QED BY <1>1, <1>3

LEMMA CrashKeeps ==
  ASSUME NEW n, InvAt(n), Crash
  PROVE  InvAt(0)' /\ LogStep(Journal, past, Journal', past')
<1>1. /\ phase' = "down" /\ startError' = Ok /\ recovered' = NothingRecovered
      /\ writable' = FALSE /\ snapshot' = InitialState
      /\ idempotency' = EmptyMap /\ nextSequence' = 1
      /\ threads' = AllIdle /\ seen' = seen
  BY DEF Crash, Stop
<1>2. Sound(file') /\ LogStep(Journal, past, Journal', past')
  <2>1. CASE \E t \in Threads : threads[t].pc = "appending"
    <3>1. PICK t \in Threads : threads[t].pc = "appending" /\ LeaveBehind(t)
      BY <2>1 DEF Crash
    <3> QED BY <3>1, LeftBehind
  <2>2. CASE ~\E t \in Threads : threads[t].pc = "appending"
    <3>1. file' = file /\ past' = past
      BY <2>2 DEF Crash
    <3>2. Journal' = Journal
      BY <3>1 DEF Journal
    <3> QED BY <3>1, <3>2 DEF InvAt, LogStep
  <2> QED BY <2>1, <2>2
<1>3. /\ Recorded(Journal, past)' /\ Continues(past', past)
  BY <1>2, LogGrows
<1>4. ServesAt(0, Journal, past, snapshot, idempotency, nextSequence)'
  <2>1. PICK J, states : J = Journal' /\ states = past'
    OBVIOUS
  <2>2. ServesAt(0, J, states, InitialState, EmptyMap, 1)
    BY <1>3, <2>1, ServesNone
  <2> QED BY <1>1, <2>1, <2>2
<1>5. ThreadsOK(0, Journal, past, writable, threads)'
  BY <1>1, IdleIsOK
<1>6. PhaseOK(0, Journal, past)'
  BY <1>1 DEF PhaseOK
<1>7. SeenOK(0, past)'
  <2>1. PICK m \in 1..Len(past) : seen = past[m]
    BY DEF InvAt, SeenOK
  <2>2. m \in 1..Len(past') /\ past'[m] = past[m]
    BY <1>3 DEF Continues
  <2> QED BY <1>1, <2>1, <2>2 DEF SeenOK
<1> QED BY <1>1, <1>2, <1>3, <1>4, <1>5, <1>6, <1>7 DEF InvAt

(* No batch of an own journal is refused for its shape.                    *)
LEMMA RequestsPass ==
  ASSUME NEW J, NEW states, Recorded(J, states)
  PROVE  RequestError(J) = Ok
<1>1. DOMAIN J = 1..Len(J)
  BY SeqFacts DEF Recorded
<1>2. ASSUME NEW i \in DOMAIN J
      PROVE  /\ J[i].request.commandId = J[i].commandId
             /\ J[i].request.command.kind = J[i].events[1].kind
  <2>1. Replays(J[i], i, states[i], states[i + 1])
    BY <1>1, <1>2 DEF Recorded
  <2>2. PICK c : J[i].events = <<c>> /\ J[i].request.command.kind = c.kind
    BY <2>1 DEF Replays
  <2>3. J[i].request.commandId = J[i].commandId
    BY <2>1 DEF Replays
  <2> QED BY <2>2, <2>3
<1> QED BY <1>2 DEF RequestError, Fail

(* Create keeps the journal; it opens it or reports a failure of the store.*)
LEMMA CreateKeeps ==
  ASSUME NEW n, InvAt(n), Create
  PROVE  InvAt(n)' /\ Journal' = Journal /\ past' = past
<1>1. PICK readable, resizable, recoveryError, error :
        /\ recoveryError = RecoveryError(file, readable, resizable)
        /\ error = recoveryError ?? RequestError(Journal)
        /\ phase = "down" /\ startError' = error
        /\ file' = IF recoveryError = Ok THEN TruncateTail(file) ELSE file
        /\ IF error # Ok
           THEN UNCHANGED <<phase, recovered, service>>
           ELSE /\ phase' = "recovering"
                /\ recovered' = [NothingRecovered EXCEPT !.batches = Journal]
                /\ writable' = TRUE
                /\ UNCHANGED <<snapshot, idempotency, nextSequence>>
        /\ UNCHANGED <<threads, seen, past>>
  BY DEF Create, Journal
<1>2. error \in {Ok, "StoreFailure"} /\ error = recoveryError
  <2>1. ScanError(file) = Ok
    BY TailIsCut DEF InvAt
  <2>2. RequestError(Journal) = Ok
    <3>1. PICK J : J = Journal
      OBVIOUS
    <3>2. RequestError(J) = Ok
      BY <3>1, RequestsPass DEF InvAt
    <3> QED BY <3>1, <3>2
  <2>3. recoveryError \in {Ok, "StoreFailure"}
    BY <1>1, <2>1 DEF RecoveryError, Fail, ??, Ok
  <2> QED BY <1>1, <2>2, <2>3 DEF ??, Ok
<1>3. /\ threads' = threads /\ seen' = seen /\ past' = past
      /\ startError' \in {Ok, "StoreFailure"}
      /\ snapshot' = snapshot /\ idempotency' = idempotency
      /\ nextSequence' = nextSequence
  BY <1>1, <1>2 DEF service
<1>4. n = 0 /\ threads = AllIdle /\ recovered = NothingRecovered /\ ~writable
  BY <1>1 DEF InvAt, PhaseOK
<1>5. Sound(file') /\ Journal' = Journal /\ (writable' => ~IsTorn(file'))
  <2>1. CASE error = Ok
    <3>1. PICK t : t = TruncateTail(file)
      OBVIOUS
    <3>2. Sound(t) /\ ~IsTorn(t) /\ BatchesOf(t) = BatchesOf(file)
      BY <3>1, TailIsCut DEF InvAt
    <3> QED BY <1>1, <1>2, <2>1, <3>1, <3>2 DEF Journal
  <2>2. CASE error # Ok
    <3>1. file' = file /\ writable' = writable
      BY <1>1, <1>2, <2>2 DEF service
    <3> QED BY <3>1 DEF InvAt, Journal
  <2> QED BY <2>1, <2>2
<1>6. /\ Recorded(Journal, past)'
      /\ ServesAt(n, Journal, past, snapshot, idempotency, nextSequence)'
  BY <1>3, <1>5 DEF InvAt
<1>7. ThreadsOK(n, Journal, past, writable, threads)'
  BY <1>3, <1>4, IdleIsOK
<1>8. phase' \in {"down", "recovering"}
  BY <1>1
<1>9. SeenOK(n, past)'
  BY <1>1, <1>3, <1>8 DEF InvAt, SeenOK
<1>10. PhaseOK(n, Journal, past)'
  <2>1. CASE error = Ok
    <3>1. PICK r : r = recovered'
      OBVIOUS
    <3>2. /\ r = [batches |-> Journal, position |-> 0, state |-> InitialState]
          /\ phase' = "recovering" /\ writable'
      BY <1>1, <2>1, <3>1 DEF NothingRecovered
    <3>3. r.position = 0 /\ r.state = InitialState /\ r.batches = Journal
      BY <3>2
    <3>4. past[0 + 1] = InitialState /\ Len(Journal) \in Nat
      BY SeqFacts DEF InvAt, Recorded
    <3>5. Replaying(r, Journal, past)
      BY <3>2, <3>3, <3>4 DEF Replaying
    <3>6. Replaying(recovered', Journal', past')
      BY <1>3, <1>5, <3>1, <3>5
    <3> QED BY <1>3, <1>4, <3>2, <3>6 DEF PhaseOK
  <2>2. CASE error # Ok
    <3>1. phase' = phase /\ recovered' = recovered /\ writable' = writable
      BY <1>1, <2>2 DEF service
    <3> QED BY <1>1, <1>3, <1>4, <3>1 DEF PhaseOK
  <2> QED BY <2>1, <2>2
<1> QED BY <1>3, <1>5, <1>6, <1>7, <1>9, <1>10 DEF InvAt

(* Replay accepts every batch of an own journal, and follows the states    *)
(* that its commands produced.                                             *)
LEMMA BatchReplays ==
  ASSUME NEW J, NEW states, Recorded(J, states), NEW i \in 1..Len(J),
         NEW b, b = J[i], NEW before, before = states[i]
  PROVE  /\ ReplayError(b, i, before) = Ok
         /\ ApplyEvent(before, b.events[1]) = states[i + 1]
<1>1. Len(J) \in Nat /\ Len(states) = Len(J) + 1
  BY SeqFacts DEF Recorded
<1>2. i \in 1..Len(states)
  BY <1>1
<1>3. Replays(b, i, before, states[i + 1]) /\ BooksInv(before)
  BY <1>2 DEF Recorded
<1>4. PICK after : after = states[i + 1]
  OBVIOUS
<1>5. PICK c \in Commands :
        /\ b.sequence = i /\ b.events = <<c>> /\ b.result = ResultOf(before, c, after)
        /\ CommandError(before, c) = Ok /\ after = Prospective(before, c)
  BY <1>3, <1>4 DEF Replays
<1>6. ResultMatches(ResultOf(before, c, after), c, before, after)
  BY <1>3, <1>5, AnswerMatches
<1>7. Len(b.events) = 1 /\ b.events[1] = c
  BY <1>5
<1>8. ApplyEvent(before, c) = after /\ ApplyEventError(before, c) = Ok
  BY <1>5 DEF ApplyEvent, ApplyEventError
<1>9. ResultMatches(b.result, c, before, ApplyEvent(before, c))
  BY <1>5, <1>6, <1>8
<1> QED BY <1>4, <1>5, <1>7, <1>8, <1>9 DEF ReplayError, Fail, ??

LEMMA ReplayKeeps ==
  ASSUME NEW n, InvAt(n), ReplayBatch
  PROVE  InvAt(n)' /\ Journal' = Journal /\ past' = past
<1>1. PICK position, batch :
        /\ position = recovered.position + 1
        /\ batch = recovered.batches[position]
  OBVIOUS
<1>2. /\ phase = "recovering" /\ position <= Len(recovered.batches)
      /\ file' = file /\ past' = past
  BY <1>1 DEF ReplayBatch
<1>3. Journal' = Journal
  BY <1>2 DEF Journal
<1>4. PICK J : J = Journal
  OBVIOUS
<1>5. Recorded(J, past) /\ Replaying(recovered, J, past)
  BY <1>2, <1>4 DEF InvAt, PhaseOK
<1>6. Len(J) \in Nat
  BY <1>5, SeqFacts DEF Recorded
<1>7. /\ recovered.batches = J /\ recovered.state = past[position]
      /\ position \in 1..Len(J) /\ batch = J[position]
      /\ recovered = [batches |-> J, position |-> recovered.position,
                      state |-> recovered.state]
  <2>1. recovered.batches = J /\ recovered.state = past[recovered.position + 1]
    BY <1>5 DEF Replaying
  <2>2. recovered.position \in 0..Len(J)
    BY <1>5 DEF Replaying
  <2>3. position \in 1..Len(J)
    BY <1>1, <1>2, <1>6, <2>1, <2>2
  <2> QED BY <1>1, <1>5, <2>1, <2>3 DEF Replaying
<1>8. PICK before : before = past[position]
  OBVIOUS
<1>9. /\ ReplayError(batch, position, before) = Ok
      /\ ApplyEvent(before, batch.events[1]) = past[position + 1]
  BY <1>5, <1>7, <1>8, BatchReplays
<1>10. /\ recovered' = [recovered EXCEPT !.position = position,
                                         !.state = past[position + 1]]
       /\ phase' = phase /\ startError' = startError /\ writable' = writable
       /\ snapshot' = snapshot /\ idempotency' = idempotency
       /\ nextSequence' = nextSequence /\ threads' = threads /\ seen' = seen
  <2>1. ReplayError(recovered.batches[recovered.position + 1],
                    recovered.position + 1, recovered.state) = Ok
    BY <1>1, <1>7, <1>8, <1>9
  <2>2. ApplyEvent(recovered.state,
                   recovered.batches[recovered.position + 1].events[1])
          = past[position + 1]
    BY <1>1, <1>7, <1>8, <1>9
  <2> QED BY <1>1, <2>1, <2>2 DEF ReplayBatch, service
<1>11. Replaying(recovered', J, past)
  <2>1. PICK r, next : r = recovered' /\ next = past[position + 1]
    OBVIOUS
  <2>2. r = [batches |-> J, position |-> position, state |-> next]
    BY <1>7, <1>10, <2>1
  <2>3. r.position = position
    BY <2>2
  <2> QED BY <1>6, <1>7, <2>1, <2>2, <2>3 DEF Replaying
<1>12. PhaseOK(n, Journal, past)'
  <2>1. Replaying(recovered', Journal', past')
    BY <1>2, <1>3, <1>4, <1>11
  <2>2. n = 0 /\ threads = AllIdle /\ writable
    BY <1>2 DEF InvAt, PhaseOK
  <2> QED BY <1>2, <1>10, <2>1, <2>2 DEF PhaseOK
<1>13. SeenOK(n, past)'
  BY <1>2, <1>10 DEF InvAt, SeenOK
<1>14. /\ Sound(file') /\ Recorded(Journal, past)' /\ (writable' => ~IsTorn(file'))
       /\ startError' \in {Ok, "StoreFailure"}
       /\ ServesAt(n, Journal, past, snapshot, idempotency, nextSequence)'
       /\ ThreadsOK(n, Journal, past, writable, threads)'
  BY <1>2, <1>3, <1>10 DEF InvAt
<1> QED BY <1>2, <1>3, <1>12, <1>13, <1>14 DEF InvAt

LEMMA FinishKeeps ==
  ASSUME NEW n, InvAt(n), FinishRecovery
  PROVE  InvAt(Len(Journal))' /\ Journal' = Journal /\ past' = past
<1>1. PICK J : J = Journal
  OBVIOUS
<1>2. /\ phase = "recovering" /\ recovered.position = Len(recovered.batches)
      /\ file' = file /\ past' = past
  BY DEF FinishRecovery
<1>3. Journal' = Journal
  BY <1>2 DEF Journal
<1>4. Recorded(J, past) /\ Replaying(recovered, J, past)
  BY <1>1, <1>2 DEF InvAt, PhaseOK
<1>5. Len(J) \in Nat /\ DOMAIN J = 1..Len(J) /\ Len(past) = Len(J) + 1
  BY <1>4, SeqFacts DEF Recorded
<1>6. PICK m \in Nat : m = Len(J)
  BY <1>5
<1>7. recovered.batches = J /\ recovered.state = past[m + 1]
  <2>1. recovered.batches = J
    BY <1>4 DEF Replaying
  <2>2. recovered.state = past[recovered.position + 1]
    BY <1>4 DEF Replaying
  <2> QED BY <1>2, <1>6, <2>1, <2>2
<1>8. TotalsError(recovered.state) = Ok
  <2>1. PICK s : s = past[m + 1]
    OBVIOUS
  <2>2. BooksInv(s)
    <3>1. m + 1 \in 1..Len(past)
      BY <1>5, <1>6
    <3> QED BY <1>4, <2>1, <3>1 DEF Recorded
  <2>3. InvariantsHold(s)
    BY <2>2, BooksBalance
  <2> QED BY <1>7, <2>1, <2>3 DEF InvariantsHold, TotalsError, Fail
<1>9. DuplicateError(J) = Ok
  BY <1>4, <1>5 DEF Recorded, Distinct, DuplicateError, Fail
<1>10. /\ phase' = "serving" /\ snapshot' = past[m + 1]
       /\ idempotency' = IndexOf(J) /\ nextSequence' = SequenceAfter(J)
       /\ recovered' = NothingRecovered /\ startError' = startError
       /\ writable' = writable /\ threads' = threads /\ seen' = seen
  <2>1. (TotalsError(recovered.state) ?? DuplicateError(recovered.batches)) = Ok
    BY <1>7, <1>8, <1>9 DEF ??
  <2> QED BY <1>7, <2>1 DEF FinishRecovery
<1>11. ServesAt(m, J, past, past[m + 1], IndexOf(J), SequenceAfter(J))
  BY <1>4, <1>6, ServesAll
<1>12. ServesAt(m, Journal, past, snapshot, idempotency, nextSequence)'
  BY <1>1, <1>2, <1>3, <1>10, <1>11
<1>13. threads' = AllIdle /\ writable' /\ writable
  BY <1>2, <1>10 DEF InvAt, PhaseOK
<1>14. ThreadsOK(m, Journal, past, writable, threads)'
  BY <1>13, IdleIsOK
<1>15. PhaseOK(m, Journal, past)'
  <2>1. m = Len(Journal') /\ m + 1 # Len(Journal')
    BY <1>1, <1>3, <1>6
  <2> QED BY <1>10, <2>1 DEF PhaseOK
<1>16. SeenOK(m, past)'
  <2>1. PICK k \in 1..Len(past) : seen = past[k]
    BY DEF InvAt, SeenOK
  <2>2. k <= m + 1
    BY <1>5, <1>6, <2>1
  <2> QED BY <1>2, <1>10, <2>1, <2>2 DEF SeenOK
<1>17. /\ Sound(file') /\ Recorded(Journal, past)' /\ (writable' => ~IsTorn(file'))
       /\ startError' \in {Ok, "StoreFailure"}
  BY <1>2, <1>3, <1>10 DEF InvAt
<1>18. InvAt(m)'
  BY <1>12, <1>14, <1>15, <1>16, <1>17 DEF InvAt
<1>19. Len(Journal') = m
  BY <1>1, <1>3, <1>6
<1> QED BY <1>2, <1>3, <1>18, <1>19

-----------------------------------------------------------------------------
(* The inductive invariant, and what every step does to the journal.       *)

LEMMA WorkKeeps ==
  ASSUME NEW n, InvAt(n), NEW t \in Threads, Execute(t)
  PROVE  (\E m : InvAt(m)') /\ LogStep(Journal, past, Journal', past')
<1>1. CASE Call(t) \/ Return(t) \/ AnswerAgain(t) \/ Refuse(t) \/ BeginAppend(t)
  <2>1. InvAt(n)'
    BY <1>1, CallKeeps, ReturnKeeps, AnswerAgainKeeps, RefuseKeeps, BeginAppendKeeps
  <2>2. file' = file /\ past' = past
    BY <1>1 DEF Call, CallWith, Return, AnswerAgain, Refuse, BeginAppend
  <2> QED BY <2>1, <2>2 DEF LogStep, Journal
<1>2. CASE AppendSucceeds(t)
  BY <1>2, AppendSucceedsKeeps
<1>3. CASE AppendFails(t)
  BY <1>3, AppendFailsKeeps
<1>4. CASE Publish(t)
  <2>1. file' = file /\ past' = past
    BY <1>4 DEF Publish
  <2> QED BY <1>4, <2>1, PublishKeeps DEF LogStep, Journal
<1> QED BY <1>1, <1>2, <1>3, <1>4 DEF Execute, Work

LEMMA StepKeeps ==
  ASSUME NEW n, InvAt(n), [Next]_vars
  PROVE  (\E m : InvAt(m)') /\ LogStep(Journal, past, Journal', past')
<1>1. CASE \E t \in Threads : Execute(t)
  BY <1>1, WorkKeeps
<1>2. CASE Read
  <2>1. file' = file /\ past' = past
    BY <1>2 DEF Read
  <2> QED BY <1>2, <2>1, ReadKeeps DEF LogStep, Journal
<1>3. CASE Crash
  BY <1>3, CrashKeeps
<1>4. CASE Create
  BY <1>4, CreateKeeps DEF LogStep
<1>5. CASE ReplayBatch
  BY <1>5, ReplayKeeps DEF LogStep
<1>6. CASE FinishRecovery
  BY <1>6, FinishKeeps DEF LogStep
<1>7. CASE UNCHANGED vars
  <2>1. /\ file' = file /\ phase' = phase /\ startError' = startError
        /\ recovered' = recovered /\ writable' = writable
        /\ snapshot' = snapshot /\ idempotency' = idempotency
        /\ nextSequence' = nextSequence /\ threads' = threads
        /\ seen' = seen /\ past' = past
    BY <1>7 DEF vars, service
  <2>2. Journal' = Journal
    BY <2>1 DEF Journal
  <2>3. PhaseOK(n, Journal, past)' /\ SeenOK(n, past)'
    BY <2>1, <2>2 DEF InvAt, PhaseOK, SeenOK
  <2>4. InvAt(n)'
    BY <2>1, <2>2, <2>3 DEF InvAt
  <2> QED BY <2>1, <2>2, <2>4 DEF LogStep
<1> QED BY <1>1, <1>2, <1>3, <1>4, <1>5, <1>6, <1>7 DEF Next

LEMMA StartsEmpty ==
  ASSUME Init
  PROVE  InvAt(0)
<1>1. /\ file = <<>> /\ phase = "down" /\ startError = Ok
      /\ recovered = NothingRecovered
      /\ writable = FALSE /\ snapshot = InitialState
      /\ idempotency = EmptyMap /\ nextSequence = 1
      /\ threads = AllIdle /\ seen = InitialState /\ past = <<InitialState>>
  BY DEF Init, FreshProcess
<1>2. IsSeq(file) /\ Len(file) = 0
  <2>1. file \in Seq({})
    BY <1>1
  <2> QED BY <1>1, <2>1 DEF IsSeq
<1>3. Sound(file) /\ ~IsTorn(file)
  <2>1. \A i \in 1..Len(file) : file[i].complete
    BY <1>2
  <2> QED BY <1>2, <2>1, WholeIsSound
<1>4. PICK J, states : J = Journal /\ states = past
  OBVIOUS
<1>5. IsSeq(J) /\ Len(J) = 0
  BY <1>2, <1>3, <1>4, BatchesOfWhole DEF Journal
<1>6. IsSeq(states) /\ Len(states) = 1 /\ states[1] = InitialState
  <2>1. states \in Seq({InitialState})
    BY <1>1, <1>4
  <2>2. IsSeq(states)
    BY <2>1 DEF IsSeq
  <2>3. Len(states) = 1 /\ states[1] = InitialState
    BY <1>1, <1>4
  <2> QED BY <2>2, <2>3
<1>7. BooksInv(InitialState) /\ Follows(InitialState, InitialState)
  BY EmptyBooks, FollowsItself
<1>8. Recorded(J, states)
  <2>1. \A i \in 1..Len(states) : states[i] = InitialState
    BY <1>6
  <2>2. /\ \A i \in 1..Len(states) : BooksInv(states[i])
        /\ \A i, j \in 1..Len(states) : i <= j => Follows(states[j], states[i])
    BY <1>7, <2>1
  <2>3. Len(states) = Len(J) + 1 /\ Len(J) <= MaxSequence
    BY <1>5, <1>6, SequenceWidth
  <2>4. \A i \in 1..Len(J) : FALSE
    BY <1>5
  <2> QED BY <1>5, <1>6, <2>2, <2>3, <2>4 DEF Recorded, Distinct
<1>9. ServesAt(0, J, states, InitialState, EmptyMap, 1)
  BY <1>8, ServesNone
<1>10. ThreadsOK(0, J, states, writable, threads)
  BY <1>1, IdleIsOK
<1>11. PhaseOK(0, J, states)
  BY <1>1 DEF PhaseOK
<1>12. SeenOK(0, states)
  <2>1. 1 \in 1..Len(states) /\ seen = states[1]
    BY <1>1, <1>6
  <2> QED BY <1>1, <2>1 DEF SeenOK
<1>13. Sound(file) /\ (writable => ~IsTorn(file)) /\ startError \in {Ok, "StoreFailure"}
  BY <1>1, <1>3
<1>14. Recorded(Journal, past) /\ ThreadsOK(0, Journal, past, writable, threads)
  BY <1>4, <1>8, <1>10
<1>15. ServesAt(0, Journal, past, snapshot, idempotency, nextSequence)
  BY <1>1, <1>4, <1>9
<1>16. PhaseOK(0, Journal, past) /\ SeenOK(0, past)
  BY <1>4, <1>11, <1>12
<1> QED BY <1>13, <1>14, <1>15, <1>16 DEF InvAt

(* Whatever threads, failures and crashes do: the published state is that  *)
(* of a known prefix of a journal whose batches lead from state to state.  *)
THEOREM ServiceInvariant == Spec => []Inv
<1>1. Init => Inv
  BY StartsEmpty DEF Inv
<1>2. Inv /\ [Next]_vars => Inv'
  BY StepKeeps DEF Inv
<1> QED BY <1>1, <1>2, PTL DEF Spec

(* The identifiers in its own journal are those that clients sent.         *)
OwnIds(J) == \A i \in 1..Len(J) : \E e \in Envelopes : J[i].commandId = e.commandId

LEMMA OwnIdsKeep ==
  ASSUME NEW J, NEW states, Recorded(J, states), NEW K, NEW more,
         LogStep(J, states, K, more), OwnIds(J)
  PROVE  OwnIds(K)
<1>1. CASE K = J
  BY <1>1
<1>2. CASE \E batch, after : /\ Ready(J, states, batch, after)
                             /\ K = Append(J, batch) /\ more = Append(states, after)
  <2>1. PICK batch, after : /\ Ready(J, states, batch, after)
                            /\ K = Append(J, batch) /\ more = Append(states, after)
    BY <1>2
  <2>2. Grown(K, J, batch) /\ Len(J) \in Nat
    BY <2>1, NextIsRecorded, SeqFacts DEF Recorded
  <2>3. PICK e \in Envelopes : batch.commandId = e.commandId
    <3>1. Executed(batch, Len(J) + 1, states[Len(J) + 1], after)
      BY <2>1 DEF Ready
    <3> QED BY <3>1, BatchFields
  <2> QED BY <2>2, <2>3 DEF Grown, OwnIds
<1> QED BY <1>1, <1>2 DEF LogStep

LEMMA OwnIdentifiers == Spec => [](Inv /\ OwnIds(Journal))
<1>1. Init => Inv /\ OwnIds(Journal)
  <2>1. ASSUME Init PROVE OwnIds(Journal)
    <3>1. file = <<>>
      BY <2>1 DEF Init
    <3>2. PICK J : J = Journal
      OBVIOUS
    <3>3. DOMAIN file = {}
      BY <3>1
    <3>4. Readable(file) = {}
      BY <3>3 DEF Readable
    <3>5. DOMAIN J = {}
      BY <3>2, <3>4 DEF Journal, BatchesOf
    <3> QED BY <3>2, <3>5, SeqFacts DEF OwnIds
  <2> QED BY <2>1, StartsEmpty DEF Inv
<1>2. Inv /\ OwnIds(Journal) /\ [Next]_vars => (Inv /\ OwnIds(Journal))'
  <2>1. ASSUME NEW n, InvAt(n), OwnIds(Journal), [Next]_vars
        PROVE  Inv' /\ OwnIds(Journal)'
    <3>1. PICK J, states, K, more :
            J = Journal /\ states = past /\ K = Journal' /\ more = past'
      OBVIOUS
    <3>2. Recorded(J, states) /\ OwnIds(J)
      BY <2>1, <3>1 DEF InvAt
    <3>3. Inv' /\ LogStep(J, states, K, more)
      BY <2>1, <3>1, StepKeeps DEF Inv
    <3>4. OwnIds(K)
      BY <3>2, <3>3, OwnIdsKeep
    <3> QED BY <3>1, <3>3, <3>4
  <2> QED BY <2>1 DEF Inv
<1> QED BY <1>1, <1>2, PTL DEF Spec

-----------------------------------------------------------------------------
(* The theorems.                                                           *)

(* The variables of the service keep their types, and what is volatile is  *)
(* as in a fresh process whenever nothing is served.                       *)
THEOREM ServiceTypes == Spec => []TypeOK
<1>1. ASSUME NEW n, InvAt(n), OwnIds(Journal) PROVE TypeOK
  <2>1. PICK J : J = Journal
    OBVIOUS
  <2>2. Recorded(J, past) /\ ServesAt(n, J, past, snapshot, idempotency, nextSequence)
    BY <1>1, <2>1 DEF InvAt
  <2>3. IsSeq(J) /\ Len(J) \in Nat /\ Len(past) = Len(J) + 1 /\ Len(J) <= MaxSequence
    BY <2>2, SeqFacts DEF Recorded
  <2>4. \A i \in 1..Len(past) : StateOK(past[i])
    BY <2>2, Meaning DEF Recorded, BooksInv
  <2>5. StateOK(InitialState)
    BY EmptyBooks, Meaning DEF BooksInv
  <2>6. StateOK(snapshot)
    <3>1. n + 1 \in 1..Len(past) /\ snapshot = past[n + 1]
      BY <2>2, <2>3 DEF ServesAt
    <3> QED BY <2>4, <3>1
  <2>7. StateOK(seen)
    BY <1>1, <2>4 DEF InvAt, SeenOK
  <2>8. StateOK(recovered.state) /\ recovered.position \in 0..Len(recovered.batches)
    <3>1. CASE phase = "recovering"
      <4>1. Replaying(recovered, J, past)
        BY <1>1, <2>1, <3>1 DEF InvAt, PhaseOK
      <4>2. recovered.batches = J /\ recovered.state = past[recovered.position + 1]
        BY <4>1 DEF Replaying
      <4>3. recovered.position \in 0..Len(J)
        BY <4>1 DEF Replaying
      <4>4. recovered.position + 1 \in 1..Len(past)
        BY <2>3, <4>3
      <4> QED BY <2>4, <4>2, <4>3, <4>4
    <3>2. CASE phase # "recovering"
      <4>1. recovered = NothingRecovered
        BY <1>1, <3>2 DEF InvAt, PhaseOK
      <4>2. recovered.state = InitialState /\ recovered.position = 0
            /\ recovered.batches = <<>>
        BY <4>1 DEF NothingRecovered
      <4> QED BY <2>5, <4>2
    <3> QED BY <3>1, <3>2
  <2>9. nextSequence \in 1..MaxSequence \cup {Exhausted}
    <3>1. n \in 0..MaxSequence
      BY <2>2, <2>3, SequenceWidth DEF ServesAt
    <3> QED BY <2>2, <3>1, NumberedNext DEF ServesAt
  <2>10. DOMAIN idempotency \subseteq {e.commandId : e \in Envelopes}
    <3>1. SUFFICES ASSUME NEW id \in DOMAIN idempotency
                   PROVE  \E e \in Envelopes : id = e.commandId
      OBVIOUS
    <3>2. PICK i \in 1..Len(J) : J[i].commandId = id
      BY <1>1, <2>1, KnownIsJournaled
    <3> QED BY <1>1, <2>1, <3>2 DEF OwnIds
  <2>11. DOMAIN threads = Threads
    BY <1>1 DEF InvAt, ThreadsOK
  <2>12. phase # "serving" => threads = AllIdle /\ snapshot = InitialState
    <3>1. phase # "serving" => threads = AllIdle /\ n = 0
      BY <1>1 DEF InvAt, PhaseOK
    <3>2. n = 0 => snapshot = past[1]
      BY <2>2 DEF ServesAt
    <3>3. past[1] = InitialState
      BY <2>2 DEF Recorded
    <3> QED BY <3>1, <3>2, <3>3
  <2>13. /\ phase \in {"down", "recovering", "serving"}
         /\ phase = "down" => ~writable /\ recovered = NothingRecovered
    BY <1>1 DEF InvAt, PhaseOK
  <2> QED BY <2>1, <2>3, <2>6, <2>7, <2>8, <2>9, <2>10, <2>11, <2>12, <2>13 DEF TypeOK
<1>2. Inv /\ OwnIds(Journal) => TypeOK
  BY <1>1 DEF Inv
<1> QED BY <1>2, OwnIdentifiers, PTL

LEMMA InvOnce ==
  ASSUME NEW n, InvAt(n)
  PROVE  CommandsAreJournaledOnce
<1>1. PICK J : J = Journal
  OBVIOUS
<1>2. Recorded(J, past)
  BY <1>1 DEF InvAt
<1>3. DOMAIN J = 1..Len(J)
  BY <1>2, SeqFacts DEF Recorded
<1>4. ASSUME NEW i \in DOMAIN J PROVE J[i].sequence = i
  <2>1. Replays(J[i], i, past[i], past[i + 1])
    BY <1>2, <1>3 DEF Recorded
  <2> QED BY <2>1 DEF Replays
<1>5. \A i, j \in DOMAIN J : J[i].commandId = J[j].commandId => i = j
  BY <1>2, <1>3 DEF Recorded, Distinct
<1> QED BY <1>1, <1>4, <1>5 DEF CommandsAreJournaledOnce

(* No command is journaled twice, however often it is retried and however  *)
(* many appends fail or processes die: the i-th batch has sequence i, and  *)
(* the command identifiers of the journal are all different.               *)
THEOREM NothingIsJournaledTwice == Spec => []CommandsAreJournaledOnce
<1>1. Inv => CommandsAreJournaledOnce
  BY InvOnce DEF Inv
<1> QED BY <1>1, ServiceInvariant, PTL

LEMMA InvJournals ==
  ASSUME NEW n, InvAt(n)
  PROVE  AcceptedIsJournaled
<1>1. DOMAIN Journal = 1..Len(Journal)
  BY SeqFacts DEF InvAt, Recorded
<1>2. SUFFICES ASSUME NEW t \in Threads, threads[t].pc = "answered", threads[t].code = Ok
               PROVE  \E i \in DOMAIN Journal :
                        /\ Journal[i].request = threads[t].request
                        /\ Journal[i].result = threads[t].receipt.result
  BY DEF AcceptedIsJournaled
<1>3. ThreadOK(threads[t], n, Journal, past, writable)
  BY DEF InvAt, ThreadsOK
<1> QED BY <1>1, <1>2, <1>3 DEF ThreadOK

(* A success that a client hears of is durable: the journal has its        *)
(* request and its result.                                                 *)
THEOREM SuccessIsDurable == Spec => []AcceptedIsJournaled
<1>1. Inv => AcceptedIsJournaled
  BY InvJournals DEF Inv
<1> QED BY <1>1, ServiceInvariant, PTL

LEMMA InvPublishes ==
  ASSUME NEW n, InvAt(n)
  PROVE  PublishedIsCommitted
<1>1. SUFFICES ASSUME phase = "serving" PROVE PublishedIsCommitted
  BY DEF PublishedIsCommitted
<1>2. PICK J : J = Journal
  OBVIOUS
<1>3. Recorded(J, past) /\ ServesAt(n, J, past, snapshot, idempotency, nextSequence)
  BY <1>2 DEF InvAt
<1>4. n \in 0..Len(J) /\ Len(J) \in Nat
  BY <1>3, SeqFacts DEF ServesAt, Recorded
<1>5. SequenceAfter(SubSeq(J, 1, n)) = nextSequence
  BY <1>3, <1>4, SequenceOfFirst DEF ServesAt
<1>6. snapshot = past[n + 1] /\ idempotency = IndexOf(SubSeq(J, 1, n))
  BY <1>3 DEF ServesAt
<1>7. /\ n = Len(J) \/ n + 1 = Len(J)
      /\ n + 1 = Len(J) => ~writable \/ \E t \in Threads : threads[t].pc = "publishing"
  BY <1>1, <1>2 DEF InvAt, PhaseOK
<1>8. /\ n >= Len(J) - 1
      /\ n < Len(J) => \/ \E t \in Threads : threads[t].pc = "publishing"
                       \/ ~writable
  BY <1>4, <1>7
<1> QED BY <1>1, <1>2, <1>4, <1>5, <1>6, <1>8 DEF PublishedIsCommitted

(* What is published is what is committed, but for the one batch a thread  *)
(* is about to publish or that a failed append left on the disk.           *)
THEOREM PublicationFollowsCommit == Spec => []PublishedIsCommitted
<1>1. Inv => PublishedIsCommitted
  BY InvPublishes DEF Inv
<1> QED BY <1>1, ServiceInvariant, PTL

(* A service always recovers a journal it wrote itself, unless the store   *)
(* cannot be read or cut.                                                  *)
THEOREM RecoveryNeverRefuses == Spec => []OwnJournalRecovers
<1>1. Inv => OwnJournalRecovers
  BY DEF Inv, InvAt, OwnJournalRecovers
<1> QED BY <1>1, ServiceInvariant, PTL

(* Replay goes through the very states that execution went through.        *)
THEOREM ReplayIsExecution == Spec => []ReplayReproduces
<1>1. Inv => ReplayReproduces
  BY DEF Inv, InvAt, PhaseOK, Replaying, ReplayReproduces
<1> QED BY <1>1, ServiceInvariant, PTL

(* The whole frames of f are in r, where they were.                        *)
KeepsWhole(f, r) ==
  \A i \in DOMAIN f : f[i].complete => i \in DOMAIN r /\ r[i] = f[i]

(* Only an append and a start change the file.                             *)
LEMMA FileMoves ==
  ASSUME [Next]_vars
  PROVE  \/ file' = file
         \/ \E x : file' = Append(file, x)
         \/ file' = TruncateTail(file)
<1>1. ASSUME NEW t \in Threads, LeaveBehind(t)
      PROVE  file' = file \/ \E x : file' = Append(file, x)
  BY <1>1 DEF LeaveBehind, Leftovers
<1>2. ASSUME NEW t \in Threads, Execute(t)
      PROVE  file' = file \/ \E x : file' = Append(file, x)
  BY <1>1, <1>2 DEF Execute, Work, Call, CallWith, Return, AnswerAgain, Refuse,
                    BeginAppend, AppendSucceeds, AppendFails, Publish
<1>3. Create => file' = file \/ file' = TruncateTail(file)
  BY DEF Create
<1>4. Crash => file' = file \/ \E x : file' = Append(file, x)
  BY <1>1 DEF Crash
<1>5. Read \/ ReplayBatch \/ FinishRecovery \/ UNCHANGED vars => file' = file
  BY DEF Read, ReplayBatch, FinishRecovery, vars
<1> QED BY <1>2, <1>3, <1>4, <1>5 DEF Next

LEMMA AppendKeepsWhole ==
  ASSUME NEW f, IsSeq(f), NEW x, NEW r, r = Append(f, x)
  PROVE  KeepsWhole(f, r)
<1>1. Grown(r, f, x)
  BY Appended
<1>2. Len(f) \in Nat /\ DOMAIN f = 1..Len(f) /\ DOMAIN r = 1..Len(r)
  BY <1>1, SeqFacts DEF Grown
<1> QED BY <1>1, <1>2 DEF Grown, KeepsWhole

(* As long as what a start cuts off was whole nowhere, no step loses a     *)
(* whole frame.                                                            *)
LEMMA StepKeepsWhole ==
  ASSUME [Next]_vars, IsSeq(file), KeepsWhole(file, TruncateTail(file))
  PROVE  KeepsWhole(file, file')
<1>1. CASE file' = file
  BY <1>1 DEF KeepsWhole
<1>2. CASE \E x : file' = Append(file, x)
  <2>1. PICK x, r : r = file' /\ r = Append(file, x)
    BY <1>2
  <2> QED BY <2>1, AppendKeepsWhole
<1>3. CASE file' = TruncateTail(file)
  BY <1>3
<1> QED BY <1>1, <1>2, <1>3, FileMoves

LEMMA InvKeepsWhole ==
  ASSUME NEW n, InvAt(n), [Next]_vars
  PROVE  KeepsWhole(file, file')
<1>1. Sound(file) /\ IsSeq(file)
  BY DEF InvAt, Sound
<1>2. PICK t : t = TruncateTail(file)
  OBVIOUS
<1>3. KeepsWhole(file, t)
  BY <1>1, <1>2, TailIsCut DEF KeepsWhole
<1> QED BY <1>1, <1>2, <1>3, StepKeepsWhole

(* No whole frame is ever changed or removed: what recovery cuts off is    *)
(* nothing that an append completed.                                       *)
THEOREM JournalIsAppendOnly == Spec => JournalOnlyGrows
<1>1. Inv /\ [Next]_vars => [KeepsWhole(file, file')]_file
  BY InvKeepsWhole DEF Inv
<1> QED BY <1>1, ServiceInvariant, PTL DEF Spec, JournalOnlyGrows, KeepsWhole

LEMMA InvReads ==
  ASSUME NEW n, InvAt(n), [Next]_vars, seen' # seen
  PROVE  Follows(seen', seen)
<1>1. phase = "serving" /\ seen' = snapshot
  BY DEF Next, vars, Read, Execute, Work, Call, CallWith, Return,
              AnswerAgain, Refuse, BeginAppend, AppendSucceeds, AppendFails,
              Publish, Crash, Create, ReplayBatch, FinishRecovery, Stop
<1>2. PICK m \in 1..Len(past) : seen = past[m] /\ m <= n + 1
  BY <1>1 DEF InvAt, SeenOK
<1>3. PICK J : J = Journal
  OBVIOUS
<1>4. Recorded(J, past) /\ ServesAt(n, J, past, snapshot, idempotency, nextSequence)
  BY <1>3 DEF InvAt
<1>5. n + 1 \in 1..Len(past) /\ snapshot = past[n + 1]
  <2>1. Len(J) \in Nat /\ Len(past) = Len(J) + 1
    BY <1>4, SeqFacts DEF Recorded
  <2> QED BY <1>4, <2>1 DEF ServesAt
<1>6. Follows(past[n + 1], past[m])
  BY <1>2, <1>4, <1>5 DEF Recorded
<1> QED BY <1>1, <1>2, <1>5, <1>6

(* No reader ever sees the state go back, not even over a restart.         *)
THEOREM ReadersMoveForward == Spec => ReadsMoveForward
<1>1. Inv /\ [Next]_vars =>
        [/\ seen'.version >= seen.version
         /\ seen'.version = seen.version => seen' = seen
         /\ IsPrefix(seen.ledgerEntries, seen'.ledgerEntries)]_seen
  BY InvReads DEF Inv, Follows
<1> QED BY <1>1, ServiceInvariant, PTL DEF Spec, ReadsMoveForward

-----------------------------------------------------------------------------
(* The journal implements the domain: proof of ImplementsDomain, the       *)
(* refinement of Backbook whose state is the state of the whole journal.   *)
(*                                                                         *)
(* Ledgered is a second instance of the domain's modules.  Their operators *)
(* do not mention the variable that the instance replaces, so each is the  *)
(* operator of the same name; the first part says so from the bottom up.   *)
(* The second part takes the steps of the service one by one.              *)

(* The two instances are one: trades and limits.                           *)

LEMMA SameTrades ==
  /\ \A trade, action : Ledgered!ApplyError(trade, action) = ApplyError(trade, action)
  /\ \A trade, action : Ledgered!Apply(trade, action) = Apply(trade, action)
  /\ \A trade : Ledgered!AmendmentError(trade) = AmendmentError(trade)
  /\ \A trade : Ledgered!Superseded(trade) = Superseded(trade)
  /\ \A trade, terms : Ledgered!Replacement(trade, terms) = Replacement(trade, terms)
  /\ \A id, path, terms : Ledgered!Capture(id, path, terms) = Capture(id, path, terms)
BY DEF Ledgered!ApplyError, ApplyError, Ledgered!Apply, Apply,
       Ledgered!AmendmentError, AmendmentError, Ledgered!Superseded, Superseded,
       Ledgered!Replacement, Replacement, Ledgered!Capture, Capture,
       Ledgered!Transition, Transition, Ledgered!Illegal, Illegal,
       Ledgered!NoVersion, NoVersion, Ledgered!Fail, Fail, Ledgered!Ok, Ok,
       Ledgered!??, ??

LEMMA SameMaps ==
  /\ \A map, key, value : Ledgered!Put(map, key, value) = Put(map, key, value)
  /\ \A map, key, value : Ledgered!Emplace(map, key, value) = Emplace(map, key, value)
BY DEF Ledgered!Put, Put, Ledgered!Emplace, Emplace

LEMMA SamePaths ==
  /\ \A path, money : Ledgered!PathKeys(path, money) = PathKeys(path, money)
  /\ \A path, money, level :
       Ledgered!PathKey(path, money, level) = PathKey(path, money, level)
  /\ Ledgered!LimitKeys = LimitKeys
BY DEF Ledgered!PathKeys, PathKeys, Ledgered!PathKey, PathKey,
       Ledgered!Nodes, Nodes, Ledgered!LimitKeys, LimitKeys

LEMMA SameReservations ==
  /\ \A reserved, path, money :
       Ledgered!Reserve(reserved, path, money) = Reserve(reserved, path, money)
  /\ \A reserved, path, money :
       Ledgered!Release(reserved, path, money) = Release(reserved, path, money)
BY SamePaths DEF Ledgered!Reserve, Reserve, Ledgered!Release, Release

LEMMA SameHeadroom ==
  /\ \A reserved, path, money :
       Ledgered!ReserveError(reserved, path, money) = ReserveError(reserved, path, money)
  /\ \A reserved, path, money :
       Ledgered!ReleaseError(reserved, path, money) = ReleaseError(reserved, path, money)
BY DEF Ledgered!ReserveError, ReserveError, Ledgered!ReleaseError, ReleaseError,
       Ledgered!PathError, PathError, Ledgered!PathKey, PathKey,
       Ledgered!Nodes, Nodes, Ledgered!LimitKeys, LimitKeys, Ledgered!Min, Min,
       Ledgered!Fail, Fail, Ledgered!Ok, Ok, Ledgered!??, ??

-----------------------------------------------------------------------------
(* The ledger.                                                             *)

LEMMA SamePostings ==
  /\ \A trade, ids : Ledgered!ConfirmationEntry(trade, ids) = ConfirmationEntry(trade, ids)
  /\ \A original, ids : Ledgered!ReversalEntry(original, ids) = ReversalEntry(original, ids)
  /\ \A entry : Ledgered!EntryIds(entry) = EntryIds(entry)
<1>1. \A trade, ids :
        Ledgered!ConfirmationEntry(trade, ids) = ConfirmationEntry(trade, ids)
  BY DEF Ledgered!ConfirmationEntry, ConfirmationEntry, Ledgered!Control, Control,
         Ledgered!Payable, Payable, Ledgered!Receivable, Receivable,
         Ledgered!ConfirmationSides, ConfirmationSides, Ledgered!Lines, Lines
<1>2. \A original, ids : Ledgered!ReversalEntry(original, ids) = ReversalEntry(original, ids)
  BY DEF Ledgered!ReversalEntry, ReversalEntry, Ledgered!Opposite, Opposite,
         Ledgered!Lines, Lines
<1>3. \A entry : Ledgered!EntryIds(entry) = EntryIds(entry)
  BY DEF Ledgered!EntryIds, EntryIds, Ledgered!Lines, Lines
<1> QED BY <1>1, <1>2, <1>3

LEMMA SameSums ==
  /\ \A entry, currency, n :
       Ledgered!RunningSum(entry, currency, n) = RunningSum(entry, currency, n)
  /\ \A start, entry : Ledgered!SumFits(start, entry) = SumFits(start, entry)
  /\ \A totals, entry : Ledgered!TotalsWith(totals, entry) = TotalsWith(totals, entry)
BY DEF Ledgered!RunningSum, RunningSum, Ledgered!SumFits, SumFits,
       Ledgered!TotalsWith, TotalsWith, Ledgered!Signed, Signed,
       Ledgered!Lines, Lines, Ledgered!MinorUnits, MinorUnits

LEMMA SamePolicy ==
  /\ \A entry : Ledgered!EntryError(entry) = EntryError(entry)
  /\ \A trade, ids :
       Ledgered!ConfirmationEntryError(trade, ids) = ConfirmationEntryError(trade, ids)
  /\ \A original, ids :
       Ledgered!ReversalEntryError(original, ids) = ReversalEntryError(original, ids)
<1>1. \A entry : Ledgered!EntryError(entry) = EntryError(entry)
  BY SameSums DEF Ledgered!EntryError, EntryError, Ledgered!ZeroTotals, ZeroTotals,
         Ledgered!Lines, Lines, Ledgered!Fail, Fail, Ledgered!Ok, Ok,
         Ledgered!??, ??
<1>2. \A entry : Ledgered!IsConfirmationShape(entry) = IsConfirmationShape(entry)
  BY DEF Ledgered!IsConfirmationShape, IsConfirmationShape,
         Ledgered!ConfirmationSides, ConfirmationSides, Ledgered!Lines, Lines
<1>3. \A trade, ids :
        Ledgered!ConfirmationEntryError(trade, ids) = ConfirmationEntryError(trade, ids)
  <2> TAKE trade, ids
  <2>1. PICK entry : entry = ConfirmationEntry(trade, ids)
    OBVIOUS
  <2>2. Ledgered!ConfirmationEntry(trade, ids) = entry
    BY <2>1, SamePostings
  <2>3. Ledgered!EntryError(entry) = EntryError(entry)
    BY <1>1
  <2> QED
    BY <2>1, <2>2, <2>3
    DEF Ledgered!ConfirmationEntryError, ConfirmationEntryError,
        Ledgered!Fail, Fail, Ledgered!Ok, Ok, Ledgered!??, ??
<1>4. \A original, ids :
        Ledgered!ReversalEntryError(original, ids) = ReversalEntryError(original, ids)
  <2> TAKE original, ids
  <2>1. PICK entry : entry = ReversalEntry(original, ids)
    OBVIOUS
  <2>2. Ledgered!ReversalEntry(original, ids) = entry
    BY <2>1, SamePostings
  <2>3. /\ Ledgered!EntryError(entry) = EntryError(entry)
        /\ Ledgered!IsConfirmationShape(original) = IsConfirmationShape(original)
    BY <1>1, <1>2
  <2> QED
    BY <2>1, <2>2, <2>3
    DEF Ledgered!ReversalEntryError, ReversalEntryError, Ledgered!Lines, Lines,
        Ledgered!Fail, Fail, Ledgered!Ok, Ok, Ledgered!??, ??
<1> QED BY <1>1, <1>3, <1>4

-----------------------------------------------------------------------------
(* Settlement.                                                             *)

LEMMA SameNets ==
  /\ \A trades, key : Ledgered!NetOf(trades, key) = NetOf(trades, key)
  /\ \A net : Ledgered!Magnitude(net) = Magnitude(net)
  /\ \A trades : Ledgered!KeysOf(trades) = KeysOf(trades)
<1>1. \A trade : Ledgered!Cashflows(trade) = Cashflows(trade)
  BY DEF Ledgered!Cashflows, Cashflows, Ledgered!Cashflow, Cashflow
<1>2. \A stack, amount : Ledgered!CancelAgainst(stack, amount) = CancelAgainst(stack, amount)
  BY DEF Ledgered!CancelAgainst, CancelAgainst, Ledgered!CancelTop, CancelTop,
         Ledgered!Last, Last, Ledgered!Front, Front
<1>3. \A net, flow : Ledgered!AddCashflow(net, flow) = AddCashflow(net, flow)
  BY <1>2, Zenon DEF Ledgered!AddCashflow, AddCashflow
<1>4. \A key, net, trade : Ledgered!AddTrade(key, net, trade) = AddTrade(key, net, trade)
  BY <1>1, <1>3, Zenon DEF Ledgered!AddTrade, AddTrade, Ledgered!AddTo, AddTo
<1>5. \A trades, key : Ledgered!NetOf(trades, key) = NetOf(trades, key)
  BY <1>4, Zenon DEF Ledgered!NetOf, NetOf, Ledgered!NoCashflow, NoCashflow
<1>6. \A net : Ledgered!Magnitude(net) = Magnitude(net)
  BY DEF Ledgered!Magnitude, Magnitude, Ledgered!SumFunction, SumFunction,
         Ledgered!SumFunctionOnSet, SumFunctionOnSet,
         Ledgered!FoldFunctionOnSet, FoldFunctionOnSet,
         Ledgered!MapThenFoldSet, MapThenFoldSet
<1>7. \A trades : Ledgered!KeysOf(trades) = KeysOf(trades)
  BY <1>1 DEF Ledgered!KeysOf, KeysOf
<1> QED BY <1>5, <1>6, <1>7

LEMMA SameSettlements ==
  /\ \A trades : Ledgered!SettlementError(trades) = SettlementError(trades)
  /\ \A trades : Ledgered!DeriveSettlements(trades) = DeriveSettlements(trades)
<1>1. \A trades : Ledgered!NonZeroKeys(trades) = NonZeroKeys(trades)
  BY SameNets DEF Ledgered!NonZeroKeys, NonZeroKeys, Ledgered!Directions, Directions
<1> QED
  BY <1>1, SameNets
  DEF Ledgered!SettlementError, SettlementError,
      Ledgered!DeriveSettlements, DeriveSettlements,
      Ledgered!Fail, Fail, Ledgered!Ok, Ok

-----------------------------------------------------------------------------
(* The domain's helpers.                                                   *)

LEMMA SameState ==
  /\ \A s : Ledgered!AdvanceVersionError(s) = AdvanceVersionError(s)
  /\ \A s : Ledgered!AdvanceVersion(s) = AdvanceVersion(s)
  /\ \A s, entry : Ledgered!AppendEntryError(s, entry) = AppendEntryError(s, entry)
  /\ \A s, entry : Ledgered!AppendEntry(s, entry) = AppendEntry(s, entry)
  /\ \A s, id : Ledgered!CurrentTrade(s, id) = CurrentTrade(s, id)
  /\ \A s, id, v :
       Ledgered!RequireCurrentError(s, id, v) = RequireCurrentError(s, id, v)
<1>1. \A s : Ledgered!AdvanceVersionError(s) = AdvanceVersionError(s)
  BY DEF Ledgered!AdvanceVersionError, AdvanceVersionError,
         Ledgered!Fail, Fail, Ledgered!Ok, Ok
<1>2. \A s : Ledgered!AdvanceVersion(s) = AdvanceVersion(s)
  BY DEF Ledgered!AdvanceVersion, AdvanceVersion
<1>3. \A s, entry : Ledgered!AppendEntryError(s, entry) = AppendEntryError(s, entry)
  <2> TAKE s, entry
  <2>1. /\ Ledgered!EntryIds(entry) = EntryIds(entry)
        /\ Ledgered!SumFits(s.ledgerTotals, entry) = SumFits(s.ledgerTotals, entry)
    BY SamePostings, SameSums
  <2> QED
    BY <2>1 DEF Ledgered!AppendEntryError, AppendEntryError,
                Ledgered!Fail, Fail, Ledgered!Ok, Ok, Ledgered!??, ??
<1>4. \A s, entry : Ledgered!AppendEntry(s, entry) = AppendEntry(s, entry)
  <2> TAKE s, entry
  <2>1. /\ Ledgered!EntryIds(entry) = EntryIds(entry)
        /\ Ledgered!TotalsWith(s.ledgerTotals, entry) = TotalsWith(s.ledgerTotals, entry)
    BY SamePostings, SameSums
  <2> QED BY <2>1 DEF Ledgered!AppendEntry, AppendEntry
<1>5. \A s, id : Ledgered!CurrentTrade(s, id) = CurrentTrade(s, id)
  BY DEF Ledgered!CurrentTrade, CurrentTrade
<1>6. \A s, id, v :
        Ledgered!RequireCurrentError(s, id, v) = RequireCurrentError(s, id, v)
  BY <1>5 DEF Ledgered!RequireCurrentError, RequireCurrentError,
              Ledgered!Fail, Fail, Ledgered!Ok, Ok, Ledgered!??, ??
<1> QED BY <1>1, <1>2, <1>3, <1>4, <1>5, <1>6

LEMMA SameFreed ==
  \A s, keys, limitKey : Ledgered!Freed(s, keys, limitKey) = Freed(s, keys, limitKey)
BY DEF Ledgered!Freed, Freed, Ledgered!Charges, Charges,
       Ledgered!PathKeys, PathKeys, Ledgered!PathKey, PathKey,
       Ledgered!Nodes, Nodes, Ledgered!SumFunction, SumFunction,
       Ledgered!SumFunctionOnSet, SumFunctionOnSet,
       Ledgered!FoldFunctionOnSet, FoldFunctionOnSet,
       Ledgered!MapThenFoldSet, MapThenFoldSet

LEMMA SameEod ==
  /\ \A s, asOf : Ledgered!Eligible(s, asOf) = Eligible(s, asOf)
  /\ \A s, keys : Ledgered!ReleaseAllError(s, keys) = ReleaseAllError(s, keys)
  /\ \A s, keys : Ledgered!ReleaseAll(s, keys) = ReleaseAll(s, keys)
  /\ \A s, keys : Ledgered!SettleAll(s, keys) = SettleAll(s, keys)
  /\ \A trades : Ledgered!SettledTrades(trades) = SettledTrades(trades)
<1>1. \A s, asOf : Ledgered!Eligible(s, asOf) = Eligible(s, asOf)
  BY DEF Ledgered!Eligible, Eligible
<1>2. \A s, keys : Ledgered!ReleaseAllError(s, keys) = ReleaseAllError(s, keys)
  BY SamePaths, SameFreed
  DEF Ledgered!ReleaseAllError, ReleaseAllError,
      Ledgered!Fail, Fail, Ledgered!Ok, Ok, Ledgered!??, ??
<1>3. \A s, keys : Ledgered!ReleaseAll(s, keys) = ReleaseAll(s, keys)
  BY SamePaths, SameFreed DEF Ledgered!ReleaseAll, ReleaseAll
<1>4. \A s, keys : Ledgered!SettleAll(s, keys) = SettleAll(s, keys)
  BY SameTrades DEF Ledgered!SettleAll, SettleAll
<1>5. \A trades : Ledgered!SettledTrades(trades) = SettledTrades(trades)
  <2>1. \A S : Ledgered!SetToSeq(S) = SetToSeq(S)
    BY DEF Ledgered!SetToSeq, SetToSeq, Ledgered!IsInjective, IsInjective,
           Ledgered!Cardinality, Cardinality
  <2> QED BY <2>1 DEF Ledgered!SettledTrades, SettledTrades
<1> QED BY <1>1, <1>2, <1>3, <1>4, <1>5

-----------------------------------------------------------------------------
(* The operations.                                                         *)

LEMMA SameBooking ==
  /\ \A s, c : Ledgered!BookTradeError(s, c) = BookTradeError(s, c)
  /\ \A s, c : Ledgered!BookTradeResult(s, c) = BookTradeResult(s, c)
BY SameState, SameMaps, SameTrades
DEF Ledgered!BookTradeError, BookTradeError, Ledgered!BookTradeResult, BookTradeResult,
    Ledgered!Fail, Fail, Ledgered!Ok, Ok, Ledgered!??, ??

LEMMA SameConfirmation ==
  /\ \A s, c : Ledgered!ConfirmTradeError(s, c) = ConfirmTradeError(s, c)
  /\ \A s, c : Ledgered!ConfirmTradeResult(s, c) = ConfirmTradeResult(s, c)
<1>1. \A s, c : Ledgered!ConfirmTradeError(s, c) = ConfirmTradeError(s, c)
  BY SameState, SameTrades, SameHeadroom, SamePolicy, SamePostings
  DEF Ledgered!ConfirmTradeError, ConfirmTradeError, Ledgered!Ok, Ok, Ledgered!??, ??
<1>2. \A s, c : Ledgered!ConfirmTradeResult(s, c) = ConfirmTradeResult(s, c)
  BY SameState, SameTrades, SameReservations, SameMaps, SamePostings
  DEF Ledgered!ConfirmTradeResult, ConfirmTradeResult
<1> QED BY <1>1, <1>2

LEMMA SameAmendment ==
  /\ \A s, c : Ledgered!AmendTradeError(s, c) = AmendTradeError(s, c)
  /\ \A s, c : Ledgered!AmendTradeResult(s, c) = AmendTradeResult(s, c)
<1>1. ASSUME NEW s, NEW c
      PROVE  Ledgered!AmendTradeError(s, c) = AmendTradeError(s, c)
  <2>1. PICK current, original : /\ current = CurrentTrade(s, c.tradeId)
                                 /\ original = s.ledgerEntries[s.confirmationEntries[
                                                 <<c.tradeId, c.expectedVersion>>]]
    OBVIOUS
  <2>2. PICK replacement, released, reversal :
          /\ replacement = Replacement(current, c.terms)
          /\ released = Release(s.limits, current.path, current.terms.pay)
          /\ reversal = ReversalEntry(original, c.reversalIds)
    OBVIOUS
  <2>3. PICK confirmation, appended :
          /\ confirmation = ConfirmationEntry(replacement, c.postingIds)
          /\ appended = AppendEntry(s, reversal)
    OBVIOUS
  <2>4. /\ Ledgered!CurrentTrade(s, c.tradeId) = current
        /\ Ledgered!Replacement(current, c.terms) = replacement
        /\ Ledgered!Release(s.limits, current.path, current.terms.pay) = released
        /\ Ledgered!ReversalEntry(original, c.reversalIds) = reversal
        /\ Ledgered!ConfirmationEntry(replacement, c.postingIds) = confirmation
        /\ Ledgered!AppendEntry(s, reversal) = appended
    BY <2>1, <2>2, <2>3, SameState, SameTrades, SameReservations, SamePostings
  <2>5. /\ Ledgered!RequireCurrentError(s, c.tradeId, c.expectedVersion)
             = RequireCurrentError(s, c.tradeId, c.expectedVersion)
        /\ Ledgered!AppendEntryError(s, reversal) = AppendEntryError(s, reversal)
        /\ Ledgered!AppendEntryError(appended, confirmation)
             = AppendEntryError(appended, confirmation)
        /\ Ledgered!AdvanceVersionError(s) = AdvanceVersionError(s)
    BY SameState
  <2>6. /\ Ledgered!ReleaseError(s.limits, current.path, current.terms.pay)
             = ReleaseError(s.limits, current.path, current.terms.pay)
        /\ Ledgered!AmendmentError(current) = AmendmentError(current)
        /\ Ledgered!ReserveError(released, replacement.path, replacement.terms.pay)
             = ReserveError(released, replacement.path, replacement.terms.pay)
    BY SameHeadroom, SameTrades
  <2>7. /\ Ledgered!ReversalEntryError(original, c.reversalIds)
             = ReversalEntryError(original, c.reversalIds)
        /\ Ledgered!ConfirmationEntryError(replacement, c.postingIds)
             = ConfirmationEntryError(replacement, c.postingIds)
    BY SamePolicy
  <2>8. PICK e1, e2, e3, e4, e5 :
          /\ e1 = RequireCurrentError(s, c.tradeId, c.expectedVersion)
          /\ e2 = Fail(current.state # "Confirmed", Illegal)
          /\ e3 = Fail(<<c.tradeId, c.expectedVersion>>
                         \notin DOMAIN s.confirmationEntries,
                       "MissingConfirmationEntry")
          /\ e4 = ReleaseError(s.limits, current.path, current.terms.pay)
          /\ e5 = AmendmentError(current)
    OBVIOUS
  <2>9. PICK e6, e7, e8, e9, e10, e11 :
          /\ e6 = ReserveError(released, replacement.path, replacement.terms.pay)
          /\ e7 = ReversalEntryError(original, c.reversalIds)
          /\ e8 = ConfirmationEntryError(replacement, c.postingIds)
          /\ e9 = AppendEntryError(s, reversal)
          /\ e10 = AppendEntryError(appended, confirmation)
          /\ e11 = AdvanceVersionError(s)
    OBVIOUS
  <2>10. AmendTradeError(s, c)
           = e1 ?? e2 ?? e3 ?? e4 ?? e5 ?? e6 ?? e7 ?? e8 ?? e9 ?? e10 ?? e11
    BY <2>1, <2>2, <2>3, <2>8, <2>9 DEF AmendTradeError
  <2>11. /\ Ledgered!Fail(current.state # "Confirmed", Ledgered!Illegal) = e2
         /\ Ledgered!Fail(<<c.tradeId, c.expectedVersion>>
                            \notin DOMAIN s.confirmationEntries,
                          "MissingConfirmationEntry") = e3
    BY <2>8 DEF Ledgered!Fail, Fail, Ledgered!Ok, Ok, Ledgered!Illegal, Illegal
  <2>12. \A a, b : Ledgered!??(a, b) = (a ?? b)
    BY DEF Ledgered!??, ??, Ledgered!Ok, Ok
  <2>13. Ledgered!AmendTradeError(s, c)
           = e1 ?? e2 ?? e3 ?? e4 ?? e5 ?? e6 ?? e7 ?? e8 ?? e9 ?? e10 ?? e11
    BY <2>1, <2>4, <2>5, <2>6, <2>7, <2>8, <2>9, <2>11, <2>12
    DEF Ledgered!AmendTradeError
  <2> QED BY <2>10, <2>13
<1>2. ASSUME NEW s, NEW c
      PROVE  Ledgered!AmendTradeResult(s, c) = AmendTradeResult(s, c)
  <2>1. PICK current, original :
          /\ current = s.trades[<<c.tradeId, c.expectedVersion>>]
          /\ original = s.ledgerEntries[s.confirmationEntries[
                          <<c.tradeId, c.expectedVersion>>]]
    OBVIOUS
  <2>2. PICK replacement, reversal, released :
          /\ replacement = Replacement(current, c.terms)
          /\ reversal = ReversalEntry(original, c.reversalIds)
          /\ released = Release(s.limits, current.path, current.terms.pay)
    OBVIOUS
  <2>3. PICK confirmation : confirmation = ConfirmationEntry(replacement, c.postingIds)
    OBVIOUS
  <2>4. /\ Ledgered!Replacement(current, c.terms) = replacement
        /\ Ledgered!ReversalEntry(original, c.reversalIds) = reversal
        /\ Ledgered!Release(s.limits, current.path, current.terms.pay) = released
        /\ Ledgered!ConfirmationEntry(replacement, c.postingIds) = confirmation
    BY <2>1, <2>2, <2>3, SameTrades, SameReservations, SamePostings
  <2> QED
    BY <2>1, <2>2, <2>3, <2>4, SameState, SameTrades, SameReservations, SameMaps
    DEF Ledgered!AmendTradeResult, AmendTradeResult
<1> QED BY <1>1, <1>2

LEMMA SameCancellation ==
  /\ \A s, c : Ledgered!CancelTradeError(s, c) = CancelTradeError(s, c)
  /\ \A s, c : Ledgered!CancelTradeResult(s, c) = CancelTradeResult(s, c)
<1>1. \A s, c : Ledgered!CancelTradeError(s, c) = CancelTradeError(s, c)
  BY SameState, SameTrades, SameHeadroom, SamePolicy, SamePostings
  DEF Ledgered!CancelTradeError, CancelTradeError,
      Ledgered!NoReversalIds, NoReversalIds,
      Ledgered!Fail, Fail, Ledgered!Ok, Ok, Ledgered!??, ??
<1>2. \A s, c : Ledgered!CancelTradeResult(s, c) = CancelTradeResult(s, c)
  BY SameState, SameTrades, SameReservations, SameMaps, SamePostings
  DEF Ledgered!CancelTradeResult, CancelTradeResult
<1> QED BY <1>1, <1>2

LEMMA SameEndOfDay ==
  /\ \A s, c : Ledgered!RunEodError(s, c) = RunEodError(s, c)
  /\ \A s, c : Ledgered!RunEodResult(s, c) = RunEodResult(s, c)
<1>1. \A s, c : Ledgered!RunEodError(s, c) = RunEodError(s, c)
  BY SameState, SameTrades, SameEod, SameSettlements
  DEF Ledgered!RunEodError, RunEodError, Ledgered!Illegal, Illegal,
      Ledgered!Fail, Fail, Ledgered!Ok, Ok, Ledgered!??, ??
<1>2. \A s, c : Ledgered!RunEodResult(s, c) = RunEodResult(s, c)
  BY SameState, SameEod, SameSettlements DEF Ledgered!RunEodResult, RunEodResult
<1> QED BY <1>1, <1>2

-----------------------------------------------------------------------------
(* The steps.                                                              *)

LEMMA CommandParts ==
  ASSUME NEW c \in Commands
  PROVE  /\ c.kind # "EodRun" => c.tradeId \in TradeIds
         /\ c.kind \in {"TradeConfirmed", "TradeAmended", "TradeCancelled"} =>
              c.expectedVersion \in Versions
         /\ c.kind = "EodRun" => c.asOf \in Dates
BY DEF Commands

LEMMA TuplesAreNotEmpty == \A ids \in IdTuples : ids # NoReversalIds
<1> TAKE ids \in IdTuples
<1>1. DOMAIN ids = Lines /\ DOMAIN NoReversalIds = {} /\ 1 \in Lines
  BY DEF IdTuples, NoReversalIds, Lines
<1> QED BY <1>1

(* The error of an amendment depends on the fields of the command alone.   *)
LEMMA AmendReads ==
  ASSUME NEW s, NEW c, NEW x,
         x.tradeId = c.tradeId, x.expectedVersion = c.expectedVersion,
         x.terms = c.terms, x.reversalIds = c.reversalIds,
         x.postingIds = c.postingIds
  PROVE  AmendTradeError(s, x) = AmendTradeError(s, c)
<1>1. PICK id, v, terms, reversalIds, postingIds :
        /\ x.tradeId = id /\ x.expectedVersion = v /\ x.terms = terms
        /\ x.reversalIds = reversalIds /\ x.postingIds = postingIds
  OBVIOUS
<1>2. /\ c.tradeId = id /\ c.expectedVersion = v /\ c.terms = terms
      /\ c.reversalIds = reversalIds /\ c.postingIds = postingIds
  BY <1>1
<1> QED BY <1>1, <1>2, SMT DEF AmendTradeError

(* An accepted command of an envelope is a step of the domain.             *)
LEMMA AcceptedIsAStep ==
  ASSUME NEW e \in Envelopes, NEW s, NEW r,
         CommandError(s, e.command) = Ok, r = Prospective(s, e.command),
         s = Committed, r = Committed'
  PROVE  Ledgered!Next
<1>1. PICK c \in Commands : c = e.command
  BY EnvelopeCommand
<1>2. c.kind \in Kinds
  BY CommandShape
<1>3. CASE c.kind = "TradeBooked"
  <2>1. PICK x : x = [tradeId |-> c.tradeId, path |-> c.path, terms |-> c.terms]
    OBVIOUS
  <2>2. e \in Sent("TradeBooked")
    BY <1>1, <1>3 DEF Sent
  <2>3. x \in Ledgered!BookTradeCommands
    BY <1>1, <1>3, <2>1, <2>2, CommandParts DEF Ledgered!BookTradeCommands
  <2>4. BookTradeError(s, x) = Ok /\ r = BookTradeResult(s, x)
    BY <1>1, <1>3, <2>1
    DEF CommandError, Prospective, BookTradeError, BookTradeResult
  <2>5. Ledgered!BookTrade
    BY <2>3, <2>4, SameBooking DEF Ledgered!BookTrade, Ledgered!Ok, Ok
  <2> QED BY <2>5 DEF Ledgered!Next
<1>4. CASE c.kind = "TradeConfirmed"
  <2>1. PICK x : x = [tradeId |-> c.tradeId, expectedVersion |-> c.expectedVersion,
                      postingIds |-> c.postingIds]
    OBVIOUS
  <2>2. e \in Sent("TradeConfirmed")
    BY <1>1, <1>4 DEF Sent
  <2>3. x \in Ledgered!ConfirmTradeCommands
    BY <1>1, <1>4, <2>1, <2>2, CommandParts
    DEF Ledgered!ConfirmTradeCommands, Ledgered!Versions, Versions
  <2>4. ConfirmTradeError(s, x) = Ok /\ r = ConfirmTradeResult(s, x)
    BY <1>1, <1>4, <2>1
    DEF CommandError, Prospective, ConfirmTradeError, ConfirmTradeResult
  <2>5. Ledgered!ConfirmTrade
    BY <2>3, <2>4, SameConfirmation DEF Ledgered!ConfirmTrade, Ledgered!Ok, Ok
  <2> QED BY <2>5 DEF Ledgered!Next
<1>5. CASE c.kind = "TradeAmended"
  <2>1. PICK x : x = [tradeId |-> c.tradeId, expectedVersion |-> c.expectedVersion,
                      terms |-> c.terms, reversalIds |-> c.reversalIds,
                      postingIds |-> c.postingIds]
    OBVIOUS
  <2>2. e \in Sent("TradeAmended")
    BY <1>1, <1>5 DEF Sent
  <2>3. c.reversalIds # NoReversalIds
    BY <1>5, CommandShape, TuplesAreNotEmpty
  <2>4. x \in Ledgered!AmendTradeCommands
    BY <1>1, <1>5, <2>1, <2>2, <2>3, CommandParts
    DEF Ledgered!AmendTradeCommands, Ledgered!Versions, Versions
  <2>5. AmendTradeError(s, x) = Ok /\ r = AmendTradeResult(s, x)
    <3>1. AmendTradeError(s, c) = Ok /\ r = AmendTradeResult(s, c)
      BY <1>1, <1>5 DEF CommandError, Prospective
    <3>2. /\ x.tradeId = c.tradeId /\ x.expectedVersion = c.expectedVersion
          /\ x.terms = c.terms /\ x.reversalIds = c.reversalIds
          /\ x.postingIds = c.postingIds
      BY <2>1
    <3>3. AmendTradeError(s, x) = AmendTradeError(s, c)
      BY <3>2, AmendReads
    <3>4. AmendTradeResult(s, x) = AmendTradeResult(s, c)
      BY <3>2, Zenon DEF AmendTradeResult
    <3> QED BY <3>1, <3>3, <3>4
  <2>6. Ledgered!AmendTrade
    BY <2>4, <2>5, SameAmendment DEF Ledgered!AmendTrade, Ledgered!Ok, Ok
  <2> QED BY <2>6 DEF Ledgered!Next
<1>6. CASE c.kind = "TradeCancelled"
  <2>1. PICK x : x = [tradeId |-> c.tradeId, expectedVersion |-> c.expectedVersion,
                      reversalIds |-> c.reversalIds]
    OBVIOUS
  <2>2. e \in Sent("TradeCancelled")
    BY <1>1, <1>6 DEF Sent
  <2>3. x \in Ledgered!CancelTradeCommands
    BY <1>1, <1>6, <2>1, <2>2, CommandParts
    DEF Ledgered!CancelTradeCommands, Ledgered!Versions, Versions,
        Ledgered!NoReversalIds, NoReversalIds
  <2>4. CancelTradeError(s, x) = Ok /\ r = CancelTradeResult(s, x)
    BY <1>1, <1>6, <2>1
    DEF CommandError, Prospective, CancelTradeError, CancelTradeResult
  <2>5. Ledgered!CancelTrade
    BY <2>3, <2>4, SameCancellation DEF Ledgered!CancelTrade, Ledgered!Ok, Ok
  <2> QED BY <2>5 DEF Ledgered!Next
<1>7. CASE c.kind = "EodRun"
  <2>1. PICK x : x = [asOf |-> c.asOf]
    OBVIOUS
  <2>2. x \in Ledgered!RunEodCommands
    BY <1>7, <2>1, CommandParts DEF Ledgered!RunEodCommands
  <2>3. RunEodError(s, x) = Ok /\ r = RunEodResult(s, x)
    BY <1>1, <1>7, <2>1
    DEF CommandError, Prospective, RunEodError, RunEodResult
  <2>4. Ledgered!RunEod
    BY <2>2, <2>3, SameEndOfDay DEF Ledgered!RunEod, Ledgered!Ok, Ok
  <2> QED BY <2>4 DEF Ledgered!Next
<1> QED BY <1>2, <1>3, <1>4, <1>5, <1>6, <1>7 DEF Kinds

(* What a step of the service does to the state of the journal.            *)
LEMMA JournalSteps ==
  ASSUME NEW n, InvAt(n), [Next]_vars
  PROVE  [Ledgered!Next]_Committed
<1>1. PICK J, states, K, more :
        J = Journal /\ states = past /\ K = Journal' /\ more = past'
  OBVIOUS
<1>2. Recorded(J, states) /\ LogStep(J, states, K, more)
  BY <1>1, StepKeeps DEF InvAt
<1>3. CASE more = states
  <2>1. Committed' = Committed
    BY <1>1, <1>3 DEF Committed
  <2> QED BY <2>1
<1>4. CASE \E batch, after : /\ Ready(J, states, batch, after)
                             /\ K = Append(J, batch) /\ more = Append(states, after)
  <2>1. PICK batch, after : /\ Ready(J, states, batch, after)
                            /\ K = Append(J, batch) /\ more = Append(states, after)
    BY <1>4
  <2>2. Grown(more, states, after)
    BY <1>2, <2>1, NextIsRecorded
  <2>3. Len(states) = Len(J) + 1 /\ Len(J) \in Nat
    BY <1>2, SeqFacts DEF Recorded
  <2>4. PICK s : s = states[Len(J) + 1]
    OBVIOUS
  <2>5. s = Committed
    BY <1>1, <2>3, <2>4 DEF Committed, Last
  <2>6. after = Committed'
    <3>1. more[Len(more)] = after
      BY <2>2, <2>3 DEF Grown
    <3> QED BY <1>1, <3>1 DEF Committed, Last
  <2>7. Executed(batch, Len(J) + 1, s, after)
    BY <2>1, <2>4 DEF Ready
  <2>8. PICK e \in Envelopes : CommandError(s, e.command) = Ok
                               /\ after = Prospective(s, e.command)
    BY <2>7 DEF Executed
  <2>9. Ledgered!Next
    BY <2>5, <2>6, <2>8, AcceptedIsAStep
  <2> QED BY <2>9
<1> QED BY <1>2, <1>3, <1>4 DEF LogStep

LEMMA JournalStarts ==
  ASSUME Init
  PROVE  Ledgered!Init
<1>1. past = <<InitialState>>
  BY DEF Init
<1>2. Committed = InitialState
  BY <1>1 DEF Committed, Last
<1>3. Ledgered!InitialState = InitialState
  BY DEF Ledgered!InitialState, InitialState, Ledgered!EmptyMap, EmptyMap,
         Ledgered!ZeroTotals, ZeroTotals, Ledgered!NothingReserved, NothingReserved,
         Ledgered!LimitKeys, LimitKeys
<1> QED BY <1>2, <1>3 DEF Ledgered!Init

(* The service is an implementation of the domain: the state of its        *)
(* journal starts empty and every step either leaves it alone or is one    *)
(* accepted command of one client's request.                               *)
THEOREM JournalImplementsDomain == Spec => ImplementsDomain
<1>1. Init => Ledgered!Init
  BY JournalStarts
<1>2. Inv /\ [Next]_vars => [Ledgered!Next]_Committed
  BY JournalSteps DEF Inv
<1> QED
  BY <1>1, <1>2, ServiceInvariant, PTL DEF Spec, ImplementsDomain, Ledgered!Spec

-----------------------------------------------------------------------------
(* The HTTP boundary.  What decode_command_request lets through.           *)

LEMMA MemberParses ==
  ASSUME NEW object, NEW required, NEW optional, Fits(object, required, optional),
         NEW name \in required
  PROVE  Parses(name, object[name])
BY DEF Fits

LEMMA MoneyIsParsed ==
  ASSUME NEW money, Fits(money, MoneyFields, {}), money.minorUnits > 0
  PROVE  Cash(money) \in Money
<1>1. Parses("currency", money.currency) /\ Parses("minorUnits", money.minorUnits)
  <2>1. "currency" \in MoneyFields /\ "minorUnits" \in MoneyFields
    BY DEF MoneyFields
  <2>2. Parses("currency", money["currency"]) /\ Parses("minorUnits", money["minorUnits"])
    BY <2>1, MemberParses
  <2> QED BY <2>2
<1>2. money.currency \in Currencies /\ money.minorUnits \in MinorUnits
  BY <1>1 DEF Parses
<1>3. money.minorUnits \in 1..MaxMinor
  BY <1>2, WidthsArePositive DEF MinorUnits
<1> QED BY <1>2, <1>3 DEF Cash, Money

LEMMA TermsAreParsed ==
  ASSUME NEW terms, TermsFit(terms)
  PROVE  TermsOf(terms) \in FxTerms
<1>1. PICK pay, receive : pay = Cash(terms.pay) /\ receive = Cash(terms.receive)
  OBVIOUS
<1>2. pay \in Money /\ receive \in Money
  BY <1>1, MoneyIsParsed DEF TermsFit
<1>3. pay.currency # receive.currency
  BY <1>1 DEF Cash, TermsFit
<1>4. terms.valueDate \in Dates
  <2>1. "valueDate" \in TermsFields
    BY DEF TermsFields
  <2>2. Parses("valueDate", terms["valueDate"])
    BY <2>1, MemberParses DEF TermsFit
  <2> QED BY <2>2 DEF Parses
<1>5. TermsOf(terms) = [pay |-> pay, receive |-> receive, valueDate |-> terms.valueDate]
  BY <1>1 DEF TermsOf
<1> QED BY <1>2, <1>3, <1>4, <1>5 DEF FxTerms

LEMMA IdsAreParsed ==
  ASSUME NEW ids, NEW fields, fields = ConfirmationFields \/ fields = ReversalFields,
         IdsFit(ids, fields)
  PROVE  IdsOf(ids, fields) \in IdTuples
<1>1. ASSUME NEW i \in Lines PROVE ids[fields[i]] \in PostingIds
  <2>1. PICK name : name = fields[i]
    OBVIOUS
  <2>2. name \in {fields[j] : j \in Lines}
    BY <2>1
  <2>3. Parses(name, ids[name])
    BY <2>2, MemberParses DEF IdsFit
  <2>4. \E j \in Lines : name \in {ConfirmationFields[j], ReversalFields[j]}
    BY <2>1
  <2> QED BY <2>1, <2>3, <2>4 DEF Parses
<1> QED BY <1>1 DEF IdsOf, IdTuples

LEMMA BookingIsACommand ==
  ASSUME NEW body, body.type = "BOOK_TRADE", PayloadFits(body.type, body.payload)
  PROVE  CommandOf(body) \in Commands
<1>1. PICK p, terms : p = body.payload /\ terms = TermsOf(p.terms)
  OBVIOUS
<1>2. PICK path : path = [counterparty |-> p.counterpartyId,
                          nettingSet |-> p.nettingSetId, book |-> p.bookId]
  OBVIOUS
<1>3. /\ Fits(p, {"tradeId", "bookId", "counterpartyId", "nettingSetId", "terms"}, {})
      /\ TermsFit(p.terms)
  BY <1>1 DEF PayloadFits
<1>4. /\ Parses("tradeId", p["tradeId"]) /\ Parses("bookId", p["bookId"])
      /\ Parses("counterpartyId", p["counterpartyId"])
      /\ Parses("nettingSetId", p["nettingSetId"])
  BY <1>3, MemberParses
<1>5. p.tradeId \in TradeIds /\ path \in LimitPath
  BY <1>2, <1>4 DEF Parses, LimitPath
<1>6. terms \in FxTerms
  BY <1>1, <1>3, TermsAreParsed
<1>7. CommandOf(body) = [kind |-> "TradeBooked", tradeId |-> p.tradeId,
                         path |-> path, terms |-> terms]
  BY <1>1, <1>2 DEF CommandOf
<1> QED BY <1>5, <1>6, <1>7 DEF Commands

LEMMA ConfirmationIsACommand ==
  ASSUME NEW body, body.type = "CONFIRM_TRADE", PayloadFits(body.type, body.payload),
         body.expectedVersion \in Versions
  PROVE  CommandOf(body) \in Commands
<1>1. PICK p, ids : p = body.payload /\ ids = IdsOf(p.postingIds, ConfirmationFields)
  OBVIOUS
<1>2. Fits(p, {"tradeId", "postingIds"}, {}) /\ IdsFit(p.postingIds, ConfirmationFields)
  BY <1>1 DEF PayloadFits
<1>3. Parses("tradeId", p["tradeId"])
  BY <1>2, MemberParses
<1>4. p.tradeId \in TradeIds
  BY <1>3 DEF Parses
<1>5. ids \in IdTuples
  BY <1>1, <1>2, IdsAreParsed
<1>6. CommandOf(body) = [kind |-> "TradeConfirmed", tradeId |-> p.tradeId,
                         expectedVersion |-> body.expectedVersion, postingIds |-> ids]
  BY <1>1 DEF CommandOf
<1> QED BY <1>4, <1>5, <1>6 DEF Commands

LEMMA AmendmentIsACommand ==
  ASSUME NEW body, body.type = "AMEND_TRADE", PayloadFits(body.type, body.payload),
         body.expectedVersion \in Versions
  PROVE  CommandOf(body) \in Commands
<1>1. PICK p, terms, reversal, ids :
        /\ p = body.payload /\ terms = TermsOf(p.replacementTerms)
        /\ reversal = IdsOf(p.reversalPostingIds, ReversalFields)
        /\ ids = IdsOf(p.replacementPostingIds, ConfirmationFields)
  OBVIOUS
<1>2. /\ Fits(p, {"tradeId", "replacementTerms", "reversalPostingIds",
                  "replacementPostingIds"}, {})
      /\ TermsFit(p.replacementTerms)
      /\ IdsFit(p.reversalPostingIds, ReversalFields)
      /\ IdsFit(p.replacementPostingIds, ConfirmationFields)
  BY <1>1 DEF PayloadFits
<1>3. Parses("tradeId", p["tradeId"])
  BY <1>2, MemberParses
<1>4. p.tradeId \in TradeIds
  BY <1>3 DEF Parses
<1>5. terms \in FxTerms /\ reversal \in IdTuples /\ ids \in IdTuples
  BY <1>1, <1>2, TermsAreParsed, IdsAreParsed
<1>6. CommandOf(body) = [kind |-> "TradeAmended", tradeId |-> p.tradeId,
                         expectedVersion |-> body.expectedVersion, terms |-> terms,
                         reversalIds |-> reversal, postingIds |-> ids]
  BY <1>1 DEF CommandOf
<1> QED BY <1>4, <1>5, <1>6 DEF Commands

LEMMA CancellationIsACommand ==
  ASSUME NEW body, body.type = "CANCEL_TRADE", PayloadFits(body.type, body.payload),
         body.expectedVersion \in Versions
  PROVE  CommandOf(body) \in Commands
<1>1. PICK p : p = body.payload
  OBVIOUS
<1>2. PICK reversal : reversal = IF "reversalPostingIds" \in DOMAIN p
                                 THEN IdsOf(p.reversalPostingIds, ReversalFields)
                                 ELSE NoReversalIds
  OBVIOUS
<1>3. /\ Fits(p, {"tradeId"}, {"reversalPostingIds"})
      /\ "reversalPostingIds" \in DOMAIN p => IdsFit(p.reversalPostingIds, ReversalFields)
  BY <1>1 DEF PayloadFits
<1>4. Parses("tradeId", p["tradeId"])
  BY <1>3, MemberParses
<1>5. p.tradeId \in TradeIds
  BY <1>4 DEF Parses
<1>6. reversal \in IdTuples \cup {NoReversalIds}
  BY <1>2, <1>3, IdsAreParsed
<1>7. CommandOf(body) = [kind |-> "TradeCancelled", tradeId |-> p.tradeId,
                         expectedVersion |-> body.expectedVersion,
                         reversalIds |-> reversal]
  BY <1>1, <1>2 DEF CommandOf
<1> QED BY <1>5, <1>6, <1>7 DEF Commands

LEMMA EndOfDayIsACommand ==
  ASSUME NEW body, body.type = "RUN_EOD", PayloadFits(body.type, body.payload)
  PROVE  CommandOf(body) \in Commands
<1>1. PICK p : p = body.payload
  OBVIOUS
<1>2. Fits(p, {"asOfDate"}, {})
  BY <1>1 DEF PayloadFits
<1>3. Parses("asOfDate", p["asOfDate"])
  BY <1>2, MemberParses
<1>4. p.asOfDate \in Dates
  BY <1>3 DEF Parses
<1>5. CommandOf(body) = [kind |-> "EodRun", asOf |-> p.asOfDate]
  BY <1>1 DEF CommandOf
<1> QED BY <1>4, <1>5 DEF Commands

(* Whatever a client posts, a body that passes decode_command_request is a *)
(* command of the domain: amounts, currencies, dates, versions and posting *)
(* identifiers are in the ranges the service relies on.                    *)
THEOREM DecodedIsACommand ==
  ASSUME NEW r, DecodeError(r) = Ok
  PROVE  CommandOf(r.body) \in Commands
<1>1. DocumentFits(r.body)
  BY DEF DecodeError, Fail, ??, Ok
<1>2. PICK body : body = r.body
  OBVIOUS
<1>3. /\ Fits(body, {"commandId", "type", "payload"}, {"expectedVersion"})
      /\ PayloadFits(body.type, body.payload)
      /\ "expectedVersion" \in DOMAIN body <=> body.type \in TradeTypes
  BY <1>1, <1>2 DEF DocumentFits
<1>4. body.type \in TradeTypes => body.expectedVersion \in Versions
  <2>1. SUFFICES ASSUME "expectedVersion" \in DOMAIN body
                 PROVE  body["expectedVersion"] \in Versions
    BY <1>3
  <2>2. Parses("expectedVersion", body["expectedVersion"])
    BY <1>3, <2>1 DEF Fits
  <2> QED BY <2>2 DEF Parses
<1>5. CASE body.type = "BOOK_TRADE"
  BY <1>2, <1>3, <1>5, BookingIsACommand
<1>6. CASE body.type = "CONFIRM_TRADE"
  BY <1>2, <1>3, <1>4, <1>6, ConfirmationIsACommand DEF TradeTypes
<1>7. CASE body.type = "AMEND_TRADE"
  BY <1>2, <1>3, <1>4, <1>7, AmendmentIsACommand DEF TradeTypes
<1>8. CASE body.type = "CANCEL_TRADE"
  BY <1>2, <1>3, <1>4, <1>8, CancellationIsACommand DEF TradeTypes
<1>9. CASE body.type = "RUN_EOD"
  BY <1>2, <1>3, <1>9, EndOfDayIsACommand
<1>10. body.type \in {"BOOK_TRADE", "CONFIRM_TRADE", "AMEND_TRADE", "CANCEL_TRADE",
                      "RUN_EOD"}
  BY <1>3 DEF PayloadFits
<1> QED BY <1>5, <1>6, <1>7, <1>8, <1>9, <1>10

(* The boundary adds nothing to what the service does: what it refuses, and*)
(* what it makes of an answer, are steps that leave the service alone.     *)
LEMMA HttpStep ==
  ASSUME [HttpNext]_httpVars
  PROVE  [Next]_vars
<1>1. ASSUME NEW t \in Threads, Post(t) PROVE [Next]_vars
  <2>1. PICK r \in Requests :
          \/ UNCHANGED vars
          \/ DecodeError(r) = Ok /\ CallWith(t, EnvelopeOf(r.body))
    BY <1>1 DEF Post
  <2>2. CASE DecodeError(r) = Ok /\ CallWith(t, EnvelopeOf(r.body))
    <3>1. PICK e \in Envelopes : e = EnvelopeOf(r.body)
      BY <2>2, AcceptedAreSent
    <3>2. Call(t)
      BY <2>2, <3>1 DEF Call
    <3> QED BY <1>1, <3>2 DEF Next, Execute
  <2> QED BY <2>1, <2>2
<1>2. ASSUME NEW t \in Threads, Get(t) PROVE [Next]_vars
  BY <1>2 DEF Get, Next
<1>3. ASSUME NEW t \in Threads, Process(t) PROVE [Next]_vars
  <2>1. Work(t) \/ Return(t) \/ UNCHANGED vars
    BY <1>3 DEF Process, Answer, Done
  <2> QED BY <1>3, <2>1 DEF Next, Execute
<1>4. CASE (Create /\ UNCHANGED http) \/ Recovering \/ (Crash /\ http' = AllFree)
  BY <1>4 DEF Recovering, Next
<1>5. CASE UNCHANGED httpVars
  BY <1>5 DEF httpVars
<1> QED BY <1>1, <1>2, <1>3, <1>4, <1>5 DEF HttpNext

(* The HTTP server is a user of the service like any other: every theorem  *)
(* above holds of it too.                                                  *)
THEOREM BoundaryIsTheService == HttpSpec => Spec
<1>1. HttpInit => Init
  BY DEF HttpInit
<1>2. [HttpNext]_httpVars => [Next]_vars
  BY HttpStep
<1> QED BY <1>1, <1>2, PTL DEF HttpSpec, Spec

-----------------------------------------------------------------------------
(* What a status tells.                                                    *)

LEMMA Statuses ==
  ASSUME NEW th
  PROVE  /\ th.code = Ok =>
              ResponseTo(th).status = 200 /\ ResponseTo(th).receipt = th.receipt
         /\ th.code = "JournalUnavailable" => ResponseTo(th).status = 503
         /\ th.code = "IdempotencyConflict" =>
              ResponseTo(th) = Problem(409, "IDEMPOTENCY_CONFLICT")
         /\ th.code \notin {Ok, "JournalUnavailable", "IdempotencyConflict"} =>
              /\ ResponseTo(th).status \notin {200, 503}
              /\ ResponseTo(th) # Problem(409, "IDEMPOTENCY_CONFLICT")
<1>1. th.code = Ok =>
        ResponseTo(th).status = 200 /\ ResponseTo(th).receipt = th.receipt
  BY DEF ResponseTo
<1>2. th.code = "JournalUnavailable" => ResponseTo(th).status = 503
  BY DEF ResponseTo, ServiceProblem, Problem, Ok
<1>3. th.code = "IdempotencyConflict" =>
        ResponseTo(th) = Problem(409, "IDEMPOTENCY_CONFLICT")
  BY DEF ResponseTo, ServiceProblem, Ok
<1>4. ASSUME th.code \notin {Ok, "JournalUnavailable", "IdempotencyConflict"}
      PROVE  /\ ResponseTo(th).status \notin {200, 503}
             /\ ResponseTo(th) # Problem(409, "IDEMPOTENCY_CONFLICT")
  <2>1. PICK error : error = th.stateError
    OBVIOUS
  <2>2. PICK status, code : StateProblem(error) = Problem(status, code)
    BY DEF StateProblem
  <2>3. StateProblem(error).status \in {404, 409, 422, 500}
    BY DEF StateProblem, Problem
  <2>4. StateProblem(error).code # "IDEMPOTENCY_CONFLICT"
    BY DEF StateProblem, Problem
  <2>5. Problem(409, "IDEMPOTENCY_CONFLICT").code = "IDEMPOTENCY_CONFLICT"
    BY DEF Problem
  <2>6. CASE th.code = "DomainRejected"
    <3>1. ResponseTo(th) = StateProblem(error)
      BY <1>4, <2>1, <2>6 DEF ResponseTo, ServiceProblem
    <3> QED BY <2>3, <2>4, <2>5, <3>1
  <2>7. CASE th.code # "DomainRejected"
    <3>1. ResponseTo(th) = Problem(500, "INTERNAL_ERROR")
      BY <1>4, <2>7 DEF ResponseTo, ServiceProblem
    <3> QED BY <3>1 DEF Problem
  <2> QED BY <2>6, <2>7
<1> QED BY <1>1, <1>2, <1>3, <1>4

(* With everything published, what the index does not know is not journaled*)
LEMMA UnknownIsNotJournaled ==
  ASSUME NEW n, InvAt(n), n = Len(Journal), NEW id, id \notin DOMAIN idempotency
  PROVE  \A i \in 1..Len(Journal) : Journal[i].commandId # id
<1>1. PICK J, P : J = Journal /\ P = SubSeq(J, 1, n)
  OBVIOUS
<1>2. /\ IsSeq(J) /\ Distinct(J) /\ n \in 0..Len(J) /\ n = Len(J)
      /\ idempotency = IndexOf(P)
  BY <1>1 DEF InvAt, Recorded, ServesAt
<1>3. P = J
  BY <1>1, <1>2, FirstOf
<1>4. Indexes(idempotency, J)
  BY <1>2, <1>3, IndexFacts
<1> QED BY <1>1, <1>4 DEF Indexes

LEMMA AnswerAgainTells ==
  ASSUME NEW n, InvAt(n), NEW t \in Threads, AnswerAgain(t)
  PROVE  Told(threads[t].request, ResponseTo(threads'[t]), Journal', writable')
<1>1. PICK request, record, J :
        /\ request = threads[t].request /\ J = Journal
        /\ record = idempotency[request.commandId]
  OBVIOUS
<1>2. /\ file' = file
      /\ request.commandId \in DOMAIN idempotency
      /\ threads' = IF record.request = request
                    THEN Answered(t, Receipt(record.result, TRUE))
                    ELSE Failed(t, "IdempotencyConflict", Ok)
  BY <1>1 DEF AnswerAgain, IsKnown, SameRequest
<1>3. PICK i \in 1..Len(J) : /\ J[i].commandId = request.commandId
                             /\ record = RecordOf(J[i])
  BY <1>1, <1>2, KnownIsJournaled
<1>4. record.request = J[i].request /\ record.result = J[i].result
  BY <1>3 DEF RecordOf
<1>5. Journal' = J
  BY <1>1, <1>2 DEF Journal
<1>6. DOMAIN J = 1..Len(J) /\ Distinct(J)
  BY <1>1, SeqFacts DEF InvAt, Recorded
<1>7. \A j \in DOMAIN J : J[j].commandId = request.commandId => j = i
  BY <1>3, <1>6 DEF Distinct
<1>8. threads = [u \in Threads |-> threads[u]]
  BY DEF InvAt, ThreadsOK
<1>9. PICK th : th = threads'[t]
  OBVIOUS
<1>10. PICK response : response = ResponseTo(th)
  OBVIOUS
<1>11. CASE record.request = request
  <2>1. th.code = Ok /\ th.receipt.result = record.result
    BY <1>2, <1>8, <1>9, <1>11 DEF Answered, Receipt
  <2>2. response.status = 200 /\ response.receipt = th.receipt
    BY <1>10, <2>1, Statuses
  <2>3. /\ i \in DOMAIN J /\ J[i].commandId = request.commandId
        /\ J[i].request = request /\ J[i].result = response.receipt.result
    BY <1>3, <1>4, <1>6, <1>11, <2>1, <2>2
  <2>4. Told(request, response, J, writable')
    BY <2>2, <2>3 DEF Told, Problem
  <2> QED BY <1>1, <1>5, <1>9, <1>10, <2>4
<1>12. CASE record.request # request
  <2>1. th.code = "IdempotencyConflict"
    BY <1>2, <1>8, <1>9, <1>12 DEF Failed
  <2>2. response = Problem(409, "IDEMPOTENCY_CONFLICT")
    BY <1>10, <2>1, Statuses
  <2>3. response.status = 409
    BY <2>2 DEF Problem
  <2>4. Told(request, response, J, writable')
    BY <1>3, <1>4, <1>6, <1>7, <1>12, <2>2, <2>3 DEF Told
  <2> QED BY <1>1, <1>5, <1>9, <1>10, <2>4
<1> QED BY <1>11, <1>12

LEMMA RefuseTells ==
  ASSUME NEW n, InvAt(n), NEW t \in Threads, Refuse(t)
  PROVE  Told(threads[t].request, ResponseTo(threads'[t]), Journal', writable')
<1>1. PICK request, error, J :
        /\ request = threads[t].request /\ J = Journal
        /\ error = ExecuteError(request.command)
  OBVIOUS
<1>2. PICK stateError :
        /\ threads[t].pc = "waiting" /\ MutexIsFree /\ error # Ok
        /\ request.commandId \notin DOMAIN idempotency
        /\ file' = file /\ writable' = writable
        /\ threads' = Failed(t, error, stateError)
  BY <1>1 DEF Refuse, IsKnown, service
<1>3. Journal' = J
  BY <1>1, <1>2 DEF Journal
<1>4. PICK th, response : th = threads'[t] /\ response = ResponseTo(th)
  OBVIOUS
<1>5. th.code = error
  <2>1. threads = [u \in Threads |-> threads[u]]
    BY DEF InvAt, ThreadsOK
  <2> QED BY <1>2, <1>4, <2>1 DEF Failed
<1>6. CASE ~writable
  <2>1. error = "JournalUnavailable"
    BY <1>1, <1>6 DEF ExecuteError, Fail, ??, Ok
  <2>2. response.status = 503
    BY <1>4, <1>5, <2>1, Statuses
  <2>3. Told(request, response, J, writable')
    BY <1>2, <1>6, <2>2 DEF Told, Problem
  <2> QED BY <1>1, <1>3, <1>4, <2>3
<1>7. CASE writable
  <2>1. error \in {"SequenceExhausted", "DomainRejected", "InvariantViolation"}
    <3>1. \A s, c : EvaluationError(s, c) \in {Ok, "DomainRejected", "InvariantViolation"}
      BY DEF EvaluationError, Fail, ??
    <3>2. \A sequence, result :
            BatchError(sequence, result) \in {Ok, "InvariantViolation"}
      BY DEF BatchError, Fail
    <3>3. PICK evaluation, batch :
            /\ evaluation \in {Ok, "DomainRejected", "InvariantViolation"}
            /\ batch \in {Ok, "InvariantViolation"}
            /\ error = (((Fail(~writable, "JournalUnavailable")
                        ?? Fail(nextSequence = Exhausted, "SequenceExhausted"))
                        ?? evaluation) ?? batch)
      BY <1>1, <3>1, <3>2 DEF ExecuteError
    <3> QED BY <1>2, <1>7, <3>3 DEF Fail, ??, Ok
  <2>2. /\ response.status \notin {200, 503}
        /\ response # Problem(409, "IDEMPOTENCY_CONFLICT")
    BY <1>4, <1>5, <2>1, Statuses DEF Ok
  <2>3. n = Len(J)
    <3>1. phase = "serving"
      BY <1>2, BusyMeansServing
    <3> QED BY <1>1, <1>2, <1>7, <3>1 DEF InvAt, PhaseOK, MutexIsFree
  <2>4. \A i \in 1..Len(J) : J[i].commandId # request.commandId
    BY <1>1, <1>2, <2>3, UnknownIsNotJournaled
  <2>5. DOMAIN J = 1..Len(J)
    BY <1>1, SeqFacts DEF InvAt, Recorded
  <2>6. Told(request, response, J, writable')
    BY <2>2, <2>4, <2>5 DEF Told
  <2> QED BY <1>1, <1>3, <1>4, <2>6
<1> QED BY <1>6, <1>7

LEMMA AppendFailsTells ==
  ASSUME NEW n, InvAt(n), NEW t \in Threads, AppendFails(t)
  PROVE  Told(threads[t].request, ResponseTo(threads'[t]), Journal', writable')
<1>1. threads' = Failed(t, "JournalUnavailable", Ok) /\ writable' = FALSE
  BY DEF AppendFails, AppendFailure, WritableAfterFailure
<1>2. PICK th, response : th = threads'[t] /\ response = ResponseTo(th)
  OBVIOUS
<1>3. th.code = "JournalUnavailable"
  <2>1. threads = [u \in Threads |-> threads[u]]
    BY DEF InvAt, ThreadsOK
  <2> QED BY <1>1, <1>2, <2>1 DEF Failed
<1>4. response.status = 503
  BY <1>2, <1>3, Statuses
<1>5. Told(threads[t].request, response, Journal', writable')
  BY <1>1, <1>4 DEF Told, Problem
<1> QED BY <1>2, <1>5

LEMMA PublishTells ==
  ASSUME NEW n, InvAt(n), NEW t \in Threads, Publish(t)
  PROVE  Told(threads[t].request, ResponseTo(threads'[t]), Journal', writable')
<1>1. PICK batch, request, J :
        batch = threads[t].batch /\ request = threads[t].request /\ J = Journal
  OBVIOUS
<1>2. /\ threads[t].pc = "publishing" /\ file' = file
      /\ threads' = Answered(t, Receipt(batch.result, FALSE))
  BY <1>1 DEF Publish
<1>3. Journal' = J
  BY <1>1, <1>2 DEF Journal
<1>4. n + 1 = Len(J) /\ batch.request = request /\ batch = J[n + 1]
  <2>1. ThreadOK(threads[t], n, J, past, writable)
    BY <1>1 DEF InvAt, ThreadsOK
  <2> QED BY <1>1, <1>2, <2>1 DEF ThreadOK
<1>5. Recorded(J, past) /\ IsSeq(J) /\ n \in 0..Len(J)
  BY <1>1 DEF InvAt, Recorded, ServesAt
<1>6. n + 1 \in 1..Len(J) /\ DOMAIN J = 1..Len(J)
  BY <1>4, <1>5, SeqFacts
<1>7. batch.commandId = request.commandId
  <2>1. Replays(J[n + 1], n + 1, past[n + 1], past[(n + 1) + 1])
    BY <1>5, <1>6 DEF Recorded
  <2> QED BY <1>4, <2>1 DEF Replays
<1>8. PICK th, response : th = threads'[t] /\ response = ResponseTo(th)
  OBVIOUS
<1>9. th.code = Ok /\ th.receipt.result = batch.result
  <2>1. threads = [u \in Threads |-> threads[u]]
    BY DEF InvAt, ThreadsOK
  <2> QED BY <1>2, <1>8, <2>1 DEF Answered, Receipt
<1>10. response.status = 200 /\ response.receipt = th.receipt
  BY <1>8, <1>9, Statuses
<1>11. Told(request, response, J, writable')
  BY <1>4, <1>6, <1>7, <1>9, <1>10 DEF Told, Problem
<1> QED BY <1>1, <1>3, <1>8, <1>11

(* Only these four steps answer.                                           *)
LEMMA Answering ==
  ASSUME NEW n, InvAt(n), [Next]_vars, NEW t \in Threads,
         threads[t].pc # "answered", threads'[t].pc = "answered"
  PROVE  AnswerAgain(t) \/ Refuse(t) \/ AppendFails(t) \/ Publish(t)
<1>1. threads = [u \in Threads |-> threads[u]]
  BY DEF InvAt, ThreadsOK
<1>2. AllIdle[t].pc = "idle"
  BY DEF AllIdle, Idle
<1>3. threads' # threads /\ threads' # AllIdle
  BY <1>2
<1>4. PICK u \in Threads : Execute(u)
  BY <1>3 DEF Next, vars, Read, Crash, Create, ReplayBatch, FinishRecovery, Stop
<1>5. CASE Call(u)
  <2>1. PICK th : threads' = [threads EXCEPT ![u] = th] /\ th.pc = "waiting"
    BY <1>5 DEF Call, CallWith
  <2> QED BY <1>1, <2>1
<1>6. CASE Return(u)
  BY <1>1, <1>6 DEF Return, Idle
<1>7. CASE BeginAppend(u)
  <2>1. PICK th : threads' = [threads EXCEPT ![u] = th] /\ th.pc = "appending"
    BY <1>7 DEF BeginAppend
  <2> QED BY <1>1, <2>1
<1>8. CASE AppendSucceeds(u)
  <2>1. threads' = [threads EXCEPT ![u].pc = "publishing"]
    BY <1>8 DEF AppendSucceeds
  <2>2. threads[u].pc = "appending" /\ ThreadOK(threads[u], n, Journal, past, writable)
    BY <1>8 DEF AppendSucceeds, InvAt, ThreadsOK
  <2>3. PICK th : th = threads[u]
    OBVIOUS
  <2>4. th = [pc |-> th.pc, request |-> th.request, batch |-> th.batch, after |-> th.after]
    BY <2>2, <2>3 DEF ThreadOK
  <2>5. threads' = [threads EXCEPT ![u] = [th EXCEPT !.pc = "publishing"]]
    BY <2>1, <2>3
  <2>6. [th EXCEPT !.pc = "publishing"].pc = "publishing"
    BY <2>4
  <2> QED BY <1>1, <2>5, <2>6
<1>9. CASE AnswerAgain(u) \/ Refuse(u) \/ AppendFails(u) \/ Publish(u)
  <2>1. \A v \in Threads : v # u => threads'[v] = threads[v]
    BY <1>1, <1>9 DEF AnswerAgain, Refuse, AppendFails, Publish, AppendFailure,
                      Answered, Failed
  <2>2. u = t
    BY <2>1
  <2> QED BY <1>9, <2>2
<1> QED BY <1>4, <1>5, <1>6, <1>7, <1>8, <1>9 DEF Execute, Work

LEMMA AnswersTell ==
  ASSUME NEW n, InvAt(n), [Next]_vars, NEW t \in Threads,
         threads[t].pc # "answered", threads'[t].pc = "answered"
  PROVE  /\ threads[t].request.command \in Commands
         /\ Told(threads[t].request, ResponseTo(threads'[t]), Journal', writable')
<1>1. AnswerAgain(t) \/ Refuse(t) \/ AppendFails(t) \/ Publish(t)
  BY Answering
<1>2. Told(threads[t].request, ResponseTo(threads'[t]), Journal', writable')
  BY <1>1, AnswerAgainTells, RefuseTells, AppendFailsTells, PublishTells
<1>3. threads[t].pc # "idle"
  BY <1>1 DEF AnswerAgain, Refuse, AppendFails, Publish
<1>4. threads[t].request \in Envelopes
  BY <1>3 DEF InvAt, ThreadsOK, ThreadOK
<1> QED BY <1>2, <1>4, EnvelopeCommand

(* Whatever other threads, the store and restarts have done before: 200    *)
(* means journaled with that result, a conflict that another request has   *)
(* the identifier, 503 that no command is taken any more, and every other  *)
(* problem that the identifier is not used.                                *)
THEOREM StatusIsTheOutcome == HttpSpec => StatusTellsOutcome
<1>1. Inv /\ [Next]_vars =>
        [\A t \in Threads :
           threads[t].pc # "answered" /\ threads'[t].pc = "answered" =>
             /\ threads[t].request.command \in Commands
             /\ Told(threads[t].request, ResponseTo(threads'[t]), Journal', writable')
        ]_threads
  BY AnswersTell DEF Inv
<1> QED BY <1>1, ServiceInvariant, BoundaryIsTheService, PTL DEF Spec, StatusTellsOutcome

-----------------------------------------------------------------------------
(* What recovery accepts.                                                  *)

(* Replay accepts an answer only if it is the one that execution computes. *)
LEMMA MatchIsAnswer ==
  ASSUME NEW e \in Commands, NEW s, NEW r, NEW result \in Results,
         ResultMatches(result, e, s, r)
  PROVE  result = ResultOf(s, e, r)
<1>1. e.kind \in Kinds /\ result.kind = e.kind /\ result.stateVersion = r.version
  BY CommandShape DEF ResultMatches
<1>2. CASE e.kind = "TradeBooked"
  <2>1. result = [kind |-> result.kind, tradeId |-> result.tradeId,
                  version |-> result.version, stateVersion |-> result.stateVersion]
    BY <1>1, <1>2 DEF Results
  <2>2. result.tradeId = e.tradeId /\ result.version = 1
    BY <1>1, <1>2 DEF ResultMatches
  <2> QED BY <1>1, <1>2, <2>1, <2>2 DEF ResultOf
<1>3. CASE e.kind \in {"TradeConfirmed", "TradeCancelled"}
  <2>1. result = [kind |-> result.kind, tradeId |-> result.tradeId,
                  version |-> result.version, stateVersion |-> result.stateVersion]
    BY <1>1, <1>3 DEF Results
  <2>2. result.tradeId = e.tradeId /\ result.version = e.expectedVersion
    BY <1>1, <1>3 DEF ResultMatches
  <2> QED BY <1>1, <1>3, <2>1, <2>2 DEF ResultOf
<1>4. CASE e.kind = "TradeAmended"
  <2>1. result = [kind |-> result.kind, tradeId |-> result.tradeId,
                  supersededVersion |-> result.supersededVersion,
                  replacementVersion |-> result.replacementVersion,
                  stateVersion |-> result.stateVersion]
    BY <1>1, <1>4 DEF Results
  <2>2. /\ result.tradeId = e.tradeId
        /\ result.supersededVersion = e.expectedVersion
        /\ result.replacementVersion = e.expectedVersion + 1
    BY <1>1, <1>4 DEF ResultMatches
  <2> QED BY <1>1, <1>4, <2>1, <2>2 DEF ResultOf
<1>5. CASE e.kind = "EodRun"
  <2>1. result = [kind |-> result.kind, asOf |-> result.asOf,
                  settledCount |-> result.settledCount,
                  stateVersion |-> result.stateVersion]
    BY <1>1, <1>5 DEF Results
  <2>2. /\ result.asOf = e.asOf
        /\ result.settledCount = SettledCount(r) - SettledCount(s)
    BY <1>1, <1>5 DEF ResultMatches
  <2> QED BY <1>1, <1>5, <2>1, <2>2 DEF ResultOf
<1> QED BY <1>1, <1>2, <1>3, <1>4, <1>5 DEF Kinds

(* An event of version 0 is of none of the trades.                         *)
LEMMA VersionZeroIsRefused ==
  ASSUME NEW s, BooksInv(s), NEW e, IsEvent(e), CommandError(s, e) = Ok
  PROVE  e \in Commands
<1>1. SUFFICES ASSUME e \notin Commands PROVE FALSE
  OBVIOUS
<1>2. PICK d : d = [e EXCEPT !.expectedVersion = 1]
  OBVIOUS
<1>3. "expectedVersion" \in DOMAIN e /\ e.expectedVersion = 0 /\ d \in Commands
  BY <1>1, <1>2 DEF IsEvent
<1>4. /\ DOMAIN d = DOMAIN e
      /\ \A x \in DOMAIN e : x # "expectedVersion" => d[x] = e[x]
  BY <1>2
<1>5. /\ "kind" \in DOMAIN d /\ "expectedVersion" \in DOMAIN d
      /\ d.kind \in {"TradeConfirmed", "TradeAmended", "TradeCancelled"}
  <2>1. "expectedVersion" \in DOMAIN d
    BY <1>3, <1>4
  <2> QED BY <1>3, <2>1 DEF Commands
<1>6. e.kind \in {"TradeConfirmed", "TradeAmended", "TradeCancelled"}
  BY <1>4, <1>5
<1>7. RequireCurrentError(s, e.tradeId, e.expectedVersion) = Ok
  BY <1>6 DEF CommandError, ConfirmTradeError, AmendTradeError, CancelTradeError, ??
<1>8. PICK key : key = <<e.tradeId, s.currentVersions[e.tradeId]>>
  OBVIOUS
<1>9. key \in DOMAIN s.trades /\ s.trades[key].version = 0
  BY <1>3, <1>7, <1>8 DEF RequireCurrentError, CurrentTrade, Fail, ??, Ok
<1>10. s.trades[key] \in Trades
  <2>1. StateOK(s)
    BY Meaning DEF BooksInv
  <2> QED BY <1>9, <2>1 DEF StateOK
<1>11. s.trades[key].version \in Versions
  BY <1>10 DEF Trades
<1> QED BY <1>9, <1>11 DEF Versions

(* What the evaluator checks besides the domain holds of an accepted       *)
(* command.                                                                *)
LEMMA EvaluatorPasses ==
  ASSUME NEW s, BooksInv(s), NEW c \in Commands, CommandError(s, c) = Ok
  PROVE  EvaluationError(s, c) = Ok
<1>1. PICK r : r = Prospective(s, c)
  OBVIOUS
<1>2. InvariantsHold(r)
  BY <1>1, CommandKeeps, BooksBalance
<1>3. ~(c.kind = "TradeAmended" /\ c.expectedVersion = MaxTradeVersion)
  <2>1. SUFFICES ASSUME c.kind = "TradeAmended" PROVE c.expectedVersion # MaxTradeVersion
    OBVIOUS
  <2>2. AmendTradeError(s, c) = Ok /\ DomainInv(s)
    BY <2>1 DEF CommandError, BooksInv
  <2>3. CurrentIsKnown(s)
    BY <2>2, CurrentKnown
  <2>4. PICK key, current : key = <<c.tradeId, c.expectedVersion>> /\ current = s.trades[key]
    OBVIOUS
  <2>5. /\ c.tradeId \in DOMAIN s.currentVersions
        /\ s.currentVersions[c.tradeId] = c.expectedVersion
        /\ current.version # MaxTradeVersion
    BY <2>2, <2>3, <2>4, AmendAccepted
  <2>6. current.version = c.expectedVersion
    BY <2>2, <2>4, <2>5, CommandKey
  <2> QED BY <2>5, <2>6
<1>4. ~(c.kind = "EodRun" /\ SettledCount(r) < SettledCount(s))
  <2>1. SUFFICES ASSUME c.kind = "EodRun" PROVE ~(SettledCount(r) < SettledCount(s))
    OBVIOUS
  <2>2. RunEodError(s, c) = Ok /\ r = RunEodResult(s, c) /\ DomainInv(s)
    BY <1>1, <2>1 DEF CommandError, Prospective, BooksInv
  <2>3. DomainInv(r) /\ (r = s \/ HistoryKept(s, r))
    BY <2>2, EodKeeps
  <2>4. PICK before, after :
          /\ before = {key \in DOMAIN s.trades : s.trades[key].state = "Settled"}
          /\ after = {key \in DOMAIN r.trades : r.trades[key].state = "Settled"}
    OBVIOUS
  <2>5. before \subseteq after
    BY <2>3, <2>4 DEF HistoryKept
  <2>6. IsFiniteSet(after)
    <3>1. IsFiniteSet(DOMAIN r.trades) /\ after \subseteq DOMAIN r.trades
      BY <2>3, <2>4 DEF DomainInv
    <3> QED BY <3>1, FS_Subset
  <2>7. /\ Cardinality(before) \in Nat /\ Cardinality(after) \in Nat
        /\ Cardinality(before) <= Cardinality(after)
    BY <2>5, <2>6, FS_Subset, FS_CardinalityType
  <2> QED BY <2>4, <2>7 DEF SettledCount
<1> QED BY <1>1, <1>2, <1>3, <1>4 DEF EvaluationError, Fail, ??, Ok

-----------------------------------------------------------------------------
(* The files that a server is started on.                                  *)

(* The states that batches lead through: a solution of the recursion.      *)
StateAt(F, g, n) == IF n = 0 THEN InitialState ELSE After(g[n - 1], F[n])
Unfolds(F, m, g) == g = [n \in 0..m |-> StateAt(F, g, n)]

LEMMA UnfoldsExists ==
  ASSUME NEW F, NEW m \in Nat
  PROVE  \E g : Unfolds(F, m, g)
<1> DEFINE T == {k \in 0..m : ~ \E g : Unfolds(F, k, g)}
<1>1. T = {}
  <2>1. SUFFICES ASSUME T # {} PROVE FALSE
    OBVIOUS
  <2>2. PICK k \in T : \A j \in T : k <= j
    <3>1. T \in SUBSET Nat
      OBVIOUS
    <3> HIDE DEF T
    <3> QED BY <2>1, <3>1, SmallestNumber
  <2>3. k # 0
    <3>1. PICK g : g = [n \in 0..0 |-> InitialState]
      OBVIOUS
    <3>2. Unfolds(F, 0, g)
      BY <3>1 DEF Unfolds, StateAt
    <3> QED BY <3>2
  <2>4. k - 1 \in 0..m /\ k - 1 \notin T
    BY <2>2, <2>3
  <2>5. PICK g : Unfolds(F, k - 1, g)
    BY <2>4
  <2>6. PICK h : h = [n \in 0..k |-> IF n = k THEN After(g[k - 1], F[k]) ELSE g[n]]
    OBVIOUS
  <2>7. ASSUME NEW n \in 0..k PROVE h[n] = StateAt(F, h, n)
    <3>1. CASE n = k
      <4>1. h[n] = After(g[k - 1], F[k]) /\ h[k - 1] = g[k - 1]
        BY <2>3, <2>4, <2>6, <3>1
      <4> QED BY <2>3, <3>1, <4>1 DEF StateAt
    <3>2. CASE n # k
      <4>1. n \in 0..(k - 1)
        BY <3>2
      <4>2. h[n] = g[n] /\ (n # 0 => h[n - 1] = g[n - 1])
        BY <2>6, <4>1
      <4>3. g[n] = StateAt(F, g, n)
        BY <2>5, <4>1 DEF Unfolds
      <4> QED BY <4>2, <4>3 DEF StateAt
    <3> QED BY <3>1, <3>2
  <2>8. h = [n \in 0..k |-> h[n]]
    BY <2>6
  <2>9. h = [n \in 0..k |-> StateAt(F, h, n)]
    BY <2>7, <2>8
  <2>10. Unfolds(F, k, h)
    BY <2>9 DEF Unfolds
  <2> QED BY <2>2, <2>10
<1>2. m \in 0..m /\ m \notin T
  BY <1>1
<1> QED BY <1>2

Leads(F, states) ==
  /\ IsSeq(states) /\ Len(states) = Len(F) + 1
  /\ states[1] = InitialState
  /\ \A i \in 1..Len(F) : states[i + 1] = After(states[i], F[i])

LEMMA BatchesLead ==
  ASSUME NEW F, IsSeq(F), NEW states, states = StatesOf(F)
  PROVE  Leads(F, states)
<1>1. PICK m \in Nat : m = Len(F)
  BY SeqFacts
<1>2. PICK g : g = CHOOSE h : Unfolds(F, m, h)
  OBVIOUS
<1>3. Unfolds(F, m, g)
  BY <1>2, UnfoldsExists
<1>4. states = [n \in 1..(m + 1) |-> g[n - 1]]
  BY <1>1, <1>2 DEF StatesOf, Unfolds, StateAt
<1>5. \A n \in 0..m : g[n] = StateAt(F, g, n)
  BY <1>3 DEF Unfolds
<1>6. IsSeq(states) /\ Len(states) = m + 1
  <2>1. DOMAIN states = 1..(m + 1) /\ states = [n \in 1..(m + 1) |-> states[n]]
    BY <1>4
  <2> QED BY <2>1, SeqMade
<1>7. states[1] = InitialState
  BY <1>4, <1>5 DEF StateAt
<1>8. ASSUME NEW i \in 1..m PROVE states[i + 1] = After(states[i], F[i])
  <2>1. states[i + 1] = g[i] /\ states[i] = g[i - 1]
    BY <1>4
  <2>2. g[i] = After(g[i - 1], F[i])
    BY <1>5 DEF StateAt
  <2> QED BY <2>1, <2>2
<1> QED BY <1>1, <1>6, <1>7, <1>8 DEF Leads

(* Batches that decode_payload returns.                                    *)
Decodes(J) == IsSeq(J) /\ \A i \in 1..Len(J) : IsBatch(J[i])

(* A batch with one event leads on by applying it.                         *)
Applied(s, b, r) ==
  Len(b.events) = 1 /\ ApplyEventError(s, b.events[1]) = Ok =>
    r = ApplyEvent(s, b.events[1])

LeadsThrough(J, states) ==
  /\ IsSeq(states) /\ Len(states) = Len(J) + 1
  /\ states[1] = InitialState
  /\ \A i \in 1..Len(J) : Applied(states[i], J[i], states[i + 1])

LEMMA FileIsFrames ==
  ASSUME NEW f \in Journals
  PROVE  IsSeq(f) /\ Frames(f)
<1>1. IsSeq(f)
  BY JournalsAreFrames DEF IsList, IsSeq
<1>2. DOMAIN f = 1..Len(f)
  BY <1>1, SeqFacts
<1>3. ASSUME NEW i \in 1..Len(f)
      PROVE  f[i].complete \/ f[i] \in {TornFrame, CorruptFrame}
  <2>1. f[i] \in {TornFrame, CorruptFrame} \/ f[i] = Frame(f[i].batch)
    BY <1>2, JournalsAreFrames
  <2> QED BY <2>1 DEF Frame
<1> QED BY <1>1, <1>3 DEF Frames

(* What a scan finds in it, wherever it stops.                             *)
LEMMA FileDecodes ==
  ASSUME NEW f \in Journals, NEW J, J = BatchesOf(f),
         NEW states, states = StatesOf(J)
  PROVE  Decodes(J) /\ LeadsThrough(J, states)
<1>1. IsSeq(f)
  BY FileIsFrames
<1>2. PICK n : Stops(f, n)
  BY <1>1, ScanStops
<1>3. ReadsAs(f, n, J)
  BY <1>1, <1>2, BatchesRead
<1>4. IsSeq(J) /\ Len(J) = n /\ \A i \in 1..n : J[i] = f[i].batch
  BY <1>3 DEF ReadsAs
<1>5. ASSUME NEW i \in 1..n PROVE IsBatch(J[i])
  <2>1. i \in DOMAIN f /\ f[i].complete
    BY <1>2 DEF Stops, Readable
  <2>2. f[i] \notin {TornFrame, CorruptFrame}
    BY <2>1 DEF TornFrame, CorruptFrame
  <2>3. IsBatch(f[i].batch)
    BY <2>1, <2>2, JournalsAreFrames
  <2> QED BY <1>4, <2>3
<1>6. Leads(J, states)
  BY <1>4, BatchesLead
<1>7. ASSUME NEW i \in 1..Len(J) PROVE Applied(states[i], J[i], states[i + 1])
  <2>1. states[i + 1] = After(states[i], J[i])
    BY <1>6 DEF Leads
  <2> QED BY <2>1 DEF After, Applies, Applied
<1> QED BY <1>4, <1>5, <1>6, <1>7 DEF Decodes, LeadsThrough, Leads

-----------------------------------------------------------------------------
(* From the file to the invariant of the service.  It need not be one that *)
(* the service wrote: until a start has accepted all of it nothing is      *)
(* served (Undecided), and then the batches lead from state to state as    *)
(* those do that were executed (Inv).                                      *)

(* Replay has accepted the first p batches.                                *)
Vetted(p, J, states) ==
  /\ p \in 0..Len(J)
  /\ \A i \in 1..p : Replays(J[i], i, states[i], states[i + 1])
  /\ \A i \in 1..(p + 1) : BooksInv(states[i])
  /\ \A i, j \in 1..(p + 1) : i <= j => Follows(states[j], states[i])

Unserved ==
  /\ snapshot = InitialState /\ idempotency = EmptyMap /\ nextSequence = 1
  /\ threads = AllIdle /\ seen = InitialState

Refused ==
  /\ phase = "down" /\ ~writable /\ recovered = NothingRecovered
  /\ startError \notin {Ok, "StoreFailure"} => ~CouldBeOwn

BeingVetted ==
  /\ phase = "recovering" /\ writable /\ startError = Ok
  /\ Sound(file) /\ ~IsTorn(file) /\ RequestError(Journal) = Ok
  /\ Replaying(recovered, Journal, past)
  /\ Vetted(recovered.position, Journal, past)

(* No start has accepted the file yet.                                     *)
Undecided ==
  /\ Frames(file) /\ Decodes(Journal) /\ LeadsThrough(Journal, past)
  /\ Unserved
  /\ Refused \/ BeingVetted

LEMMA NothingVetted ==
  ASSUME NEW J, IsSeq(J), NEW states, states[1] = InitialState
  PROVE  Vetted(0, J, states)
<1>1. BooksInv(InitialState) /\ Follows(InitialState, InitialState)
  BY EmptyBooks, FollowsItself
<1>2. 0 \in 0..Len(J)
  BY SeqFacts
<1>3. \A i \in 1..(0 + 1) : states[i] = InitialState
  OBVIOUS
<1>4. \A i, j \in 1..(0 + 1) : Follows(states[j], states[i])
  BY <1>1, <1>3
<1>5. \A i \in 1..(0 + 1) : BooksInv(states[i])
  BY <1>1, <1>3
<1> QED BY <1>2, <1>4, <1>5 DEF Vetted

LEMMA OneMoreVetted ==
  ASSUME NEW J, IsSeq(J), NEW states, NEW p \in Nat, Vetted(p, J, states),
         p + 1 <= Len(J), Replays(J[p + 1], p + 1, states[p + 1], states[p + 2])
  PROVE  Vetted(p + 1, J, states)
<1>1. PICK s, r : s = states[p + 1] /\ r = states[p + 2]
  OBVIOUS
<1>2. p + 1 \in 1..(p + 1) /\ Len(J) \in Nat
  BY SeqFacts
<1>3. BooksInv(s)
  BY <1>1, <1>2 DEF Vetted
<1>4. BooksInv(r) /\ Follows(r, s) /\ Follows(r, r)
  BY <1>1, <1>3, ReplaysKeeps, FollowsItself
<1>5. ASSUME NEW i \in 1..((p + 1) + 1) PROVE BooksInv(states[i])
  <2>1. CASE i = p + 2
    BY <1>1, <1>4, <2>1
  <2>2. CASE i # p + 2
    <3>1. i \in 1..(p + 1)
      BY <2>2
    <3> QED BY <3>1 DEF Vetted
  <2> QED BY <2>1, <2>2
<1>6. ASSUME NEW i \in 1..((p + 1) + 1), NEW j \in 1..((p + 1) + 1), i <= j
      PROVE  Follows(states[j], states[i])
  <2>1. CASE j # p + 2
    <3>1. i \in 1..(p + 1) /\ j \in 1..(p + 1)
      BY <1>6, <2>1
    <3> QED BY <1>6, <3>1 DEF Vetted
  <2>2. CASE j = p + 2 /\ i = p + 2
    BY <1>1, <1>4, <2>2
  <2>3. CASE j = p + 2 /\ i # p + 2
    <3>1. i \in 1..(p + 1) /\ i <= p + 1
      BY <2>3
    <3>2. PICK a : a = states[i]
      OBVIOUS
    <3>3. Follows(s, a) /\ BooksInv(a)
      BY <1>1, <1>2, <3>1, <3>2 DEF Vetted
    <3>4. Follows(r, a)
      BY <1>3, <1>4, <3>3, FollowsOn
    <3> QED BY <1>1, <2>3, <3>2, <3>4
  <2> QED BY <2>1, <2>2, <2>3
<1>7. ASSUME NEW i \in 1..(p + 1) PROVE Replays(J[i], i, states[i], states[i + 1])
  <2>1. CASE i = p + 1
    <3>1. i + 1 = p + 2
      BY <2>1
    <3> QED BY <2>1, <3>1
  <2>2. CASE i # p + 1
    <3>1. i \in 1..p
      BY <2>2
    <3> QED BY <3>1 DEF Vetted
  <2> QED BY <2>1, <2>2
<1>8. p + 1 \in 0..Len(J)
  BY <1>2
<1> QED BY <1>5, <1>6, <1>7, <1>8 DEF Vetted

(* A batch that replay accepts is a command and its answer.                *)
LEMMA AcceptedReplays ==
  ASSUME NEW b, IsBatch(b), NEW n, NEW s, BooksInv(s), NEW r, Applied(s, b, r),
         b.request.commandId = b.commandId,
         Len(b.events) = 1 => b.request.command.kind = b.events[1].kind,
         ReplayError(b, n, s) = Ok
  PROVE  Replays(b, n, s, r) /\ r = ApplyEvent(s, b.events[1])
<1>1. /\ b.sequence = n /\ Len(b.events) = 1 /\ ApplyEventError(s, b.events[1]) = Ok
      /\ ResultMatches(b.result, b.events[1], s, ApplyEvent(s, b.events[1]))
  BY DEF ReplayError, Fail, ??, Ok
<1>2. PICK e : e = b.events[1]
  OBVIOUS
<1>3. r = Prospective(s, e) /\ r = ApplyEvent(s, e) /\ CommandError(s, e) = Ok
  BY <1>1, <1>2 DEF Applied, ApplyEvent, ApplyEventError
<1>4. IsSeq(b.events) /\ \A i \in DOMAIN b.events : IsEvent(b.events[i])
  BY DEF IsBatch, IsList, IsSeq
<1>5. PICK es : es = b.events
  OBVIOUS
<1>6. es = <<e>> /\ IsEvent(e)
  <2>1. DOMAIN es = 1..1 /\ es = [i \in 1..1 |-> es[i]] /\ es[1] = e
    BY <1>1, <1>2, <1>4, <1>5, SeqFacts
  <2>2. es = <<e>>
    BY <2>1
  <2> QED BY <1>2, <1>4, <1>5, <2>1, <2>2
<1>7. e \in Commands
  BY <1>3, <1>6, VersionZeroIsRefused
<1>8. b.result \in Results
  BY DEF IsBatch
<1>9. b.result = ResultOf(s, e, r)
  BY <1>1, <1>2, <1>3, <1>7, <1>8, MatchIsAnswer
<1> QED BY <1>1, <1>2, <1>3, <1>5, <1>6, <1>7, <1>9 DEF Replays

(* One that it does not accept is none.                                    *)
LEMMA OwnBatchIsAccepted ==
  ASSUME NEW b, NEW n, NEW s, BooksInv(s), NEW r,
         b.sequence = n, Len(b.events) = 1,
         NEW c \in Commands, c = b.events[1],
         EvaluationError(s, c) = Ok, r = Prospective(s, c),
         b.result = ResultOf(s, c, r)
  PROVE  ReplayError(b, n, s) = Ok
<1>1. CommandError(s, c) = Ok
  BY DEF EvaluationError, Fail, ??, Ok
<1>2. ResultMatches(b.result, c, s, r)
  BY <1>1, AnswerMatches
<1>3. ApplyEventError(s, c) = Ok /\ ApplyEvent(s, c) = r
  BY <1>1 DEF ApplyEventError, ApplyEvent
<1> QED BY <1>2, <1>3 DEF ReplayError, Fail, ??

LEMMA ForeignStarts ==
  ASSUME ForeignInit
  PROVE  Undecided
<1>1. /\ file \in Journals /\ past = StatesOf(Journal)
      /\ phase = "down" /\ startError = Ok /\ recovered = NothingRecovered
      /\ writable = FALSE /\ snapshot = InitialState /\ idempotency = EmptyMap
      /\ nextSequence = 1 /\ threads = AllIdle /\ seen = InitialState
  BY DEF ForeignInit, FreshProcess
<1>2. Frames(file)
  BY <1>1, FileIsFrames
<1>3. PICK J, states : J = BatchesOf(file) /\ J = Journal /\ states = past
  BY DEF Journal
<1>4. Decodes(J) /\ LeadsThrough(J, states)
  BY <1>1, <1>3, FileDecodes
<1> QED BY <1>1, <1>2, <1>3, <1>4 DEF Undecided, Unserved, Refused

(* Nobody reads or executes anything.                                      *)
LEMMA NothingIsServed ==
  ASSUME Undecided
  PROVE  /\ phase # "serving"
         /\ \A t \in Threads : threads[t].pc = "idle"
         /\ ~Read /\ \A t \in Threads : ~Execute(t)
<1>1. phase # "serving"
  BY DEF Undecided, Refused, BeingVetted
<1>2. \A t \in Threads : threads[t].pc = "idle"
  BY DEF Undecided, Unserved, AllIdle, Idle
<1>3. ~Read
  BY <1>1 DEF Read
<1>4. \A t \in Threads : ~Execute(t)
  BY <1>1, <1>2 DEF Execute, Call, CallWith, Work, AnswerAgain, Refuse, BeginAppend,
                    AppendSucceeds, AppendFails, Publish, Return
<1> QED BY <1>1, <1>2, <1>3, <1>4

(* What the scan reads of the file stays as it is, also when a start cuts  *)
(* it, and with it all that is decided about the file.                     *)
LEMMA FileStays ==
  ASSUME Undecided, file' = file \/ file' = TruncateTail(file), past' = past
  PROVE  /\ Frames(file)' /\ Journal' = Journal /\ CouldBeOwn' = CouldBeOwn
         /\ Decodes(Journal)' /\ LeadsThrough(Journal, past)'
<1>1. Frames(file) /\ Decodes(Journal) /\ LeadsThrough(Journal, past)
  BY DEF Undecided
<1>2. Frames(file)' /\ Journal' = Journal /\ ScanError(file') = ScanError(file)
  <2>1. CASE file' = file
    BY <1>1, <2>1 DEF Journal
  <2>2. CASE file' = TruncateTail(file)
    <3>1. PICK t : t = TruncateTail(file)
      OBVIOUS
    <3>2. IsCutTo(file, t)
      BY <1>1, <3>1, ScanIsCut
    <3>3. Frames(t) /\ BatchesOf(t) = BatchesOf(file) /\ ScanError(t) = ScanError(file)
      BY <3>2 DEF IsCutTo
    <3> QED BY <2>2, <3>1, <3>3 DEF Journal
  <2> QED BY <2>1, <2>2
<1>3. CouldBeOwn' = CouldBeOwn
  BY <1>2 DEF CouldBeOwn, CommandsAreJournaledOnce, ExecutedInOrder
<1> QED BY <1>1, <1>2, <1>3

LEMMA CrashDecides ==
  ASSUME Undecided, Crash
  PROVE  Undecided'
<1>1. ~\E t \in Threads : threads[t].pc = "appending"
  BY NothingIsServed
<1>2. /\ file' = file /\ past' = past /\ phase' = "down" /\ startError' = Ok
      /\ recovered' = NothingRecovered /\ writable' = FALSE
      /\ snapshot' = InitialState /\ idempotency' = EmptyMap /\ nextSequence' = 1
      /\ threads' = AllIdle /\ seen' = seen
  BY <1>1 DEF Crash, Stop
<1>3. Unserved' /\ Refused'
  BY <1>2 DEF Undecided, Unserved, Refused
<1> QED BY <1>2, <1>3, FileStays DEF Undecided

(* A start is given up for a reason, and then the file is not one that the *)
(* service could have written.                                             *)
LEMMA StopRefuses ==
  ASSUME Undecided, NEW error, error \in {Ok, "StoreFailure"} \/ ~CouldBeOwn,
         Stop(error), file' = file, past' = past
  PROVE  Undecided'
<1>1. Unserved' /\ Refused'
  BY FileStays DEF Stop, Undecided, Unserved, Refused
<1> QED BY <1>1, FileStays DEF Undecided

LEMMA CreateDecides ==
  ASSUME Undecided, Create
  PROVE  Undecided' /\ Journal' = Journal
<1>1. PICK readable, resizable, recoveryError, error :
        /\ recoveryError = RecoveryError(file, readable, resizable)
        /\ error = recoveryError ?? RequestError(Journal)
        /\ phase = "down" /\ startError' = error
        /\ file' = IF recoveryError = Ok THEN TruncateTail(file) ELSE file
        /\ IF error # Ok
           THEN UNCHANGED <<phase, recovered, service>>
           ELSE /\ phase' = "recovering"
                /\ recovered' = [NothingRecovered EXCEPT !.batches = Journal]
                /\ writable' = TRUE
                /\ UNCHANGED <<snapshot, idempotency, nextSequence>>
        /\ UNCHANGED <<threads, seen, past>>
  BY DEF Create, Journal
<1>2. /\ Unserved /\ ~writable /\ recovered = NothingRecovered
      /\ Frames(file) /\ Decodes(Journal) /\ LeadsThrough(Journal, past)
  BY <1>1 DEF Undecided, Refused, BeingVetted
<1>3. /\ Frames(file)' /\ Journal' = Journal /\ CouldBeOwn' = CouldBeOwn
      /\ Decodes(Journal)' /\ LeadsThrough(Journal, past)'
  BY <1>1, FileStays
<1>4. CASE error # Ok
  <2>1. /\ phase' = "down" /\ startError' = error
        /\ recovered' = recovered /\ writable' = writable
        /\ snapshot' = snapshot /\ idempotency' = idempotency
        /\ nextSequence' = nextSequence /\ threads' = threads /\ seen' = seen
    BY <1>1, <1>4 DEF service
  <2>2. error = "StoreFailure" \/ ScanError(file) # Ok \/ RequestError(Journal) # Ok
    BY <1>1, <1>4 DEF RecoveryError, Fail, ??
  <2>3. error \notin {Ok, "StoreFailure"} => ~CouldBeOwn
    BY <2>2 DEF CouldBeOwn
  <2>4. Unserved' /\ Refused'
    BY <1>2, <1>3, <2>1, <2>3 DEF Unserved, Refused
  <2> QED BY <1>3, <2>4 DEF Undecided
<1>5. CASE error = Ok
  <2>1. recoveryError = Ok /\ RequestError(Journal) = Ok
    BY <1>1, <1>5 DEF ??, Ok
  <2>2. /\ file' = TruncateTail(file) /\ past' = past
        /\ phase' = "recovering" /\ writable' = TRUE /\ startError' = Ok
        /\ recovered' = [NothingRecovered EXCEPT !.batches = Journal]
        /\ snapshot' = snapshot /\ idempotency' = idempotency
        /\ nextSequence' = nextSequence /\ threads' = threads /\ seen' = seen
    BY <1>1, <1>5, <2>1
  <2>3. ScanError(file) = Ok
    BY <1>1, <2>1 DEF RecoveryError, Fail, ??, Ok
  <2>4. Sound(file') /\ ~IsTorn(file')
    <3>1. PICK t : t = TruncateTail(file)
      OBVIOUS
    <3>2. IsCutTo(file, t)
      BY <1>2, <3>1, ScanIsCut
    <3> QED BY <2>2, <2>3, <3>1, <3>2 DEF IsCutTo
  <2>5. PICK J, r, states : J = Journal /\ r = recovered' /\ states = past
    OBVIOUS
  <2>6. IsSeq(J) /\ states[1] = InitialState /\ Len(J) \in Nat
    BY <1>2, <2>5, SeqFacts DEF Decodes, LeadsThrough
  <2>7. r = [batches |-> J, position |-> 0, state |-> InitialState]
    BY <2>2, <2>5 DEF NothingRecovered
  <2>8. r.position = 0 /\ r.state = InitialState /\ r.batches = J
    BY <2>7
  <2>9. Replaying(r, J, states)
    BY <2>6, <2>7, <2>8 DEF Replaying
  <2>10. Vetted(r.position, J, states)
    BY <2>6, <2>8, NothingVetted
  <2>11. BeingVetted'
    BY <1>3, <2>1, <2>2, <2>4, <2>5, <2>9, <2>10 DEF BeingVetted
  <2>12. Unserved'
    BY <1>2, <2>2 DEF Unserved
  <2> QED BY <1>3, <2>11, <2>12 DEF Undecided
<1> QED BY <1>3, <1>4, <1>5

(* Replay goes on only after a batch that was executed.                    *)
LEMMA ReplayDecides ==
  ASSUME Undecided, ReplayBatch
  PROVE  Undecided' /\ Journal' = Journal
<1>1. PICK position, batch, error :
        /\ position = recovered.position + 1
        /\ batch = recovered.batches[position]
        /\ error = ReplayError(batch, position, recovered.state)
  OBVIOUS
<1>2. /\ phase = "recovering" /\ position <= Len(recovered.batches)
      /\ file' = file /\ past' = past
      /\ IF error # Ok
         THEN Stop(error)
         ELSE /\ recovered' =
                   [recovered EXCEPT
                      !.position = position,
                      !.state = ApplyEvent(recovered.state, batch.events[1])]
              /\ UNCHANGED <<phase, startError, service, threads, seen>>
  BY <1>1 DEF ReplayBatch
<1>3. PICK J, states : J = Journal /\ states = past
  OBVIOUS
<1>4. Journal' = Journal
  BY <1>2 DEF Journal
<1>5. BeingVetted
  BY <1>2 DEF Undecided, Refused
<1>6. /\ writable /\ startError = Ok /\ Sound(file) /\ ~IsTorn(file)
      /\ RequestError(J) = Ok
      /\ Replaying(recovered, J, states) /\ Vetted(recovered.position, J, states)
      /\ Decodes(J) /\ LeadsThrough(J, states)
  BY <1>3, <1>5 DEF BeingVetted, Undecided
<1>7. PICK p \in Nat : /\ p = recovered.position /\ position = p + 1
                       /\ p + 1 <= Len(J) /\ p + 1 \in 1..Len(J)
  <2>1. recovered.batches = J /\ recovered.position \in 0..Len(J)
    BY <1>6 DEF Replaying
  <2>2. Len(J) \in Nat
    BY <1>6, SeqFacts DEF Decodes
  <2> QED BY <1>1, <1>2, <2>1, <2>2
<1>8. /\ recovered = [batches |-> J, position |-> p, state |-> states[p + 1]]
      /\ recovered.batches = J /\ recovered.state = states[p + 1]
  BY <1>6, <1>7 DEF Replaying
<1>9. PICK s, r : s = states[p + 1] /\ r = states[p + 2]
  OBVIOUS
<1>10. batch = J[p + 1] /\ error = ReplayError(batch, p + 1, s)
  BY <1>1, <1>7, <1>8, <1>9
<1>11. BooksInv(s)
  BY <1>6, <1>7, <1>9 DEF Vetted
<1>12. IsBatch(batch) /\ Applied(s, batch, r)
  <2>1. (p + 1) + 1 = p + 2
    OBVIOUS
  <2> QED BY <1>6, <1>7, <1>9, <1>10, <2>1 DEF Decodes, LeadsThrough
<1>13. CASE error # Ok
  <2>1. ASSUME CouldBeOwn PROVE FALSE
    <3>1. p + 1 \in DOMAIN J
      BY <1>6, <1>7, SeqFacts DEF Decodes
    <3>2. batch.sequence = p + 1
      BY <1>3, <1>10, <2>1, <3>1 DEF CouldBeOwn, CommandsAreJournaledOnce
    <3>3. PICK c : c = batch.events[1]
      OBVIOUS
    <3>4. /\ Len(batch.events) = 1 /\ c \in Commands
          /\ EvaluationError(s, c) = Ok /\ r = Prospective(s, c)
          /\ batch.result = ResultOf(s, c, r)
      <4>1. (p + 1) + 1 = p + 2
        OBVIOUS
      <4> QED BY <1>3, <1>9, <1>10, <2>1, <3>1, <3>3, <4>1 DEF CouldBeOwn, ExecutedInOrder
    <3>5. ReplayError(batch, p + 1, s) = Ok
      BY <1>11, <3>2, <3>3, <3>4, OwnBatchIsAccepted
    <3> QED BY <1>10, <1>13, <3>5
  <2> QED BY <1>2, <1>4, <1>13, <2>1, StopRefuses
<1>14. CASE error = Ok
  <2>1. /\ batch.request.commandId = batch.commandId
        /\ Len(batch.events) = 1 => batch.request.command.kind = batch.events[1].kind
    <3>1. p + 1 \in DOMAIN J
      BY <1>6, <1>7, SeqFacts DEF Decodes
    <3> QED BY <1>6, <1>10, <3>1 DEF RequestError, Fail, Ok
  <2>2. Replays(batch, p + 1, s, r) /\ r = ApplyEvent(s, batch.events[1])
    BY <1>10, <1>11, <1>12, <1>14, <2>1, AcceptedReplays
  <2>3. Vetted(p + 1, J, states)
    <3>1. IsSeq(J)
      BY <1>6 DEF Decodes
    <3> QED BY <1>6, <1>7, <1>9, <1>10, <2>2, <3>1, OneMoreVetted
  <2>4. /\ recovered' = [batches |-> J, position |-> p + 1, state |-> r]
        /\ phase' = phase /\ startError' = startError /\ writable' = writable
        /\ snapshot' = snapshot /\ idempotency' = idempotency
        /\ nextSequence' = nextSequence /\ threads' = threads /\ seen' = seen
    <3>1. recovered' = [recovered EXCEPT !.position = p + 1, !.state = r]
      BY <1>2, <1>7, <1>8, <1>9, <1>14, <2>2
    <3> QED BY <1>2, <1>8, <1>14, <3>1 DEF service
  <2>5. PICK q : q = recovered'
    OBVIOUS
  <2>6. q = [batches |-> J, position |-> p + 1, state |-> r] /\ q.position = p + 1
    BY <2>4, <2>5
  <2>7. Replaying(q, J, states)
    <3>1. (p + 1) + 1 = p + 2 /\ p + 1 \in 0..Len(J)
      BY <1>7
    <3> QED BY <1>9, <2>6, <3>1 DEF Replaying
  <2>8. BeingVetted'
    BY <1>2, <1>3, <1>4, <1>6, <2>3, <2>4, <2>5, <2>6, <2>7 DEF BeingVetted
  <2>9. Unserved'
    BY <2>4 DEF Undecided, Unserved
  <2> QED BY <1>2, <2>8, <2>9, FileStays DEF Undecided
<1> QED BY <1>4, <1>13, <1>14

(* A journal whose batches replay has all accepted, under as many          *)
(* identifiers, is what the service calls recorded.                        *)
LEMMA VettedIsRecorded ==
  ASSUME NEW J, Decodes(J), NEW states, LeadsThrough(J, states),
         Vetted(Len(J), J, states), Distinct(J)
  PROVE  Recorded(J, states)
<1>1. IsSeq(J) /\ Len(J) \in Nat /\ Len(states) = Len(J) + 1
  BY SeqFacts DEF Decodes, LeadsThrough
<1>2. PICK n \in Nat : n = Len(J)
  BY <1>1
<1>3. n <= MaxSequence
  <2>1. CASE n = 0
    BY <2>1, SequenceWidth
  <2>2. CASE n # 0
    <3>1. n \in 1..n /\ n \in 1..Len(J)
      BY <1>2, <2>2
    <3>2. Replays(J[n], n, states[n], states[n + 1])
      BY <1>2, <3>1 DEF Vetted
    <3>3. J[n].sequence = n /\ J[n].sequence \in 1..MaxSequence
      BY <3>1, <3>2 DEF Replays, Decodes, IsBatch
    <3> QED BY <3>3, SequenceWidth
  <2> QED BY <2>1, <2>2
<1> QED BY <1>1, <1>2, <1>3 DEF Recorded, Vetted, LeadsThrough

LEMMA FinishDecides ==
  ASSUME Undecided, FinishRecovery
  PROVE  (Undecided' \/ InvAt(0)) /\ Journal' = Journal
<1>1. PICK J, states : J = Journal /\ states = past
  OBVIOUS
<1>2. /\ phase = "recovering" /\ recovered.position = Len(recovered.batches)
      /\ file' = file /\ past' = past
  BY DEF FinishRecovery
<1>3. Journal' = Journal
  BY <1>2 DEF Journal
<1>4. BeingVetted
  BY <1>2 DEF Undecided, Refused
<1>5. /\ writable /\ startError = Ok /\ Sound(file) /\ ~IsTorn(file)
      /\ Replaying(recovered, J, states) /\ Vetted(recovered.position, J, states)
      /\ Decodes(J) /\ LeadsThrough(J, states) /\ Unserved
  BY <1>1, <1>4 DEF BeingVetted, Undecided
<1>6. recovered.batches = J /\ recovered.position = Len(J)
  BY <1>2, <1>5 DEF Replaying
<1>7. IsSeq(J) /\ Len(J) \in Nat /\ DOMAIN J = 1..Len(J) /\ Len(states) = Len(J) + 1
  BY <1>5, SeqFacts DEF Decodes, LeadsThrough
<1>8. CASE ~Distinct(J)
  <2>1. DuplicateError(J) = "DuplicateJournalCommandId"
    BY <1>7, <1>8 DEF Distinct, DuplicateError, Fail
  <2>2. ~CouldBeOwn
    BY <1>1, <1>7, <1>8 DEF CouldBeOwn, CommandsAreJournaledOnce, Distinct
  <2>3. PICK error : error = (TotalsError(recovered.state) ?? DuplicateError(J))
    OBVIOUS
  <2>4. error # Ok
    BY <2>1, <2>3 DEF TotalsError, Fail, ??, Ok
  <2>5. Stop(error)
    BY <1>6, <2>3, <2>4 DEF FinishRecovery
  <2> QED BY <1>2, <1>3, <2>2, <2>5, StopRefuses
<1>9. CASE Distinct(J)
  <2>1. Recorded(J, states)
    BY <1>5, <1>6, <1>9, VettedIsRecorded
  <2>2. ServesAt(0, J, states, InitialState, EmptyMap, 1)
    BY <2>1, ServesNone
  <2>3. ServesAt(0, Journal, past, snapshot, idempotency, nextSequence)
    BY <1>1, <1>5, <2>2 DEF Unserved
  <2>4. ThreadsOK(0, Journal, past, writable, threads)
    BY <1>5, IdleIsOK DEF Unserved
  <2>5. PhaseOK(0, Journal, past)
    BY <1>1, <1>2, <1>5 DEF PhaseOK, Unserved
  <2>6. SeenOK(0, past)
    <3>1. 1 \in 1..Len(states) /\ seen = states[1]
      BY <1>5, <1>7 DEF Unserved, LeadsThrough
    <3> QED BY <1>1, <1>2, <3>1 DEF SeenOK
  <2> QED BY <1>1, <1>3, <1>5, <2>1, <2>3, <2>4, <2>5, <2>6 DEF InvAt
<1> QED BY <1>8, <1>9

-----------------------------------------------------------------------------
(* Every step, from whatever file.                                         *)

ForeignInv == Undecided \/ Inv

LEMMA ForeignStep ==
  ASSUME ForeignInv, [Next]_vars
  PROVE  ForeignInv'
<1>1. CASE Inv
  BY <1>1, StepKeeps DEF Inv, ForeignInv
<1>2. CASE Undecided
  <2>1. CASE \/ \E t \in Threads : Execute(t)
             \/ Read
    BY <1>2, <2>1, NothingIsServed
  <2>2. CASE Crash
    BY <1>2, <2>2, CrashDecides DEF ForeignInv
  <2>3. CASE Create
    BY <1>2, <2>3, CreateDecides DEF ForeignInv
  <2>4. CASE ReplayBatch
    BY <1>2, <2>4, ReplayDecides DEF ForeignInv
  <2>5. CASE FinishRecovery
    <3>1. CASE Undecided'
      BY <3>1 DEF ForeignInv
    <3>2. CASE InvAt(0)
      BY <2>5, <3>2, FinishKeeps DEF Inv, ForeignInv
    <3> QED BY <1>2, <2>5, <3>1, <3>2, FinishDecides
  <2>6. CASE UNCHANGED vars
    <3>1. /\ file' = file /\ phase' = phase /\ startError' = startError
          /\ recovered' = recovered /\ writable' = writable
          /\ snapshot' = snapshot /\ idempotency' = idempotency
          /\ nextSequence' = nextSequence /\ threads' = threads
          /\ seen' = seen /\ past' = past
      BY <2>6 DEF vars, service
    <3>2. Unserved'
      BY <1>2, <3>1 DEF Undecided, Unserved
    <3>3. Refused' \/ BeingVetted'
      BY <1>2, <3>1, FileStays DEF Undecided, Refused, BeingVetted
    <3> QED BY <1>2, <3>1, <3>2, <3>3, FileStays DEF Undecided, ForeignInv
  <2> QED BY <2>1, <2>2, <2>3, <2>4, <2>5, <2>6 DEF Next
<1> QED BY <1>1, <1>2 DEF ForeignInv

(* A server on any file has either accepted no more than a part of it and  *)
(* shown nothing to anyone, or is as if it had written the file itself.    *)
THEOREM AnyJournalIsVetted == ForeignSpec => []ForeignInv
<1>1. ForeignInit => ForeignInv
  BY ForeignStarts DEF ForeignInv
<1>2. ForeignInv /\ [Next]_vars => ForeignInv'
  BY ForeignStep
<1> QED BY <1>1, <1>2, PTL DEF ForeignSpec

(* What the service could have written.                                    *)
LEMMA RecordedIsOwn ==
  ASSUME NEW n, InvAt(n)
  PROVE  CouldBeOwn
<1>1. PICK J, states : J = Journal /\ states = past
  OBVIOUS
<1>2. Recorded(J, states)
  BY <1>1 DEF InvAt
<1>3. DOMAIN J = 1..Len(J) /\ Len(J) \in Nat /\ Len(states) = Len(J) + 1
  BY <1>2, SeqFacts DEF Recorded
<1>4. ScanError(file) = Ok
  BY TailIsCut DEF InvAt
<1>5. RequestError(Journal) = Ok
  BY <1>1, <1>2, RequestsPass
<1>6. CommandsAreJournaledOnce
  BY InvOnce
<1>7. ExecutedInOrder
  <2>1. ASSUME NEW i \in DOMAIN J
        PROVE  LET c == J[i].events[1]
               IN  /\ Len(J[i].events) = 1
                   /\ c \in Commands
                   /\ EvaluationError(states[i], c) = Ok
                   /\ states[i + 1] = Prospective(states[i], c)
                   /\ J[i].result = ResultOf(states[i], c, states[i + 1])
    <3>1. PICK s, r : s = states[i] /\ r = states[i + 1]
      OBVIOUS
    <3>2. Replays(J[i], i, s, r) /\ BooksInv(s)
      <4>1. i \in 1..Len(states)
        BY <1>3
      <4> QED BY <1>2, <1>3, <3>1, <4>1 DEF Recorded
    <3>3. PICK c \in Commands :
            /\ J[i].events = <<c>> /\ J[i].result = ResultOf(s, c, r)
            /\ CommandError(s, c) = Ok /\ r = Prospective(s, c)
      BY <3>2 DEF Replays
    <3>4. EvaluationError(s, c) = Ok
      BY <3>2, <3>3, EvaluatorPasses
    <3>5. Len(J[i].events) = 1 /\ J[i].events[1] = c
      BY <3>3
    <3> QED BY <3>1, <3>3, <3>4, <3>5
  <2> QED BY <1>1, <2>1 DEF ExecutedInOrder
<1> QED BY <1>4, <1>5, <1>6, <1>7 DEF CouldBeOwn

(* Recovery is exact: it serves what the scan reads of a file, up to the   *)
(* first frame that ends behind the end of it, if and only if the service  *)
(* could have written that; where the scan meets a corrupt frame it serves *)
(* nothing.                                                                *)
THEOREM RecoveryIsExact == ForeignSpec => []AcceptanceIsExact
<1>1. Inv => AcceptanceIsExact
  <2>1. ASSUME NEW n, InvAt(n) PROVE AcceptanceIsExact
    BY <2>1, RecordedIsOwn DEF InvAt, AcceptanceIsExact
  <2> QED BY <2>1 DEF Inv
<1>2. Undecided => AcceptanceIsExact
  BY DEF Undecided, Refused, BeingVetted, AcceptanceIsExact
<1> QED BY <1>1, <1>2, AnyJournalIsVetted, PTL DEF ForeignInv

(* What the invariant says of the journal's users.                         *)
LEMMA InvTrusts == Inv => Trusted
<1>1. Inv => AcceptedIsJournaled
  BY InvJournals DEF Inv
<1>2. Inv => PublishedIsCommitted
  BY InvPublishes DEF Inv
<1>3. Inv => OwnJournalRecovers /\ ReplayReproduces
  BY DEF Inv, InvAt, OwnJournalRecovers, PhaseOK, Replaying, ReplayReproduces
<1>4. Inv => CouldBeOwn
  BY RecordedIsOwn DEF Inv
<1> QED BY <1>1, <1>2, <1>3, <1>4 DEF Trusted

(* Once a file is served, the service keeps its promises on it for good,   *)
(* whatever fails, crashes and restarts.                                   *)
THEOREM ServedIsTrusted == ForeignSpec => AcceptedIsTrusted
<1>1. ForeignInv /\ phase = "serving" => Inv
  BY DEF ForeignInv, Undecided, Refused, BeingVetted
<1>2. Inv /\ [Next]_vars => Inv'
  BY StepKeeps DEF Inv
<1> QED BY <1>1, <1>2, InvTrusts, AnyJournalIsVetted, PTL DEF ForeignSpec, AcceptedIsTrusted

(* Before that, a start may cut off a torn frame and what is behind it.    *)
LEMMA UndecidedSteps ==
  ASSUME Undecided, Next
  PROVE  /\ file' = file \/ file' = TruncateTail(file)
         /\ \A t \in Threads : threads'[t].pc = "idle"
         /\ seen' = seen
<1>1. Crash \/ Create \/ ReplayBatch \/ FinishRecovery
  BY NothingIsServed DEF Next
<1>2. threads = AllIdle /\ \A t \in Threads : AllIdle[t].pc = "idle"
  BY DEF Undecided, Unserved, AllIdle, Idle
<1>3. (threads' = threads \/ threads' = AllIdle) /\ seen' = seen
  BY <1>1 DEF Crash, Create, ReplayBatch, FinishRecovery, Stop
<1>4. ~\E t \in Threads : threads[t].pc = "appending"
  BY NothingIsServed
<1>5. file' = file \/ file' = TruncateTail(file)
  BY <1>1, <1>4 DEF Crash, Create, ReplayBatch, FinishRecovery
<1> QED BY <1>2, <1>3, <1>5

(* The frames that a scan of f reads are in r, where they were.            *)
KeepsRead(f, r) == \A i \in Readable(f) : i \in DOMAIN r /\ r[i] = f[i]

(* Whether a server accepts the file or not, no start and no append        *)
(* changes or removes a frame that the scan reads: what is lost stood      *)
(* behind a frame that by its header ends behind the end of the file.      *)
THEOREM NothingReadIsLost == ForeignSpec => [][KeepsRead(file, file')]_file
<1>1. Inv /\ [Next]_vars => [KeepsRead(file, file')]_file
  <2>1. ASSUME NEW n, InvAt(n), [Next]_vars PROVE KeepsRead(file, file')
    <3>1. KeepsWhole(file, file')
      BY <2>1, InvKeepsWhole
    <3>2. \A i \in Readable(file) : i \in DOMAIN file /\ file[i].complete
      <4>1. Sound(file) /\ IsSeq(file)
        BY <2>1 DEF InvAt, Sound
      <4>2. PICK m : Stops(file, m)
        BY <4>1, ScanStops
      <4> QED BY <4>2 DEF Stops, Readable
    <3> QED BY <3>1, <3>2 DEF KeepsWhole, KeepsRead
  <2> QED BY <2>1 DEF Inv
<1>2. Undecided /\ [Next]_vars => [KeepsRead(file, file')]_file
  <2>1. ASSUME Undecided, Next, file' # file PROVE KeepsRead(file, file')
    <3>1. PICK t : t = TruncateTail(file)
      OBVIOUS
    <3>2. file' = t
      BY <2>1, <3>1, UndecidedSteps
    <3>3. IsCutTo(file, t)
      BY <2>1, <3>1, ScanIsCut DEF Undecided
    <3> QED BY <3>2, <3>3 DEF IsCutTo, KeepsRead
  <2> QED BY <2>1 DEF vars
<1> QED BY <1>1, <1>2, AnyJournalIsVetted, PTL DEF ForeignSpec, ForeignInv

(* Nothing is lost behind the part of f that a scan reads, and f is cut    *)
(* once at most.                                                           *)
LEMMA NothingWholeIsLost ==
  ASSUME NEW f, Frames(f), NEW t, t = TruncateTail(f),
         IsTorn(f) => \A i \in DOMAIN f : f[i].complete => i \in Readable(f)
  PROVE  KeepsWhole(f, t) /\ ~IsTorn(t)
<1>1. CASE ~IsTorn(f)
  BY <1>1 DEF TruncateTail, KeepsWhole
<1>2. CASE IsTorn(f)
  <2>1. t = [i \in Readable(f) |-> f[i]]
    BY <1>2 DEF TruncateTail
  <2>2. KeepsWhole(f, t)
    BY <1>2, <2>1 DEF KeepsWhole
  <2>3. ScanError(f) = Ok
    <3>1. IsSeq(f)
      BY DEF Frames
    <3>2. PICK n : Stops(f, n)
      BY <3>1, ScanStops
    <3>3. TornFrame # CorruptFrame
      BY DEF TornFrame, CorruptFrame
    <3> QED BY <1>2, <3>1, <3>2, <3>3, StoppedBy
  <2>4. IsCutTo(f, t)
    BY ScanIsCut
  <2> QED BY <2>2, <2>3, <2>4 DEF IsCutTo
<1> QED BY <1>1, <1>2

(* Until a start accepts such a file, nothing whole of it is cut off.      *)
UncutInv == Inv \/ (Undecided /\ NothingWholeIsCut)

(* So on a file that has no whole frame behind such a one, no whole frame  *)
(* is changed or removed by any step, accepted or refused.  Without the    *)
(* condition it would not be true of the code: whole frames behind a       *)
(* raised length are cut off.                                              *)
THEOREM AnyJournalIsAppendOnly ==
  ForeignSpec /\ NothingWholeIsCut => JournalOnlyGrows
<1>1. ForeignInit /\ NothingWholeIsCut => UncutInv
  BY ForeignStarts DEF UncutInv
<1>2. Inv /\ [Next]_vars => Inv' /\ KeepsWhole(file, file')
  BY StepKeeps, InvKeepsWhole DEF Inv
<1>3. Undecided /\ NothingWholeIsCut /\ [Next]_vars => UncutInv' /\ KeepsWhole(file, file')
  <2>1. SUFFICES ASSUME Undecided, NothingWholeIsCut, [Next]_vars
                 PROVE  UncutInv' /\ KeepsWhole(file, file')
    OBVIOUS
  <2>2. PICK t : t = TruncateTail(file)
    OBVIOUS
  <2>3. KeepsWhole(file, t) /\ ~IsTorn(t)
    BY <2>1, <2>2, NothingWholeIsLost DEF Undecided, NothingWholeIsCut
  <2>4. file' = file \/ file' = t
    BY <2>1, <2>2, UndecidedSteps DEF vars
  <2>5. KeepsWhole(file, file')
    BY <2>3, <2>4 DEF KeepsWhole
  <2>6. NothingWholeIsCut'
    BY <2>1, <2>3, <2>4 DEF NothingWholeIsCut
  <2>7. ForeignInv'
    BY <2>1, ForeignStep DEF ForeignInv
  <2> QED BY <2>5, <2>6, <2>7 DEF ForeignInv, UncutInv
<1>4. UncutInv /\ [Next]_vars => [KeepsWhole(file, file')]_file
  BY <1>2, <1>3 DEF UncutInv
<1>5. UncutInv /\ [Next]_vars => UncutInv'
  BY <1>2, <1>3 DEF UncutInv
<1> QED BY <1>1, <1>4, <1>5, PTL DEF ForeignSpec, JournalOnlyGrows, KeepsWhole

(* Nor does any reader see the state go back.                              *)
THEOREM AnyReaderMovesForward == ForeignSpec => ReadsMoveForward
<1>1. Inv /\ [Next]_vars =>
        [/\ seen'.version >= seen.version
         /\ seen'.version = seen.version => seen' = seen
         /\ IsPrefix(seen.ledgerEntries, seen'.ledgerEntries)]_seen
  BY InvReads DEF Inv, Follows
<1>2. Undecided /\ [Next]_vars =>
        [/\ seen'.version >= seen.version
         /\ seen'.version = seen.version => seen' = seen
         /\ IsPrefix(seen.ledgerEntries, seen'.ledgerEntries)]_seen
  BY UndecidedSteps DEF vars
<1> QED BY <1>1, <1>2, AnyJournalIsVetted, PTL
        DEF ForeignSpec, ForeignInv, ReadsMoveForward

(* The boundary takes only steps of the service, on any journal: the       *)
(* theorems above hold of it too.                                          *)
LEMMA AnyBoundaryIsTheService == ForeignHttpSpec => ForeignSpec
<1>1. [HttpNext]_httpVars => [Next]_vars
  BY HttpStep
<1> QED BY <1>1, PTL DEF ForeignHttpSpec, ForeignHttpInit, ForeignSpec

(* Behind the HTTP server the same statuses mean the same.                 *)
THEOREM StatusIsTheOutcomeAnywhere == ForeignHttpSpec => StatusTellsOutcome
<1>1. Inv /\ [Next]_vars =>
        [\A t \in Threads :
           threads[t].pc # "answered" /\ threads'[t].pc = "answered" =>
             /\ threads[t].request.command \in Commands
             /\ Told(threads[t].request, ResponseTo(threads'[t]), Journal', writable')
        ]_threads
  BY AnswersTell DEF Inv
<1>2. Undecided /\ [Next]_vars =>
        [\A t \in Threads :
           threads[t].pc # "answered" /\ threads'[t].pc = "answered" =>
             /\ threads[t].request.command \in Commands
             /\ Told(threads[t].request, ResponseTo(threads'[t]), Journal', writable')
        ]_threads
  BY UndecidedSteps DEF vars
<1> QED BY <1>1, <1>2, AnyBoundaryIsTheService, AnyJournalIsVetted, PTL
        DEF ForeignSpec, ForeignInv, StatusTellsOutcome

=============================================================================
