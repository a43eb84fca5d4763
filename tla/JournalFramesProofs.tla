------------------------ MODULE JournalFramesProofs ------------------------
(***************************************************************************)
(* Theorems about the journal file: what a scan returns was written, a     *)
(* server appends behind whole frames only, damage that leaves the lengths *)
(* right is reported, and on undamaged files the scan is the one of        *)
(* JournalStore.  They hold for any payloads, any number of frames and of  *)
(* damaged cells.                                                          *)
(*                                                                         *)
(* The invariant describes the file position by position: s[k] is where    *)
(* frame k + 1 starts, and every cell keeps the field it was written as.   *)
(* The scan is a recursive function of the offset; that it has a value at  *)
(* every offset, and what it returns at the start of a frame, is shown     *)
(* from the end of the file backwards, by a largest counterexample.        *)
(***************************************************************************)
EXTENDS JournalFrames, DataLemmas

-----------------------------------------------------------------------------
(* What the file looks like.                                               *)

(* s[k] is where the k-th frame ends and the next one starts.              *)
Starts(ps, s) ==
  /\ s \in [0..Len(ps) -> Nat] /\ s[0] = 0
  /\ \A k \in 1..Len(ps) : s[k] = s[k - 1] + Len(ps[k]) + 3

(* At offset o the file has the frame of payload p, cell by cell.          *)
FrameAt(file, o, p) ==
  /\ file[o + 1] = Magic
  /\ file[o + 2] = Length(Len(p))
  /\ \A i \in 1..Len(p) : file[o + 2 + i] = <<"byte", p[i]>>
  /\ file[o + Len(p) + 3] = Crc(Data(p))

(* The file c consists of the frames of ps.                                *)
Layout(ps, s, c) ==
  /\ IsSeq(c) /\ Len(c) = s[Len(ps)]
  /\ \A k \in 1..Len(ps) : FrameAt(c, s[k - 1], ps[k])

(* A cell as it may be after damage; a checksum is one of data.            *)
IsCell(c) ==
  \/ \E v : c = <<"magic", v>>
  \/ \E n \in Nat : c = Length(n)
  \/ \E v : c = <<"byte", v>>
  \/ \E d : c = Crc(d) /\ \A x \in DOMAIN d : d[x][1] = "byte"

(* A magic cell starts a frame: behind it there is a length, or nothing.   *)
Cells(file) ==
  /\ \A i \in 1..Len(file) : IsCell(file[i])
  /\ \A i \in 1..(Len(file) - 1) :
       file[i][1] = "magic" => file[i + 1][1] = "length"

(* At offset o the fields of the frame of p are there, whatever they hold. *)
FieldsAt(file, o, p) ==
  /\ file[o + 1][1] = "magic"
  /\ file[o + 2][1] = "length"
  /\ \A i \in 1..Len(p) : file[o + 2 + i][1] = "byte"
  /\ file[o + Len(p) + 3] \in {Crc(Data(p)), Crc(<<>>)}

(* Behind offset o there is a frame cut short, or nothing.                 *)
TailAt(file, o) ==
  /\ Len(file) >= o + 1 => file[o + 1][1] = "magic"
  /\ Len(file) >= o + 2 => file[o + 2][1] = "length"
  /\ \A i \in (o + 3)..Len(file) : file[i][1] = "byte"

(* It is the beginning of a frame that fits a payload.                     *)
CleanTailAt(file, o) ==
  /\ Len(file) >= o + 1 => file[o + 1] = Magic
  /\ Len(file) >= o + 2 => \E n \in 1..MaximumPayload :
                              file[o + 2] = Length(n) /\ Len(file) < o + n + 3

Shape(file, ps, s) ==
  /\ IsSeq(file) /\ Cells(file) /\ s[Len(ps)] <= Len(file)
  /\ \A k \in 1..Len(ps) : FieldsAt(file, s[k - 1], ps[k])
  /\ TailAt(file, s[Len(ps)])

Undamaged(file, ps, s) ==
  /\ \A k \in 1..Len(ps) : FrameAt(file, s[k - 1], ps[k])
  /\ CleanTailAt(file, s[Len(ps)])

(* A file with the frames of ps, d cells of which were changed.            *)
FileIs(file, ps, d, s) ==
  /\ Starts(ps, s)
  /\ Layout(ps, s, EncodeJournal(ps))
  /\ Shape(file, ps, s)
  /\ d = 0 => Undamaged(file, ps, s)

JournalInv ==
  /\ written \in Seq(Payloads) /\ open \in BOOLEAN /\ damage \in Nat
  /\ open => bytes = EncodeJournal(written)
  /\ \E s : FileIs(bytes, written, damage, s)

-----------------------------------------------------------------------------
(* Frames and their encoding.                                              *)

(* r is a with b behind it.                                                *)
Joins(r, a, b) ==
  /\ IsSeq(r) /\ Len(r) = Len(a) + Len(b)
  /\ \A i \in 1..Len(a) : r[i] = a[i]
  /\ \A i \in 1..Len(b) : r[Len(a) + i] = b[i]

LEMMA Joined ==
  ASSUME NEW a, NEW b, IsSeq(a), IsSeq(b), NEW r, r = a \o b
  PROVE  Joins(r, a, b)
<1>1. PICK S : a \in Seq(S)
  BY DEF IsSeq
<1>2. PICK T : b \in Seq(T)
  BY DEF IsSeq
<1>3. PICK U : U = S \cup T
  OBVIOUS
<1>4. a \in Seq(U) /\ b \in Seq(U)
  BY <1>1, <1>2, <1>3
<1>5. r \in Seq(U) /\ Len(r) = Len(a) + Len(b)
  BY <1>4
<1>6. /\ \A i \in 1..Len(a) : r[i] = a[i]
      /\ \A i \in 1..Len(b) : r[Len(a) + i] = b[i]
  BY <1>4
<1> QED BY <1>5, <1>6 DEF IsSeq, Joins

(* r is what a has up to n.                                                *)
CutAt(r, a, n) ==
  /\ IsSeq(r) /\ Len(r) = n /\ n \in Nat
  /\ \A i \in 1..n : r[i] = a[i]

LEMMA IsCut ==
  ASSUME NEW a, IsSeq(a), NEW n \in 0..Len(a), NEW r, r = SubSeq(a, 1, n)
  PROVE  CutAt(r, a, n)
<1>1. n \in Nat
  BY SeqFacts
<1>2. IsSeq(r)
  BY FirstOf
<1>3. Len(r) = n
  BY FirstOf
<1>4. \A i \in 1..n : r[i] = a[i]
  BY FirstOf
<1> QED BY <1>1, <1>2, <1>3, <1>4 DEF CutAt

LEMMA PayloadFacts ==
  ASSUME NEW p \in Payloads
  PROVE  /\ IsSeq(p) /\ Len(p) \in Nat /\ Len(p) \in 1..MaximumPayload
         /\ DOMAIN p = 1..Len(p) /\ MaximumPayload \in Nat
<1>1. p \in Seq(Bytes) /\ Len(p) \in 1..MaximumPayload /\ MaximumPayload \in Nat
  BY PayloadsEncode
<1> QED BY <1>1 DEF IsSeq

LEMMA DataFacts ==
  ASSUME NEW p \in Payloads, NEW d, d = Data(p)
  PROVE  /\ IsSeq(d) /\ Len(d) = Len(p) /\ DOMAIN d = 1..Len(p)
         /\ \A i \in 1..Len(p) : d[i] = <<"byte", p[i]>>
<1>1. Len(p) \in Nat /\ DOMAIN p = 1..Len(p)
  BY PayloadFacts
<1>2. DOMAIN d = 1..Len(p) /\ \A i \in 1..Len(p) : d[i] = <<"byte", p[i]>>
  BY <1>1 DEF Data
<1>3. d = [i \in 1..Len(p) |-> d[i]]
  BY <1>1, <1>2 DEF Data
<1>4. IsSeq(d) /\ Len(d) = Len(p)
  BY <1>1, <1>2, <1>3, SeqMade
<1> QED BY <1>2, <1>4

(* A frame is the frame at its own beginning.                              *)
LEMMA FrameCells ==
  ASSUME NEW p \in Payloads, NEW f, f = EncodeFrame(p)
  PROVE  IsSeq(f) /\ Len(f) = Len(p) + 3 /\ FrameAt(f, 0, p)
<1>1. PICK d : d = Data(p)
  OBVIOUS
<1>2. /\ IsSeq(d) /\ Len(d) = Len(p)
      /\ \A i \in 1..Len(p) : d[i] = <<"byte", p[i]>>
  BY <1>1, DataFacts
<1>3. Len(p) \in Nat
  BY PayloadFacts
<1>4. PICK h : h = <<Magic, Length(Len(p))>>
  OBVIOUS
<1>5. PICK z : z = <<Crc(Data(p))>>
  OBVIOUS
<1>6. IsSeq(h) /\ Len(h) = 2 /\ h[1] = Magic /\ h[2] = Length(Len(p))
  <2>1. h \in Seq({Magic, Length(Len(p))})
    BY <1>4
  <2> QED BY <1>4, <2>1 DEF IsSeq
<1>7. IsSeq(z) /\ Len(z) = 1 /\ z[1] = Crc(Data(p))
  <2>1. z \in Seq({Crc(Data(p))})
    BY <1>5
  <2> QED BY <1>5, <2>1 DEF IsSeq
<1>8. PICK u : u = h \o d
  OBVIOUS
<1>9. /\ IsSeq(u) /\ Len(u) = 2 + Len(p)
      /\ u[1] = Magic /\ u[2] = Length(Len(p))
      /\ \A i \in 1..Len(p) : u[2 + i] = <<"byte", p[i]>>
  <2>1. /\ IsSeq(u) /\ Len(u) = Len(h) + Len(d)
        /\ \A i \in 1..Len(h) : u[i] = h[i]
        /\ \A i \in 1..Len(d) : u[Len(h) + i] = d[i]
    <3>1. Joins(u, h, d)
      BY <1>2, <1>6, <1>8, Joined
    <3> QED BY <3>1 DEF Joins
  <2> QED BY <1>2, <1>6, <2>1
<1>10. f = u \o z
  BY <1>1, <1>4, <1>5, <1>8 DEF EncodeFrame
<1>11. /\ IsSeq(f) /\ Len(f) = Len(u) + Len(z)
       /\ \A i \in 1..Len(u) : f[i] = u[i]
       /\ \A i \in 1..Len(z) : f[Len(u) + i] = z[i]
  <2>1. Joins(f, u, z)
    BY <1>7, <1>9, <1>10, Joined
  <2> QED BY <2>1 DEF Joins
<1>12. Len(f) = Len(p) + 3
  BY <1>3, <1>7, <1>9, <1>11
<1>13. f[1] = Magic /\ f[2] = Length(Len(p))
  BY <1>3, <1>9, <1>11
<1>14. \A i \in 1..Len(p) : f[2 + i] = <<"byte", p[i]>>
  <2>1. TAKE i \in 1..Len(p)
  <2>2. 2 + i \in 1..Len(u)
    BY <1>3, <1>9
  <2> QED BY <1>9, <1>11, <2>2
<1>15. f[Len(p) + 3] = Crc(Data(p))
  <2>1. f[Len(u) + 1] = z[1]
    BY <1>7, <1>11
  <2>2. Len(u) + 1 = Len(p) + 3
    BY <1>3, <1>9
  <2> QED BY <1>7, <2>1, <2>2
<1> QED BY <1>3, <1>11, <1>12, <1>13, <1>14, <1>15 DEF FrameAt

(* The starts of frames grow.                                              *)
LEMMA StartsGrow ==
  ASSUME NEW ps \in Seq(Payloads), NEW s, Starts(ps, s)
  PROVE  /\ Len(ps) \in Nat
         /\ \A k \in 0..Len(ps) : s[k] \in Nat
         /\ \A k \in 1..Len(ps) : /\ ps[k] \in Payloads /\ Len(ps[k]) \in Nat
                                  /\ Len(ps[k]) \in 1..MaximumPayload
                                  /\ s[k] = s[k - 1] + Len(ps[k]) + 3
         /\ \A j, k \in 0..Len(ps) : j <= k => s[j] <= s[k]
<1>1. Len(ps) \in Nat /\ \A k \in 1..Len(ps) : ps[k] \in Payloads
  OBVIOUS
<1>2. \A k \in 0..Len(ps) : s[k] \in Nat
  BY DEF Starts
<1>3. \A k \in 1..Len(ps) : /\ ps[k] \in Payloads /\ Len(ps[k]) \in Nat
                            /\ Len(ps[k]) \in 1..MaximumPayload
                            /\ s[k] = s[k - 1] + Len(ps[k]) + 3
  BY <1>1, PayloadFacts DEF Starts
<1>4. ASSUME NEW j \in 0..Len(ps) PROVE \A k \in 0..Len(ps) : j <= k => s[j] <= s[k]
  <2> DEFINE T == {k \in 0..Len(ps) : j <= k /\ ~(s[j] <= s[k])}
  <2>1. SUFFICES ASSUME T # {} PROVE FALSE
    OBVIOUS
  <2>2. T \in SUBSET Nat
    BY <1>1
  <2>3. PICK n \in T : \A i \in T : n <= i
    <3> HIDE DEF T
    <3> QED BY <2>1, <2>2, SmallestNumber
  <2>4. n # j /\ n \in 1..Len(ps) /\ n - 1 \in 0..Len(ps) /\ j <= n - 1
    BY <1>1, <1>2
  <2>5. s[j] <= s[n - 1]
    BY <1>1, <2>3, <2>4
  <2>6. s[n] = s[n - 1] + Len(ps[n]) + 3 /\ Len(ps[n]) \in Nat
    BY <1>3, <2>4
  <2>7. s[j] \in Nat /\ s[n - 1] \in Nat
    BY <1>2, <2>4
  <2> QED BY <2>3, <2>5, <2>6, <2>7
<1> QED BY <1>1, <1>2, <1>3, <1>4

(* Cell o + i of a frame at o is cell i of the frame.                      *)
LEMMA SameFrame ==
  ASSUME NEW p \in Payloads, NEW c, NEW o \in Nat, FrameAt(c, o, p),
         NEW f, f = EncodeFrame(p), NEW i \in 1..(Len(p) + 3)
  PROVE  c[o + i] = f[i]
<1>1. Len(p) \in Nat
  BY PayloadFacts
<1>2. FrameAt(f, 0, p)
  BY FrameCells
<1>3. CASE i = 1
  BY <1>2, <1>3 DEF FrameAt
<1>4. CASE i = 2
  BY <1>2, <1>4 DEF FrameAt
<1>5. CASE i \in 3..(Len(p) + 2)
  <2>1. PICK j \in 1..Len(p) : i = 2 + j
    <3>1. i - 2 \in 1..Len(p) /\ i = 2 + (i - 2)
      BY <1>1, <1>5
    <3> QED BY <3>1
  <2>2. c[o + 2 + j] = <<"byte", p[j]>> /\ f[0 + 2 + j] = <<"byte", p[j]>>
    BY <1>2 DEF FrameAt
  <2>3. o + 2 + j = o + i /\ 0 + 2 + j = i
    BY <2>1
  <2> QED BY <2>2, <2>3
<1>6. CASE i = Len(p) + 3
  <2>1. o + Len(p) + 3 = o + i /\ 0 + Len(p) + 3 = i
    BY <1>1, <1>6
  <2>2. c[o + Len(p) + 3] = Crc(Data(p)) /\ f[0 + Len(p) + 3] = Crc(Data(p))
    BY <1>2 DEF FrameAt
  <2> QED BY <2>1, <2>2
<1> QED BY <1>1, <1>3, <1>4, <1>5, <1>6

-----------------------------------------------------------------------------
(* EncodeJournal.                                                          *)

(* What FlattenSeq computes from its frames.                               *)
Flat(fr, n, g, i) == IF i = 1 THEN fr[i] ELSE g[i - 1] \o fr[i]
Flattens(fr, n, g) == g = [i \in 1..n |-> Flat(fr, n, g, i)]

LEMMA FlattenIsUnique ==
  ASSUME NEW fr, NEW n \in Nat, NEW g, NEW h, Flattens(fr, n, g), Flattens(fr, n, h)
  PROVE  \A i \in 1..n : g[i] = h[i]
<1> DEFINE T == {i \in 1..n : g[i] # h[i]}
<1>1. SUFFICES ASSUME T # {} PROVE FALSE
  OBVIOUS
<1>2. PICK i \in T : \A j \in T : i <= j
  <2>1. T \in SUBSET Nat
    OBVIOUS
  <2> HIDE DEF T
  <2> QED BY <1>1, <2>1, SmallestNumber
<1>3. g[i] = Flat(fr, n, g, i) /\ h[i] = Flat(fr, n, h, i)
  BY DEF Flattens
<1>4. i # 1
  BY <1>3 DEF Flat
<1>5. i - 1 \in 1..n /\ i - 1 \notin T
  BY <1>2, <1>4
<1>6. g[i - 1] = h[i - 1]
  BY <1>5
<1> QED BY <1>2, <1>3, <1>4, <1>6 DEF Flat

LEMMA FlattenIs ==
  ASSUME NEW fr, NEW n \in Nat \ {0}, Len(fr) = n, NEW g, Flattens(fr, n, g)
  PROVE  FlattenSeq(fr) = g[n]
<1> DEFINE F == CHOOSE h : Flattens(fr, n, h)
<1>1. Flattens(fr, n, F)
  OBVIOUS
<1>2. F[n] = g[n]
  <2>1. n \in 1..n
    OBVIOUS
  <2> HIDE DEF F
  <2> QED BY <1>1, <2>1, FlattenIsUnique
<1>3. FlattenSeq(fr) = F[n]
  BY DEF FlattenSeq, Flattens, Flat
<1> QED BY <1>2, <1>3

(* A file that consists of the frames of ps is their encoding.             *)
LEMMA LayoutIsEncoding ==
  ASSUME NEW ps \in Seq(Payloads), NEW s, Starts(ps, s), NEW c, Layout(ps, s, c)
  PROVE  c = EncodeJournal(ps)
<1>1. PICK m : m = Len(ps)
  OBVIOUS
<1>2. PICK fr : fr = [i \in DOMAIN ps |-> EncodeFrame(ps[i])]
  OBVIOUS
<1>3. /\ m \in Nat /\ DOMAIN ps = 1..m
      /\ \A k \in 0..m : s[k] \in Nat
      /\ \A k \in 1..m : /\ ps[k] \in Payloads /\ Len(ps[k]) \in Nat
                         /\ s[k] = s[k - 1] + Len(ps[k]) + 3
      /\ \A j, k \in 0..m : j <= k => s[j] <= s[k]
      /\ s[0] = 0
  <2>1. Len(ps) \in Nat /\ DOMAIN ps = 1..Len(ps) /\ s[0] = 0
    BY DEF Starts
  <2>2. /\ \A k \in 0..Len(ps) : s[k] \in Nat
        /\ \A j, k \in 0..Len(ps) : j <= k => s[j] <= s[k]
    BY StartsGrow
  <2>3. \A k \in 1..Len(ps) : /\ ps[k] \in Payloads /\ Len(ps[k]) \in Nat
                              /\ s[k] = s[k - 1] + Len(ps[k]) + 3
    BY StartsGrow
  <2> QED BY <1>1, <2>1, <2>2, <2>3
<1>4. IsSeq(c) /\ Len(c) = s[m] /\ \A k \in 1..m : FrameAt(c, s[k - 1], ps[k])
  BY <1>1 DEF Layout
<1>5. IsSeq(fr) /\ Len(fr) = m /\ \A k \in 1..m : fr[k] = EncodeFrame(ps[k])
  <2>1. DOMAIN fr = 1..m /\ fr = [i \in 1..m |-> fr[i]]
    BY <1>2, <1>3
  <2> QED BY <1>2, <1>3, <2>1, SeqMade
<1>6. EncodeJournal(ps) = FlattenSeq(fr)
  BY <1>2 DEF EncodeJournal
<1>7. CASE m = 0
  <2>1. fr = <<>> /\ c = <<>>
    BY <1>3, <1>4, <1>5, <1>7, SeqFacts
  <2>2. FlattenSeq(fr) = fr
    BY <1>5, <1>7 DEF FlattenSeq
  <2> QED BY <1>6, <2>1, <2>2
<1>8. CASE m # 0
  <2>1. PICK g : g = [i \in 1..m |-> SubSeq(c, 1, s[i])]
    OBVIOUS
  <2>2. ASSUME NEW i \in 1..m
        PROVE  /\ s[i] \in 0..Len(c)
               /\ IsSeq(g[i]) /\ Len(g[i]) = s[i]
               /\ \A x \in 1..s[i] : g[i][x] = c[x]
    <3>1. s[i] \in 0..Len(c)
      BY <1>3, <1>4
    <3>2. PICK q, n : n = s[i] /\ q = SubSeq(c, 1, n)
      OBVIOUS
    <3>3. n \in 0..Len(c)
      BY <3>1, <3>2
    <3>4. /\ IsSeq(q) /\ Len(q) = n
          /\ \A x \in 1..n : q[x] = c[x]
      <4>1. CutAt(q, c, n)
        BY <1>4, <3>2, <3>3, IsCut
      <4> QED BY <4>1 DEF CutAt
    <3> QED BY <2>1, <3>1, <3>2, <3>4
  <2>3. ASSUME NEW i \in 1..m PROVE g[i] = Flat(fr, m, g, i)
    <3>1. PICK p, f, o : p = ps[i] /\ f = EncodeFrame(ps[i]) /\ o = s[i - 1]
      OBVIOUS
    <3>2. p \in Payloads /\ Len(p) \in Nat /\ o \in Nat /\ s[i] = o + (Len(p) + 3)
      <4>1. i - 1 \in 0..m
        BY <1>3
      <4>2. s[i - 1] \in Nat
        BY <1>3, <4>1
      <4>3. /\ ps[i] \in Payloads /\ Len(ps[i]) \in Nat
            /\ s[i] = s[i - 1] + Len(ps[i]) + 3
        BY <1>3
      <4> QED BY <3>1, <4>2, <4>3
    <3>3. FrameAt(c, o, p)
      BY <1>4, <3>1
    <3>4. IsSeq(f) /\ Len(f) = Len(p) + 3
      BY <3>1, <3>2, FrameCells
    <3>5. \A x \in 1..Len(f) : c[o + x] = f[x]
      BY <3>1, <3>2, <3>3, <3>4, SameFrame
    <3>6. CASE i = 1
      <4>1. o = 0
        BY <1>3, <3>1, <3>6
      <4>2. Len(g[i]) = Len(f) /\ \A x \in 1..Len(g[i]) : g[i][x] = f[x]
        <5>1. Len(g[i]) = Len(f)
          BY <2>2, <3>2, <3>4, <4>1
        <5>2. \A x \in 1..Len(f) : g[i][x] = c[x]
          BY <2>2, <5>1
        <5>3. \A x \in 1..Len(f) : c[x] = f[x]
          BY <3>5, <4>1
        <5> QED BY <5>1, <5>2, <5>3
      <4>3. Agree(g[i], f)
        BY <2>2, <3>4, <4>2 DEF Agree
      <4>4. g[i] = f
        BY <4>3, EqualSequences
      <4>5. f = fr[i]
        BY <1>5, <3>1
      <4> QED BY <3>6, <4>4, <4>5 DEF Flat
    <3>7. CASE i # 1
      <4>1. i - 1 \in 1..m
        BY <1>3, <3>7
      <4>2. PICK a : a = g[i - 1]
        OBVIOUS
      <4>3. IsSeq(a) /\ Len(a) = o /\ \A x \in 1..o : a[x] = c[x]
        BY <2>2, <3>1, <4>1, <4>2
      <4>4. PICK r : r = a \o f
        OBVIOUS
      <4>5. /\ IsSeq(r) /\ Len(r) = Len(a) + Len(f)
            /\ \A x \in 1..Len(a) : r[x] = a[x]
            /\ \A x \in 1..Len(f) : r[Len(a) + x] = f[x]
        <5>1. Joins(r, a, f)
          BY <3>4, <4>3, <4>4, Joined
        <5> QED BY <5>1 DEF Joins
      <4>6. Len(r) = s[i]
        BY <3>2, <3>4, <4>3, <4>5
      <4>7. \A x \in 1..s[i] : r[x] = c[x]
        <5>1. TAKE x \in 1..s[i]
        <5>2. CASE x <= o
          <6>1. x \in 1..o
            BY <3>2, <5>2
          <6> QED BY <4>3, <4>5, <6>1
        <5>3. CASE x > o
          <6>1. PICK y : y = x - o
            OBVIOUS
          <6>2. y \in 1..Len(f) /\ o + y = x
            BY <3>2, <3>4, <5>3, <6>1
          <6>3. r[o + y] = f[y] /\ c[o + y] = f[y]
            BY <3>5, <4>3, <4>5, <6>2
          <6> QED BY <6>2, <6>3
        <5> QED BY <3>2, <5>2, <5>3
      <4>8. Len(g[i]) = Len(r) /\ \A x \in 1..Len(g[i]) : g[i][x] = r[x]
        <5>1. Len(g[i]) = s[i] /\ \A x \in 1..s[i] : g[i][x] = c[x]
          BY <2>2
        <5> QED BY <4>6, <4>7, <5>1
      <4>9. Agree(g[i], r)
        BY <2>2, <4>5, <4>8 DEF Agree
      <4>10. g[i] = r
        BY <4>9, EqualSequences
      <4>11. f = fr[i]
        BY <1>5, <3>1
      <4> QED BY <3>7, <4>2, <4>4, <4>10, <4>11 DEF Flat
    <3> QED BY <3>6, <3>7
  <2>4. Flattens(fr, m, g)
    <3>1. PICK h : h = [i \in 1..m |-> Flat(fr, m, g, i)]
      OBVIOUS
    <3>2. \A i \in 1..m : g[i] = h[i]
      BY <2>3, <3>1
    <3>3. g = h
      BY <2>1, <3>1, <3>2
    <3> QED BY <3>1, <3>3 DEF Flattens
  <2>5. FlattenSeq(fr) = g[m]
    BY <1>3, <1>5, <1>8, <2>4, FlattenIs
  <2>6. g[m] = c
    <3>1. g[m] = SubSeq(c, 1, s[m])
      BY <1>3, <1>8, <2>1
    <3>2. PICK n : n = s[m]
      OBVIOUS
    <3>3. n \in 0..Len(c) /\ n = Len(c)
      BY <1>3, <1>4, <3>2
    <3>4. SubSeq(c, 1, n) = c
      BY <1>4, <3>3, FirstOf
    <3> QED BY <3>1, <3>2, <3>4
  <2> QED BY <1>6, <2>5, <2>6
<1> QED BY <1>7, <1>8

-----------------------------------------------------------------------------
(* What the cells of a file may be.                                        *)

(* A frame depends on its own cells only.                                  *)
LEMMA FrameKept ==
  ASSUME NEW p \in Payloads, NEW o \in Nat, NEW c, NEW r, NEW n \in Nat,
         o + Len(p) + 3 <= n, \A i \in 1..n : r[i] = c[i], FrameAt(c, o, p)
  PROVE  FrameAt(r, o, p)
<1>1. Len(p) \in Nat
  BY PayloadFacts
<1>2. o + 1 \in 1..n /\ o + 2 \in 1..n /\ o + Len(p) + 3 \in 1..n
  BY <1>1
<1>3. \A i \in 1..Len(p) : o + 2 + i \in 1..n
  BY <1>1
<1> QED BY <1>2, <1>3 DEF FrameAt

LEMMA FieldsKept ==
  ASSUME NEW p \in Payloads, NEW o \in Nat, NEW c, NEW r, NEW n \in Nat,
         o + Len(p) + 3 <= n, \A i \in 1..n : r[i] = c[i], FieldsAt(c, o, p)
  PROVE  FieldsAt(r, o, p)
<1>1. Len(p) \in Nat
  BY PayloadFacts
<1>2. o + 1 \in 1..n /\ o + 2 \in 1..n /\ o + Len(p) + 3 \in 1..n
  BY <1>1
<1>3. \A i \in 1..Len(p) : o + 2 + i \in 1..n
  BY <1>1
<1> QED BY <1>2, <1>3 DEF FieldsAt

LEMMA FrameHasFields ==
  ASSUME NEW p \in Payloads, NEW o \in Nat, NEW c, FrameAt(c, o, p)
  PROVE  FieldsAt(c, o, p)
<1>1. c[o + 1][1] = "magic" /\ c[o + 2][1] = "length"
  BY DEF FrameAt, Magic, Length
<1>2. \A i \in 1..Len(p) : c[o + 2 + i][1] = "byte"
  BY DEF FrameAt
<1> QED BY <1>1, <1>2 DEF FieldsAt, FrameAt

LEMMA FrameHasCells ==
  ASSUME NEW p \in Payloads, NEW f, f = EncodeFrame(p)
  PROVE  Cells(f) /\ f[Len(f)][1] = "crc"
<1>1. Len(p) \in Nat /\ Len(f) = Len(p) + 3 /\ FrameAt(f, 0, p)
  BY FrameCells, PayloadFacts
<1>2. f[1] = Magic /\ f[2] = Length(Len(p)) /\ f[Len(p) + 3] = Crc(Data(p))
  BY <1>1 DEF FrameAt
<1>3. ASSUME NEW i \in 1..Len(f), i > 2, i # Len(f)
      PROVE  \E v : f[i] = <<"byte", v>>
  <2>1. PICK j : j = i - 2
    OBVIOUS
  <2>2. j \in 1..Len(p) /\ 0 + 2 + j = i
    BY <1>1, <1>3, <2>1
  <2>3. f[0 + 2 + j] = <<"byte", p[j]>>
    BY <1>1, <2>2 DEF FrameAt
  <2> QED BY <2>2, <2>3
<1>4. \A x \in DOMAIN Data(p) : Data(p)[x][1] = "byte"
  <2>1. PICK d : d = Data(p)
    OBVIOUS
  <2>2. \A x \in DOMAIN d : d[x] = <<"byte", p[x]>>
    BY <2>1, DataFacts
  <2> QED BY <2>1, <2>2
<1>5. ASSUME NEW i \in 1..Len(f) PROVE IsCell(f[i])
  <2>1. CASE i = 1
    BY <1>2, <2>1 DEF IsCell, Magic
  <2>2. CASE i = 2
    BY <1>1, <1>2, <2>2 DEF IsCell
  <2>3. CASE i = Len(f)
    <3>1. f[i] = Crc(Data(p))
      BY <1>1, <1>2, <2>3
    <3> QED BY <1>4, <3>1 DEF IsCell
  <2>4. CASE i > 2 /\ i # Len(f)
    BY <1>3, <2>4 DEF IsCell
  <2> QED BY <1>1, <2>1, <2>2, <2>3, <2>4
<1>6. ASSUME NEW i \in 1..(Len(f) - 1), f[i][1] = "magic"
      PROVE  f[i + 1][1] = "length"
  <2>1. i = 1
    <3>1. CASE i = 2
      BY <1>2, <1>6, <3>1 DEF Length
    <3>2. CASE i > 2
      <4>1. i \in 1..Len(f) /\ i # Len(f)
        BY <1>1
      <4>2. PICK v : f[i] = <<"byte", v>>
        BY <1>3, <3>2, <4>1
      <4> QED BY <1>6, <4>2
    <3> QED BY <1>1, <3>1, <3>2
  <2> QED BY <1>2, <2>1 DEF Length
<1>7. f[Len(f)][1] = "crc"
  BY <1>1, <1>2 DEF Crc
<1> QED BY <1>5, <1>6, <1>7 DEF Cells

LEMMA CellsJoined ==
  ASSUME NEW a, NEW b, IsSeq(a), IsSeq(b), Cells(a), Cells(b),
         Len(a) # 0 => a[Len(a)][1] # "magic", NEW r, Joins(r, a, b)
  PROVE  Cells(r)
<1>1. PICK m \in Nat : m = Len(a)
  BY SeqFacts
<1>2. PICK n \in Nat : n = Len(b)
  BY SeqFacts
<1>3. /\ Len(r) = m + n
      /\ \A i \in 1..m : r[i] = a[i]
      /\ \A i \in 1..n : r[m + i] = b[i]
  BY <1>1, <1>2 DEF Joins
<1>4. ASSUME NEW i \in 1..(m + n), i > m PROVE \E j \in 1..n : i = m + j
  <2>1. i - m \in 1..n /\ i = m + (i - m)
    BY <1>4
  <2> QED BY <2>1
<1>5. ASSUME NEW i \in 1..(m + n) PROVE IsCell(r[i])
  <2>1. CASE i <= m
    <3>1. i \in 1..m
      BY <2>1
    <3> QED BY <1>1, <1>3, <3>1 DEF Cells
  <2>2. CASE i > m
    <3>1. PICK j \in 1..n : i = m + j
      BY <1>4, <2>2
    <3> QED BY <1>2, <1>3, <3>1 DEF Cells
  <2> QED BY <2>1, <2>2
<1>6. ASSUME NEW i \in 1..(m + n - 1), r[i][1] = "magic"
      PROVE  r[i + 1][1] = "length"
  <2>1. CASE i < m
    <3>1. i \in 1..m /\ i + 1 \in 1..m /\ i \in 1..(m - 1)
      BY <2>1
    <3> QED BY <1>1, <1>3, <1>6, <3>1 DEF Cells
  <2>2. CASE i = m
    <3>1. i \in 1..m
      BY <2>2
    <3> QED BY <1>1, <1>3, <1>6, <2>2, <3>1
  <2>3. CASE i > m
    <3>1. PICK j \in 1..n : i = m + j
      BY <1>4, <2>3
    <3>2. j \in 1..(n - 1) /\ j + 1 \in 1..n /\ i + 1 = m + (j + 1)
      BY <3>1
    <3>3. r[i] = b[j] /\ r[i + 1] = b[j + 1]
      BY <1>3, <3>1, <3>2
    <3> QED BY <1>2, <1>6, <3>2, <3>3 DEF Cells
  <2> QED BY <2>1, <2>2, <2>3
<1> QED BY <1>3, <1>5, <1>6 DEF Cells

LEMMA CellsCut ==
  ASSUME NEW a, IsSeq(a), Cells(a), NEW n \in 0..Len(a), NEW r, CutAt(r, a, n)
  PROVE  Cells(r)
<1>1. Len(a) \in Nat
  BY SeqFacts
<1>2. Len(r) = n /\ \A i \in 1..n : r[i] = a[i]
  BY DEF CutAt
<1>3. \A i \in 1..n : i \in 1..Len(a)
  BY <1>1
<1>4. \A i \in 1..(n - 1) : i \in 1..n /\ i + 1 \in 1..n /\ i \in 1..(Len(a) - 1)
  BY <1>1
<1>5. \A i \in 1..n : IsCell(r[i])
  BY <1>2, <1>3 DEF Cells
<1>6. \A i \in 1..(n - 1) : r[i][1] = "magic" => r[i + 1][1] = "length"
  BY <1>2, <1>4 DEF Cells
<1> QED BY <1>2, <1>5, <1>6 DEF Cells

-----------------------------------------------------------------------------
(* Appending a frame, whole or in part.                                    *)

Setting(ps, s, c) ==
  /\ ps \in Seq(Payloads) /\ Starts(ps, s) /\ Layout(ps, s, c) /\ Cells(c)

(* A file that consists of the frames of ps, seen position by position.    *)
LEMMA WholeFile ==
  ASSUME NEW ps, NEW s, NEW c, Setting(ps, s, c)
  PROVE  /\ Shape(c, ps, s) /\ Undamaged(c, ps, s)
         /\ Len(c) # 0 => c[Len(c)][1] # "magic"
<1>1. PICK m : m = Len(ps)
  OBVIOUS
<1>2. ps \in Seq(Payloads) /\ Starts(ps, s)
  BY DEF Setting
<1>3. /\ m \in Nat
      /\ \A k \in 0..m : s[k] \in Nat
      /\ \A k \in 1..m : ps[k] \in Payloads /\ Len(ps[k]) \in Nat
      /\ \A k \in 1..m : s[k] = s[k - 1] + Len(ps[k]) + 3
      /\ s[0] = 0
  BY <1>1, <1>2, StartsGrow DEF Starts
<1>4. IsSeq(c) /\ Cells(c) /\ Len(c) = s[m] /\ s[m] \in Nat
  BY <1>1, <1>3 DEF Setting, Layout
<1>5. \A k \in 1..m : FrameAt(c, s[k - 1], ps[k])
  BY <1>1 DEF Setting, Layout
<1>6. ASSUME NEW k \in 1..m PROVE FieldsAt(c, s[k - 1], ps[k])
  <2>1. k - 1 \in 0..m
    BY <1>3
  <2>2. PICK o \in Nat : o = s[k - 1]
    BY <1>3, <2>1
  <2>3. ps[k] \in Payloads
    BY <1>3
  <2>4. FrameAt(c, o, ps[k])
    BY <1>5, <2>2
  <2>5. FieldsAt(c, o, ps[k])
    BY <2>2, <2>3, <2>4, FrameHasFields
  <2> QED BY <2>2, <2>5
<1>7. TailAt(c, s[m]) /\ CleanTailAt(c, s[m])
  BY <1>4 DEF TailAt, CleanTailAt
<1>8. s[m] <= Len(c)
  BY <1>4
<1>9. Shape(c, ps, s) /\ Undamaged(c, ps, s)
  BY <1>1, <1>4, <1>5, <1>6, <1>7, <1>8 DEF Shape, Undamaged
<1>10. ASSUME Len(c) # 0 PROVE c[Len(c)][1] # "magic"
  <2>1. m # 0 /\ m \in 1..m /\ m - 1 \in 0..m
    BY <1>3, <1>4, <1>10
  <2>2. FrameAt(c, s[m - 1], ps[m]) /\ s[m] = s[m - 1] + Len(ps[m]) + 3
    BY <1>3, <1>5, <2>1
  <2>3. c[s[m]] = Crc(Data(ps[m]))
    BY <2>2 DEF FrameAt
  <2> QED BY <1>4, <2>3 DEF Crc
<1> QED BY <1>9, <1>10

(* The starts with one more frame.                                         *)
Further(s, m, n) == [k \in 0..(m + 1) |-> IF k = m + 1 THEN s[m] + n ELSE s[k]]

LEMMA AppendWhole ==
  ASSUME NEW ps, NEW s, NEW c, Setting(ps, s, c), NEW p \in Payloads,
         NEW r, r = c \o EncodeFrame(p),
         NEW qs, qs = Append(ps, p), NEW t, t = Further(s, Len(ps), Len(p) + 3)
  PROVE  Setting(qs, t, r)
<1>1. PICK m : m = Len(ps)
  OBVIOUS
<1>2. ps \in Seq(Payloads) /\ Starts(ps, s)
  BY DEF Setting
<1>3. /\ m \in Nat
      /\ \A k \in 0..m : s[k] \in Nat
      /\ \A k \in 1..m : ps[k] \in Payloads /\ Len(ps[k]) \in Nat
      /\ \A k \in 1..m : s[k] = s[k - 1] + Len(ps[k]) + 3
      /\ s[0] = 0
  BY <1>1, <1>2, StartsGrow DEF Starts
<1>4. \A j, k \in 0..m : j <= k => s[j] <= s[k]
  BY <1>1, <1>2, StartsGrow
<1>5. IsSeq(c) /\ Cells(c) /\ Len(c) = s[m] /\ s[m] \in Nat
  BY <1>1, <1>3 DEF Setting, Layout
<1>6. \A k \in 1..m : FrameAt(c, s[k - 1], ps[k])
  BY <1>1 DEF Setting, Layout
<1>7. PICK f : f = EncodeFrame(p)
  OBVIOUS
<1>8. Len(p) \in Nat /\ IsSeq(f) /\ Len(f) = Len(p) + 3 /\ FrameAt(f, 0, p)
  BY <1>7, FrameCells, PayloadFacts
<1>9. Cells(f)
  BY <1>7, FrameHasCells
<1>10. Joins(r, c, f)
  BY <1>5, <1>7, <1>8, Joined
<1>11. Cells(r)
  BY <1>5, <1>8, <1>9, <1>10, WholeFile, CellsJoined
<1>12. PICK e \in Nat : e = s[m]
  BY <1>5
<1>13. PICK l \in Nat : l = Len(p)
  BY <1>8
<1>14. /\ IsSeq(r) /\ Len(r) = e + (l + 3)
       /\ \A i \in 1..e : r[i] = c[i]
       /\ \A i \in 1..(l + 3) : r[e + i] = f[i]
  BY <1>5, <1>8, <1>10, <1>12, <1>13 DEF Joins
<1>15. /\ qs \in Seq(Payloads) /\ Len(qs) = m + 1 /\ qs[m + 1] = p
       /\ \A k \in 1..m : qs[k] = ps[k]
  BY <1>1, <1>2, <1>3
<1>16. /\ t = [k \in 0..(m + 1) |-> IF k = m + 1 THEN e + (l + 3) ELSE s[k]]
       /\ t[m + 1] = e + (l + 3)
       /\ \A k \in 0..m : t[k] = s[k]
  BY <1>1, <1>3, <1>12, <1>13 DEF Further
<1>17. Starts(qs, t)
  <2>1. \A k \in 0..(m + 1) : k = m + 1 \/ k \in 0..m
    BY <1>3
  <2>2. t \in [0..(m + 1) -> Nat]
    <3>1. \A k \in 0..(m + 1) :
            (IF k = m + 1 THEN e + (l + 3) ELSE s[k]) \in Nat
      BY <1>3, <2>1
    <3> QED BY <1>16, <3>1
  <2>3. t[0] = 0
    BY <1>3, <1>16
  <2>4. ASSUME NEW k \in 1..(m + 1) PROVE t[k] = t[k - 1] + Len(qs[k]) + 3
    <3>1. CASE k = m + 1
      <4>1. t[k] = e + (l + 3)
        BY <1>16, <3>1
      <4>2. k - 1 = m /\ t[m] = e /\ qs[k] = p
        BY <1>3, <1>15, <1>16, <1>12, <3>1
      <4>3. t[k - 1] = e /\ Len(qs[k]) = l
        BY <1>13, <4>2
      <4> QED BY <4>1, <4>3
    <3>2. CASE k # m + 1
      <4>1. k \in 1..m /\ k \in 0..m /\ k - 1 \in 0..m
        BY <1>3, <3>2
      <4>2. t[k] = s[k] /\ t[k - 1] = s[k - 1] /\ qs[k] = ps[k]
        BY <1>15, <1>16, <4>1
      <4> QED BY <1>3, <4>1, <4>2
    <3> QED BY <3>1, <3>2
  <2> QED BY <1>15, <2>2, <2>3, <2>4 DEF Starts
<1>18. ASSUME NEW k \in 1..(m + 1) PROVE FrameAt(r, t[k - 1], qs[k])
  <2>1. CASE k = m + 1
    <3>1. k - 1 = m /\ t[k - 1] = e /\ qs[k] = p
      BY <1>3, <1>15, <1>16, <1>12, <2>1
    <3>2. r[e + 1] = f[1] /\ r[e + 2] = f[2]
      BY <1>14
    <3>3. \A i \in 1..l : r[e + 2 + i] = f[2 + i]
      <4>1. TAKE i \in 1..l
      <4>2. 2 + i \in 1..(l + 3) /\ e + (2 + i) = e + 2 + i
        OBVIOUS
      <4>3. r[e + (2 + i)] = f[2 + i]
        BY <1>14, <4>2
      <4> QED BY <4>2, <4>3
    <3>4. r[e + l + 3] = f[l + 3]
      <4>1. l + 3 \in 1..(l + 3) /\ e + (l + 3) = e + l + 3
        OBVIOUS
      <4>2. r[e + (l + 3)] = f[l + 3]
        BY <1>14, <4>1
      <4> QED BY <4>1, <4>2
    <3>5. /\ f[1] = Magic /\ f[2] = Length(l)
          /\ \A i \in 1..l : f[2 + i] = <<"byte", p[i]>>
          /\ f[l + 3] = Crc(Data(p))
      BY <1>8, <1>13 DEF FrameAt
    <3>6. FrameAt(r, e, p)
      BY <1>13, <3>2, <3>3, <3>4, <3>5 DEF FrameAt
    <3> QED BY <3>1, <3>6
  <2>2. CASE k # m + 1
    <3>1. k \in 1..m /\ k \in 0..m /\ k - 1 \in 0..m /\ m \in 0..m /\ k <= m
      BY <1>3, <2>2
    <3>2. t[k - 1] = s[k - 1] /\ qs[k] = ps[k] /\ s[k] <= e
      BY <1>4, <1>15, <1>16, <1>12, <3>1
    <3>3. PICK o, q : o = s[k - 1] /\ q = ps[k]
      OBVIOUS
    <3>4. /\ o \in Nat /\ q \in Payloads /\ o + Len(q) + 3 <= e
          /\ FrameAt(c, o, q)
      BY <1>3, <1>6, <3>1, <3>2, <3>3
    <3>5. FrameAt(r, o, q)
      BY <1>5, <1>14, <3>4, FrameKept
    <3> QED BY <3>2, <3>3, <3>5
  <2> QED BY <2>1, <2>2
<1>19. Layout(qs, t, r)
  BY <1>14, <1>15, <1>16, <1>18 DEF Layout
<1> QED BY <1>11, <1>15, <1>17, <1>19 DEF Setting

LEMMA AppendPart ==
  ASSUME NEW ps, NEW s, NEW c, Setting(ps, s, c), NEW p \in Payloads,
         NEW f, f = EncodeFrame(p), NEW n \in 0..Len(f), n # Len(f),
         NEW q, CutAt(q, f, n), NEW r, Joins(r, c, q)
  PROVE  Shape(r, ps, s) /\ Undamaged(r, ps, s)
<1>1. PICK m : m = Len(ps)
  OBVIOUS
<1>2. ps \in Seq(Payloads) /\ Starts(ps, s)
  BY DEF Setting
<1>3. /\ m \in Nat
      /\ \A k \in 0..m : s[k] \in Nat
      /\ \A k \in 1..m : ps[k] \in Payloads /\ Len(ps[k]) \in Nat
      /\ \A k \in 1..m : s[k] = s[k - 1] + Len(ps[k]) + 3
  BY <1>1, <1>2, StartsGrow DEF Starts
<1>4. \A j, k \in 0..m : j <= k => s[j] <= s[k]
  BY <1>1, <1>2, StartsGrow
<1>5. PICK e \in Nat : e = s[m]
  BY <1>3
<1>6. IsSeq(c) /\ Cells(c) /\ Len(c) = e
  BY <1>1, <1>5 DEF Setting, Layout
<1>7. \A k \in 1..m : FrameAt(c, s[k - 1], ps[k])
  BY <1>1 DEF Setting, Layout
<1>8. PICK l \in Nat : l = Len(p) /\ l \in 1..MaximumPayload
  BY PayloadFacts
<1>9. IsSeq(f) /\ Len(f) = l + 3 /\ FrameAt(f, 0, p) /\ Cells(f)
  BY <1>8, FrameCells, FrameHasCells
<1>10. n \in Nat /\ n < l + 3
  BY <1>9
<1>11. IsSeq(q) /\ Len(q) = n /\ \A i \in 1..n : q[i] = f[i]
  BY DEF CutAt
<1>12. Cells(q)
  BY <1>9, CellsCut
<1>13. Len(c) # 0 => c[Len(c)][1] # "magic"
  BY WholeFile
<1>14. f[1] = Magic /\ f[2] = Length(l)
  BY <1>8, <1>9 DEF FrameAt
<1>15. Cells(r)
  BY <1>6, <1>11, <1>12, <1>13, CellsJoined
<1>16. /\ IsSeq(r) /\ Len(r) = e + n
       /\ \A i \in 1..e : r[i] = c[i]
       /\ \A i \in 1..n : r[e + i] = f[i]
  BY <1>6, <1>11 DEF Joins
<1>17. /\ f[1] = Magic /\ f[2] = Length(l)
       /\ \A i \in 1..l : f[2 + i] = <<"byte", p[i]>>
  BY <1>8, <1>9 DEF FrameAt
<1>18. ASSUME NEW k \in 1..m
       PROVE  FrameAt(r, s[k - 1], ps[k]) /\ FieldsAt(r, s[k - 1], ps[k])
  <2>1. k \in 0..m /\ k - 1 \in 0..m /\ m \in 0..m /\ k <= m
    BY <1>3
  <2>2. s[k] <= e
    BY <1>4, <1>5, <2>1
  <2>3. PICK o, x : o = s[k - 1] /\ x = ps[k]
    OBVIOUS
  <2>4. o \in Nat /\ x \in Payloads /\ o + Len(x) + 3 <= e /\ FrameAt(c, o, x)
    BY <1>3, <1>7, <2>1, <2>2, <2>3
  <2>5. FrameAt(r, o, x)
    <3>1. \A i \in 1..e : r[i] = c[i]
      BY <1>16
    <3>2. o \in Nat /\ x \in Payloads /\ FrameAt(c, o, x)
      BY <2>4
    <3>3. o + Len(x) + 3 <= e
      BY <2>4
    <3> QED BY <3>1, <3>2, <3>3, FrameKept
  <2>6. FieldsAt(r, o, x)
    BY <2>4, <2>5, FrameHasFields
  <2> QED BY <2>3, <2>5, <2>6
<1>19. n >= 1 => r[e + 1] = Magic
  BY <1>10, <1>16, <1>17
<1>20. n >= 2 => r[e + 2] = Length(l)
  BY <1>10, <1>16, <1>17
<1>21. ASSUME NEW i \in (e + 3)..(e + n) PROVE r[i][1] = "byte"
  <2>1. PICK j : j = i - e - 2
    OBVIOUS
  <2>2. j \in 1..l /\ 2 + j \in 1..n /\ e + (2 + j) = i
    BY <1>10, <2>1
  <2>3. r[i] = f[2 + j]
    <3>1. r[e + (2 + j)] = f[2 + j]
      BY <1>16, <2>2
    <3> QED BY <2>2, <3>1
  <2>4. f[2 + j] = <<"byte", p[j]>>
    BY <1>17, <2>2
  <2>5. r[i] = <<"byte", p[j]>>
    BY <2>3, <2>4, Zenon
  <2> QED BY <2>5
<1>22. TailAt(r, e)
  <2>1. Len(r) >= e + 1 => r[e + 1][1] = "magic"
    BY <1>10, <1>16, <1>19 DEF Magic
  <2>2. Len(r) >= e + 2 => r[e + 2][1] = "length"
    BY <1>10, <1>16, <1>20 DEF Length
  <2>3. \A i \in (e + 3)..Len(r) : r[i][1] = "byte"
    BY <1>16, <1>21
  <2> QED BY <2>1, <2>2, <2>3 DEF TailAt
<1>23. CleanTailAt(r, e)
  <2>1. Len(r) >= e + 1 => r[e + 1] = Magic
    BY <1>10, <1>16, <1>19
  <2>2. ASSUME Len(r) >= e + 2
        PROVE  \E x \in 1..MaximumPayload : r[e + 2] = Length(x) /\ Len(r) < e + x + 3
    <3>1. r[e + 2] = Length(l)
      BY <1>10, <1>16, <1>20, <2>2
    <3>2. Len(r) < e + l + 3
      BY <1>10, <1>16
    <3> QED BY <1>8, <3>1, <3>2
  <2> QED BY <2>1, <2>2 DEF CleanTailAt
<1>24. e <= Len(r)
  BY <1>10, <1>16
<1> QED BY <1>1, <1>5, <1>15, <1>16, <1>18, <1>22, <1>23, <1>24 DEF Shape, Undamaged

-----------------------------------------------------------------------------
(* Cutting a file behind one of its frames.                                *)
Fewer(s, j) == [k \in 0..j |-> s[k]]

LaidOut(qs, t, r) ==
  qs \in Seq(Payloads) /\ Starts(qs, t) /\ Layout(qs, t, r)

LEMMA LayoutIsCut ==
  ASSUME NEW ps \in Seq(Payloads), NEW s, Starts(ps, s), NEW j \in 0..Len(ps),
         NEW file, IsSeq(file), s[j] <= Len(file),
         \A k \in 1..j : FrameAt(file, s[k - 1], ps[k]),
         NEW qs, qs = SubSeq(ps, 1, j), NEW t, t = Fewer(s, j),
         NEW r, CutAt(r, file, s[j])
  PROVE  LaidOut(qs, t, r)
<1>1. t = Fewer(s, j)
  OBVIOUS
<1>2. PICK m \in Nat : m = Len(ps)
  OBVIOUS
<1>3. j \in Nat /\ j \in 0..m /\ \A k \in 0..j : k \in 0..m
  BY <1>2
<1>4. /\ \A k \in 0..m : s[k] \in Nat
      /\ \A k \in 1..m : ps[k] \in Payloads /\ Len(ps[k]) \in Nat
      /\ \A k \in 1..m : s[k] = s[k - 1] + Len(ps[k]) + 3
      /\ s[0] = 0
  BY <1>2, StartsGrow DEF Starts
<1>5. \A i, k \in 0..m : i <= k => s[i] <= s[k]
  BY <1>2, StartsGrow
<1>6. PICK e \in Nat : e = s[j]
  BY <1>3, <1>4
<1>7. /\ qs \in Seq(Payloads) /\ Len(qs) = j
      /\ \A k \in 1..j : qs[k] = ps[k]
  <2>1. qs = [k \in 1..j |-> ps[k]] /\ Len(qs) = j
    BY <1>2, <1>3
  <2>2. \A k \in 1..j : ps[k] \in Payloads
    BY <1>3, <1>4
  <2>3. qs \in Seq(Payloads)
    BY <1>3, <2>1, <2>2
  <2> QED BY <2>1, <2>3
<1>8. IsSeq(r) /\ Len(r) = e /\ \A i \in 1..e : r[i] = file[i]
  BY <1>6 DEF CutAt
<1>10. t = [k \in 0..j |-> s[k]] /\ \A k \in 0..j : t[k] = s[k]
  BY <1>1 DEF Fewer
<1>11. Starts(qs, t)
  <2>1. t \in [0..j -> Nat]
    BY <1>3, <1>4, <1>10
  <2>2. t[0] = 0
    BY <1>3, <1>4, <1>10
  <2>3. ASSUME NEW k \in 1..j PROVE t[k] = t[k - 1] + Len(qs[k]) + 3
    <3>1. k \in 1..m /\ k \in 0..j /\ k - 1 \in 0..j
      BY <1>3
    <3>2. t[k] = s[k] /\ t[k - 1] = s[k - 1] /\ qs[k] = ps[k]
      BY <1>7, <1>10, <3>1
    <3> QED BY <1>4, <3>1, <3>2
  <2> QED BY <1>7, <2>1, <2>2, <2>3 DEF Starts
<1>12. ASSUME NEW k \in 1..j PROVE FrameAt(r, t[k - 1], qs[k])
  <2>1. k \in 1..m /\ k \in 0..m /\ k - 1 \in 0..m /\ k - 1 \in 0..j /\ k <= j
    BY <1>3
  <2>2. s[k] <= e
    BY <1>3, <1>5, <1>6, <2>1
  <2>3. PICK o, x : o = s[k - 1] /\ x = ps[k]
    OBVIOUS
  <2>4. o \in Nat /\ x \in Payloads /\ o + Len(x) + 3 <= e /\ FrameAt(file, o, x)
    BY <1>4, <2>1, <2>2, <2>3
  <2>5. FrameAt(r, o, x)
    <3>1. \A i \in 1..e : r[i] = file[i]
      BY <1>8
    <3>2. o \in Nat /\ x \in Payloads /\ FrameAt(file, o, x)
      BY <2>4
    <3>3. o + Len(x) + 3 <= e
      BY <2>4
    <3> QED BY <3>1, <3>2, <3>3, FrameKept
  <2>6. t[k - 1] = o /\ qs[k] = x
    BY <1>7, <1>10, <2>1, <2>3
  <2> QED BY <2>5, <2>6
<1>13. t[j] = e
  BY <1>3, <1>6, <1>10
<1>14. Layout(qs, t, r)
  BY <1>7, <1>8, <1>12, <1>13 DEF Layout
<1> QED BY <1>7, <1>11, <1>14 DEF LaidOut

LEMMA CutBehindFrame ==
  ASSUME NEW ps \in Seq(Payloads), NEW s, Starts(ps, s), NEW j \in 0..Len(ps),
         NEW file, IsSeq(file), Cells(file), s[j] <= Len(file),
         \A k \in 1..j : FrameAt(file, s[k - 1], ps[k]),
         NEW qs, qs = SubSeq(ps, 1, j), NEW t, t = Fewer(s, j),
         NEW r, CutAt(r, file, s[j])
  PROVE  Setting(qs, t, r)
<1>1. LaidOut(qs, t, r)
  BY LayoutIsCut
<1>2. PICK e \in Nat : e = s[j]
  BY StartsGrow
<1>3. Cells(r)
  <2>1. e \in 0..Len(file)
    BY <1>2, SeqFacts
  <2>2. CutAt(r, file, e)
    BY <1>2
  <2> QED BY <2>1, <2>2, CellsCut
<1> QED BY <1>1, <1>3 DEF LaidOut, Setting

-----------------------------------------------------------------------------
(* Damage to one cell.                                                     *)

LEMMA DamagedCell ==
  ASSUME NEW a, IsCell(a), NEW b \in DamagedCells(a)
  PROVE  /\ IsCell(b) /\ b[1] = a[1]
         /\ a[1] = "crc" => b = Crc(<<>>)
<1>1. CASE a[1] = "magic"
  BY <1>1 DEF DamagedCells, IsCell
<1>2. CASE a[1] = "length"
  <2>1. b \in {Length(n) : n \in 0..(MaximumPayload + 1)}
    BY <1>2 DEF DamagedCells
  <2>2. PICK n \in 0..(MaximumPayload + 1) : b = Length(n)
    BY <2>1
  <2>3. n \in Nat
    BY PayloadsEncode
  <2> QED BY <1>2, <2>2, <2>3 DEF IsCell, Length
<1>3. CASE a[1] = "byte"
  BY <1>3 DEF DamagedCells, IsCell
<1>4. CASE a[1] = "crc"
  <2>1. b = Crc(<<>>)
    BY <1>4 DEF DamagedCells
  <2>2. \A x \in DOMAIN <<>> : <<>>[x][1] = "byte"
    OBVIOUS
  <2> QED BY <1>4, <2>1, <2>2 DEF IsCell, Crc
<1> QED BY <1>1, <1>2, <1>3, <1>4 DEF IsCell, Length, Crc

LEMMA DamagedFile ==
  ASSUME NEW ps \in Seq(Payloads), NEW s, Starts(ps, s),
         NEW file, Shape(file, ps, s),
         NEW i \in DOMAIN file, NEW cell \in DamagedCells(file[i]),
         NEW r, r = [file EXCEPT ![i] = cell]
  PROVE  Shape(r, ps, s)
<1>1. PICK m \in Nat : m = Len(ps)
  OBVIOUS
<1>2. PICK n \in Nat : n = Len(file)
  BY SeqFacts DEF Shape
<1>3. /\ \A k \in 0..m : s[k] \in Nat
      /\ \A k \in 1..m : ps[k] \in Payloads /\ Len(ps[k]) \in Nat
      /\ \A k \in 1..m : s[k] = s[k - 1] + Len(ps[k]) + 3
  BY <1>1, StartsGrow DEF Starts
<1>4. \A j, k \in 0..m : j <= k => s[j] <= s[k]
  BY <1>1, StartsGrow
<1>5. PICK e \in Nat : e = s[m]
  BY <1>3
<1>6. /\ IsSeq(file) /\ Cells(file) /\ e <= n
      /\ \A k \in 1..m : FieldsAt(file, s[k - 1], ps[k])
      /\ TailAt(file, e)
  BY <1>1, <1>2, <1>5 DEF Shape
<1>7. DOMAIN file = 1..n /\ file = [x \in 1..n |-> file[x]]
  BY <1>2, <1>6, SeqFacts
<1>8. IsSeq(r) /\ Len(r) = n
  <2>1. DOMAIN r = 1..n /\ r = [x \in 1..n |-> r[x]]
    BY <1>7
  <2> QED BY <2>1, SeqMade
<1>9. \A x \in 1..n : r[x] = IF x = i THEN cell ELSE file[x]
  BY <1>7
<1>10. ASSUME NEW x \in 1..n
       PROVE  /\ IsCell(r[x]) /\ r[x][1] = file[x][1]
              /\ file[x][1] = "crc" => r[x] \in {file[x], Crc(<<>>)}
  <2>1. IsCell(file[x])
    BY <1>2, <1>6 DEF Cells
  <2>2. CASE x = i
    BY <1>9, <2>1, <2>2, DamagedCell
  <2>3. CASE x # i
    BY <1>9, <2>1, <2>3
  <2> QED BY <2>2, <2>3
<1>11. Cells(r)
  <2>1. ASSUME NEW x \in 1..(n - 1), r[x][1] = "magic" PROVE r[x + 1][1] = "length"
    <3>1. x \in 1..n /\ x + 1 \in 1..n
      OBVIOUS
    <3>2. file[x][1] = "magic"
      BY <1>10, <2>1, <3>1
    <3>3. file[x + 1][1] = "length"
      BY <1>2, <1>6, <3>2 DEF Cells
    <3> QED BY <1>10, <3>1, <3>3
  <2> QED BY <1>8, <1>10, <2>1 DEF Cells
<1>12. ASSUME NEW k \in 1..m PROVE FieldsAt(r, s[k - 1], ps[k])
  <2>1. k \in 0..m /\ k - 1 \in 0..m /\ m \in 0..m /\ k <= m
    BY <1>1
  <2>2. s[k] <= e
    BY <1>4, <1>5, <2>1
  <2>3. PICK o \in Nat : o = s[k - 1]
    BY <1>3, <2>1
  <2>4. PICK p, l : p = ps[k] /\ l = Len(ps[k])
    OBVIOUS
  <2>5. l \in Nat /\ o + l + 3 <= n
    BY <1>3, <1>6, <2>1, <2>2, <2>3, <2>4
  <2>6. /\ file[o + 1][1] = "magic" /\ file[o + 2][1] = "length"
        /\ \A x \in 1..l : file[o + 2 + x][1] = "byte"
        /\ file[o + l + 3] \in {Crc(Data(p)), Crc(<<>>)}
    <3>1. FieldsAt(file, o, p) /\ l = Len(p)
      BY <1>6, <2>3, <2>4
    <3> QED BY <3>1 DEF FieldsAt
  <2>7. o + 1 \in 1..n /\ o + 2 \in 1..n /\ o + l + 3 \in 1..n
    BY <2>5
  <2>8. \A x \in 1..l : o + 2 + x \in 1..n
    BY <2>5
  <2>9. r[o + 1][1] = "magic" /\ r[o + 2][1] = "length"
    BY <1>10, <2>6, <2>7
  <2>10. \A x \in 1..l : r[o + 2 + x][1] = "byte"
    BY <1>10, <2>6, <2>8
  <2>11. r[o + l + 3] \in {Crc(Data(p)), Crc(<<>>)}
    <3>1. file[o + l + 3][1] = "crc"
      BY <2>6 DEF Crc
    <3>2. r[o + l + 3] \in {file[o + l + 3], Crc(<<>>)}
      BY <1>10, <2>7, <3>1
    <3> QED BY <2>6, <3>2
  <2>12. FieldsAt(r, o, p)
    BY <2>4, <2>9, <2>10, <2>11 DEF FieldsAt
  <2> QED BY <2>3, <2>4, <2>12
<1>13. TailAt(r, e)
  <2>1. n >= e + 1 => r[e + 1][1] = "magic"
    <3>1. n >= e + 1 => e + 1 \in 1..n
      OBVIOUS
    <3> QED BY <1>2, <1>6, <1>10, <3>1 DEF TailAt
  <2>2. n >= e + 2 => r[e + 2][1] = "length"
    <3>1. n >= e + 2 => e + 2 \in 1..n
      OBVIOUS
    <3> QED BY <1>2, <1>6, <1>10, <3>1 DEF TailAt
  <2>3. \A x \in (e + 3)..n : r[x][1] = "byte"
    <3>1. \A x \in (e + 3)..n : x \in 1..n
      OBVIOUS
    <3> QED BY <1>2, <1>6, <1>10, <3>1 DEF TailAt
  <2> QED BY <1>8, <2>1, <2>2, <2>3 DEF TailAt
<1> QED BY <1>1, <1>5, <1>6, <1>8, <1>11, <1>12, <1>13 DEF Shape

-----------------------------------------------------------------------------
(* What decode_frame says at an offset.                                    *)
Rest(file, o) == SubSeq(file, o + 1, Len(file))

IsRest(rest, file, o) ==
  /\ IsSeq(rest) /\ Len(rest) = Len(file) - o
  /\ \A i \in 1..(Len(file) - o) : rest[i] = file[o + i]
  /\ rest = <<>> <=> o = Len(file)

LEMMA RestIs ==
  ASSUME NEW file, IsSeq(file), NEW o \in 0..Len(file), NEW rest, rest = Rest(file, o)
  PROVE  IsRest(rest, file, o)
<1>1. PICK S : file \in Seq(S)
  BY DEF IsSeq
<1>2. PICK n \in Nat : n = Len(file)
  BY <1>1
<1>3. \A i \in (o + 1)..n : file[i] \in S
  BY <1>1, <1>2
<1>4. /\ rest = [i \in 1..(n - o) |-> file[o + i]]
      /\ Len(rest) = n - o
  BY <1>1, <1>2 DEF Rest
<1>5. DOMAIN rest = 1..(n - o) /\ \A i \in 1..(n - o) : rest[i] = file[o + i]
  BY <1>4
<1>6. IsSeq(rest) /\ Len(rest) = n - o
  <2>1. n - o \in Nat
    BY <1>2
  <2>2. rest = [i \in 1..(n - o) |-> rest[i]]
    BY <1>4, <1>5
  <2> QED BY <1>5, <2>1, <2>2, SeqMade
<1>7. rest = <<>> <=> o = n
  <2>1. rest = <<>> <=> Len(rest) = 0
    BY <1>6, SeqFacts
  <2>2. n - o = 0 <=> o = n
    BY <1>2
  <2> QED BY <1>6, <2>1, <2>2
<1> QED BY <1>2, <1>5, <1>6, <1>7 DEF IsRest

(* The error e that a frame at offset o gives, where n is the length and d *)
(* the data that decode_frame reads.                                       *)
Decoding(file, o, n, d, e) ==
  /\ Len(file) < o + 2 => e = "UnexpectedEnd"
  /\ Len(file) >= o + 2 /\ file[o + 1] # Magic => e = "InvalidMagic"
  /\ Len(file) >= o + 2 /\ file[o + 1] = Magic =>
       /\ n \in Nat /\ file[o + 2] = Length(n)
       /\ n > MaximumPayload => e = "PayloadTooLarge"
       /\ n <= MaximumPayload /\ Len(file) < o + n + 3 => e = "UnexpectedEnd"
       /\ n <= MaximumPayload /\ Len(file) >= o + n + 3 =>
            /\ IsSeq(d) /\ Len(d) = n
            /\ \A i \in 1..n : d[i] = file[o + 2 + i]
            /\ e = IF file[o + n + 3] # Crc(d) THEN "CrcMismatch" ELSE Ok

LEMMA DecodesAt ==
  ASSUME NEW file, IsSeq(file), Cells(file), NEW o \in 0..Len(file),
         NEW rest, rest = Rest(file, o)
  PROVE  Decoding(file, o, PayloadSize(rest), DataOf(rest), DecodeError(rest))
<1>1. PICK L \in Nat : L = Len(file)
  BY SeqFacts
<1>2. PICK n : n = PayloadSize(rest)
  OBVIOUS
<1>3. PICK d : d = DataOf(rest)
  OBVIOUS
<1>4. PICK e : e = DecodeError(rest)
  OBVIOUS
<1>5. PICK R \in Nat : R = Len(rest) /\ R = L - o
  <2>1. Len(rest) = L - o
    BY <1>1, RestIs DEF IsRest
  <2> QED BY <1>1, <2>1
<1>6. \A i \in 1..R : rest[i] = file[o + i]
  <2>1. \A i \in 1..(Len(file) - o) : rest[i] = file[o + i]
    <3>1. IsRest(rest, file, o)
      BY RestIs
    <3> QED BY <3>1 DEF IsRest
  <2>2. Len(file) - o = R
    BY <1>1, <1>5
  <2> QED BY <2>1, <2>2
<1>7. MaximumPayload \in Nat
  BY PayloadsEncode
<1>8. L < o + 2 <=> R < 2
  BY <1>1, <1>5
<1>9. CASE R < 2
  <2>1. e = "UnexpectedEnd"
    BY <1>4, <1>5, <1>9
       DEF DecodeError, HeaderError, HeaderSize, ??, Fail, Ok
  <2> QED BY <1>1, <1>2, <1>3, <1>4, <1>8, <1>9, <2>1 DEF Decoding
<1>10. CASE R >= 2 /\ file[o + 1] # Magic
  <2>1. rest[1] # Magic
    BY <1>5, <1>6, <1>10
  <2>2. e = "InvalidMagic"
    BY <1>4, <1>5, <1>10, <2>1
       DEF DecodeError, HeaderError, HeaderSize, ??, Fail, Ok
  <2>3. ~(L < o + 2)
    BY <1>5, <1>8, <1>10
  <2> QED BY <1>1, <1>2, <1>3, <1>4, <1>10, <2>2, <2>3 DEF Decoding
<1>11. CASE R >= 2 /\ file[o + 1] = Magic
  <2>1. rest[1] = Magic /\ rest[2] = file[o + 2]
    BY <1>5, <1>6, <1>11
  <2>2. file[o + 2][1] = "length" /\ IsCell(file[o + 2])
    <3>1. o + 1 \in 1..(L - 1) /\ o + 2 \in 1..L /\ o + 1 + 1 = o + 2
      BY <1>1, <1>5, <1>11
    <3>2. file[o + 1][1] = "magic"
      BY <1>11 DEF Magic
    <3> QED BY <1>1, <3>1, <3>2 DEF Cells
  <2>3. n = file[o + 2][2]
    BY <1>2, <2>1 DEF PayloadSize
  <2>4. n \in Nat /\ file[o + 2] = Length(n)
    BY <2>2, <2>3 DEF IsCell, Length, Crc
  <2>5. CASE n > MaximumPayload
    <3>1. e = "PayloadTooLarge"
      BY <1>2, <1>4, <1>5, <1>11, <2>1, <2>5
         DEF DecodeError, HeaderError, HeaderSize, ??, Fail, Ok
    <3>2. ~(n <= MaximumPayload) /\ ~(L < o + 2)
      BY <1>5, <1>7, <1>8, <1>11, <2>4, <2>5
    <3> QED BY <1>1, <1>2, <1>3, <1>4, <1>11, <2>4, <3>1, <3>2 DEF Decoding
  <2>6. CASE n <= MaximumPayload
    <3>1. ~(n > MaximumPayload) /\ ~(L < o + 2)
      BY <1>5, <1>7, <1>8, <1>11, <2>4, <2>6
    <3>2. HeaderError(rest) = Ok
      BY <1>2, <1>5, <1>7, <1>11, <2>1, <2>4, <3>1
         DEF HeaderError, HeaderSize, ??, Fail, Ok
    <3>3. FrameSize(rest) = n + 3
      BY <1>2, <2>4 DEF FrameSize, HeaderSize, CrcSize
    <3>4. L < o + n + 3 <=> R < n + 3
      BY <1>1, <1>5, <2>4
    <3>5. CASE R < n + 3
      <4>1. e = "UnexpectedEnd"
        BY <1>4, <1>5, <3>2, <3>3, <3>5 DEF DecodeError, SizeError, ??, Fail, Ok
      <4>2. L < o + n + 3
        BY <3>4, <3>5
      <4>3. ~(L >= o + n + 3)
        BY <2>4, <4>2
      <4> QED BY <1>1, <1>2, <1>3, <1>4, <1>11, <2>4, <3>1, <4>1, <4>2, <4>3
              DEF Decoding
    <3>6. CASE ~(R < n + 3)
      <4>1. e = CrcError(rest)
        BY <1>4, <1>5, <3>2, <3>3, <3>6 DEF DecodeError, SizeError, ??, Fail, Ok
      <4>2. StoredCrc(rest) = file[o + n + 3]
        <5>1. StoredCrc(rest) = rest[n + 3]
          BY <1>2, <2>4 DEF StoredCrc, HeaderSize
        <5>2. n + 3 \in 1..R /\ o + (n + 3) = o + n + 3
          BY <2>4, <3>6
        <5>3. rest[n + 3] = file[o + (n + 3)]
          BY <1>6, <5>2
        <5> QED BY <5>1, <5>2, <5>3
      <4>3. e = IF file[o + n + 3] # Crc(d) THEN "CrcMismatch" ELSE Ok
        BY <1>3, <4>1, <4>2 DEF CrcError, Fail
      <4>4. IsSeq(d) /\ Len(d) = n /\ \A i \in 1..n : d[i] = file[o + 2 + i]
        <5>1. d = SubSeq(rest, 3, 2 + n)
          BY <1>2, <1>3, <2>4 DEF DataOf, HeaderSize
        <5>2. PICK S : rest \in Seq(S)
          BY RestIs DEF IsRest, IsSeq
        <5>3. \A i \in 1..n : 2 + i \in 1..R /\ o + (2 + i) = o + 2 + i
          BY <2>4, <3>6
        <5>4. d = [i \in 1..n |-> rest[2 + i]] /\ Len(d) = n
          <6>1. \A i \in 3..(2 + n) : rest[i] \in S
            <7>1. \A i \in 1..R : rest[i] \in S
              <8>1. \A i \in 1..Len(rest) : rest[i] \in S
                BY <5>2
              <8> QED BY <1>5, <8>1
            <7>2. \A i \in 3..(2 + n) : i \in 1..R
              BY <2>4, <3>6
            <7> QED BY <7>1, <7>2
          <6> QED BY <1>5, <2>4, <3>6, <5>1, <5>2, <6>1
        <5>5. \A i \in 1..n : d[i] = file[o + 2 + i]
          <6>1. TAKE i \in 1..n
          <6>2. d[i] = rest[2 + i]
            BY <5>4
          <6>3. rest[2 + i] = file[o + (2 + i)]
            BY <1>6, <5>3
          <6> QED BY <5>3, <6>2, <6>3
        <5>6. DOMAIN d = 1..n /\ d = [i \in 1..n |-> d[i]]
          BY <5>4
        <5>7. IsSeq(d) /\ Len(d) = n
          BY <2>4, <5>6, SeqMade
        <5> QED BY <5>5, <5>7
      <4>5. ~(L < o + n + 3)
        BY <3>4, <3>6
      <4> QED BY <1>1, <1>2, <1>3, <1>4, <1>11, <2>4, <3>1, <4>3, <4>4, <4>5
              DEF Decoding
    <3> QED BY <3>5, <3>6
  <2> QED BY <1>7, <2>4, <2>5, <2>6
<1> QED BY <1>5, <1>9, <1>10, <1>11

(* Where there is no error, there is room for the frame.                   *)
LEMMA DecodedFits ==
  ASSUME NEW file, IsSeq(file), Cells(file), NEW o \in 0..Len(file),
         NEW rest, rest = Rest(file, o), DecodeError(rest) = Ok,
         NEW n, n = PayloadSize(rest), NEW d, d = DataOf(rest)
  PROVE  /\ n \in Nat /\ FrameSize(rest) = n + 3 /\ o + n + 3 <= Len(file)
         /\ file[o + 1] = Magic /\ file[o + 2] = Length(n)
         /\ IsSeq(d) /\ Len(d) = n
         /\ \A i \in 1..n : d[i] = file[o + 2 + i]
         /\ file[o + n + 3] = Crc(d)
<1>1. Decoding(file, o, n, d, Ok)
  BY DecodesAt
<1>2. PICK L \in Nat : L = Len(file)
  BY SeqFacts
<1>3. MaximumPayload \in Nat
  BY PayloadsEncode
<1>4. L >= o + 2 /\ file[o + 1] = Magic
  BY <1>1, <1>2 DEF Decoding, Ok
<1>5. n \in Nat /\ file[o + 2] = Length(n)
  BY <1>1, <1>2, <1>4 DEF Decoding
<1>6. n <= MaximumPayload /\ L >= o + n + 3
  BY <1>1, <1>2, <1>3, <1>4, <1>5 DEF Decoding, Ok
<1>7. /\ IsSeq(d) /\ Len(d) = n
      /\ \A i \in 1..n : d[i] = file[o + 2 + i]
      /\ Ok = IF file[o + n + 3] # Crc(d) THEN "CrcMismatch" ELSE Ok
  BY <1>1, <1>2, <1>4, <1>6 DEF Decoding
<1>8. file[o + n + 3] = Crc(d)
  BY <1>7 DEF Ok
<1>9. FrameSize(rest) = n + 3
  BY <1>5 DEF FrameSize, HeaderSize, CrcSize
<1>10. o + n + 3 <= Len(file)
  BY <1>2, <1>5, <1>6
<1> QED BY <1>4, <1>5, <1>7, <1>8, <1>9, <1>10

-----------------------------------------------------------------------------
(* The recursion of the scan.                                              *)

(* What the scan returns at an offset, when it returns g[u] at each later  *)
(* offset u.                                                               *)
ScanAt(file, g, o) ==
  LET rest == Rest(file, o)
      error == DecodeError(rest)
  IN  CASE rest = <<>> -> ScanStopped(Ok, o, FALSE)
        [] rest # <<>> /\ error = "UnexpectedEnd" -> ScanStopped(Ok, o, TRUE)
        [] rest # <<>> /\ error \notin {Ok, "UnexpectedEnd"} ->
             ScanStopped(error, o, FALSE)
        [] OTHER -> [g[o + FrameSize(rest)] EXCEPT
                       !.payloads = <<DecodePayload(rest)>> \o @]

Scans(file, g) == g = [o \in 0..Len(file) |-> ScanAt(file, g, o)]

LEMMA ScanLooksAhead ==
  ASSUME NEW file, IsSeq(file), Cells(file), NEW o \in 0..Len(file),
         NEW g, NEW h, \A u \in (o + 1)..Len(file) : g[u] = h[u]
  PROVE  ScanAt(file, g, o) = ScanAt(file, h, o)
<1>1. PICK rest : rest = Rest(file, o)
  OBVIOUS
<1>2. PICK error : error = DecodeError(rest)
  OBVIOUS
<1>3. CASE error = Ok
  <2>1. PICK n : n = PayloadSize(rest)
    OBVIOUS
  <2>2. n \in Nat /\ FrameSize(rest) = n + 3 /\ o + n + 3 <= Len(file)
    BY <1>1, <1>2, <1>3, <2>1, DecodedFits
  <2>3. PICK u : u = o + FrameSize(rest)
    OBVIOUS
  <2>4. u \in (o + 1)..Len(file)
    <3>1. Len(file) \in Nat
      BY SeqFacts
    <3> QED BY <2>2, <2>3, <3>1
  <2>5. g[u] = h[u]
    BY <2>4
  <2> QED BY <1>1, <2>3, <2>5 DEF ScanAt
<1>4. CASE error # Ok
  BY <1>1, <1>2, <1>4 DEF ScanAt
<1> QED BY <1>3, <1>4

(* The scan has a value at every offset, from the end backwards.           *)
LEMMA ScanExists ==
  ASSUME NEW file, IsSeq(file), Cells(file)
  PROVE  \E g : Scans(file, g)
<1>1. PICK L \in Nat : L = Len(file)
  BY SeqFacts
<1> DEFINE From(k) == \E g : \A o \in (L - k)..L : g[o] = ScanAt(file, g, o)
           T == {k \in 0..L : ~From(k)}
<1>2. T = {}
  <2>1. SUFFICES ASSUME T # {} PROVE FALSE
    OBVIOUS
  <2>2. PICK k \in T : \A j \in T : k <= j
    <3>1. T \in SUBSET Nat
      OBVIOUS
    <3> HIDE DEF T
    <3> QED BY <2>1, <3>1, SmallestNumber
  <2>3. PICK a : a = L - k
    OBVIOUS
  <2>4. a \in 0..L /\ k \in 0..L
    BY <2>3
  <2>5. \E h : \A o \in (a + 1)..L : h[o] = ScanAt(file, h, o)
    <3>1. CASE k = 0
      <4>1. \A o \in (a + 1)..L : FALSE
        BY <2>3, <3>1
      <4> QED BY <4>1
    <3>2. CASE k # 0
      <4>1. k - 1 \in 0..L /\ ~(k <= k - 1)
        BY <2>4, <3>2
      <4>2. From(k - 1)
        BY <2>2, <4>1
      <4>3. L - (k - 1) = a + 1
        BY <2>3
      <4>4. \E g : \A o \in (L - (k - 1))..L : g[o] = ScanAt(file, g, o)
        BY <4>2
      <4> QED BY <4>3, <4>4
    <3> QED BY <3>1, <3>2
  <2>6. PICK h : \A o \in (a + 1)..L : h[o] = ScanAt(file, h, o)
    BY <2>5
  <2>7. PICK v : v = ScanAt(file, h, a)
    OBVIOUS
  <2>8. PICK g : g = [o \in 0..L |-> IF o = a THEN v ELSE h[o]]
    OBVIOUS
  <2>9. g[a] = v /\ \A u \in (a + 1)..L : g[u] = h[u]
    BY <2>4, <2>8
  <2>10. ASSUME NEW o \in a..L PROVE g[o] = ScanAt(file, g, o)
    <3>1. o \in 0..Len(file)
      BY <1>1, <2>4
    <3>2. \A u \in (o + 1)..Len(file) : g[u] = h[u]
      BY <1>1, <2>4, <2>9
    <3>3. ScanAt(file, g, o) = ScanAt(file, h, o)
      BY <3>1, <3>2, ScanLooksAhead
    <3>4. CASE o = a
      BY <2>7, <2>9, <3>3, <3>4
    <3>5. CASE o # a
      <4>1. o \in (a + 1)..L
        BY <2>4, <3>5
      <4> QED BY <2>6, <2>9, <3>3, <4>1
    <3> QED BY <3>4, <3>5
  <2>11. \A o \in (L - k)..L : g[o] = ScanAt(file, g, o)
    BY <2>3, <2>10
  <2>12. From(k)
    BY <2>11
  <2>13. ~From(k)
    BY <2>2
  <2> QED BY <2>12, <2>13
<1>3. From(L)
  <2>1. L \in 0..L
    OBVIOUS
  <2> QED BY <1>2, <2>1
<1>4. PICK g : \A o \in 0..L : g[o] = ScanAt(file, g, o)
  <2>1. L - L = 0
    OBVIOUS
  <2>2. \E g : \A o \in (L - L)..L : g[o] = ScanAt(file, g, o)
    BY <1>3
  <2> QED BY <2>1, <2>2
<1>5. PICK h : h = [o \in 0..L |-> g[o]]
  OBVIOUS
<1>6. ASSUME NEW o \in 0..L PROVE h[o] = ScanAt(file, h, o)
  <2>1. \A u \in (o + 1)..L : h[u] = g[u]
    BY <1>5
  <2>2. ScanAt(file, h, o) = ScanAt(file, g, o)
    BY <1>1, <2>1, ScanLooksAhead
  <2> QED BY <1>4, <1>5, <2>2
<1>7. Scans(file, h)
  <2>1. PICK f : f = [o \in 0..L |-> ScanAt(file, h, o)]
    OBVIOUS
  <2>2. \A o \in 0..L : f[o] = h[o]
    BY <1>6, <2>1
  <2>3. f = h
    BY <1>5, <2>1, <2>2
  <2> QED BY <1>1, <2>1, <2>3 DEF Scans
<1> QED BY <1>7

LEMMA ScanIs ==
  ASSUME NEW file, IsSeq(file), Cells(file)
  PROVE  \E g : Scans(file, g) /\ ScanJournal(file) = g[0]
<1> DEFINE F == CHOOSE g : Scans(file, g)
<1>1. Scans(file, F)
  BY ScanExists
<1>2. ScanJournal(file) = F[0]
  BY DEF ScanJournal, Scans, ScanAt, Rest
<1> QED BY <1>1, <1>2

(* The four ways a scan goes on at offset o.                               *)
ScanGoesOn(file, g, o, rest, error, r) ==
  /\ o = Len(file) => r = ScanStopped(Ok, o, FALSE)
  /\ o # Len(file) /\ error = "UnexpectedEnd" => r = ScanStopped(Ok, o, TRUE)
  /\ o # Len(file) /\ error \notin {Ok, "UnexpectedEnd"} =>
       r = ScanStopped(error, o, FALSE)
  /\ o # Len(file) /\ error = Ok =>
       r = [g[o + FrameSize(rest)] EXCEPT !.payloads = <<DecodePayload(rest)>> \o @]

LEMMA ScanCases ==
  ASSUME NEW file, IsSeq(file), Cells(file), NEW g, Scans(file, g),
         NEW o \in 0..Len(file), NEW rest, rest = Rest(file, o)
  PROVE  ScanGoesOn(file, g, o, rest, DecodeError(rest), g[o])
<1>1. g[o] = ScanAt(file, g, o)
  BY DEF Scans
<1>2. rest = <<>> <=> o = Len(file)
  BY RestIs DEF IsRest
<1> QED BY <1>1, <1>2 DEF ScanAt, ScanGoesOn, Ok

-----------------------------------------------------------------------------
(* What the scan returns at the start of a frame.                          *)

(* Decoding at the start of a frame of p succeeds only on that frame.      *)
LEMMA OnlyTheFrameDecodes ==
  ASSUME NEW file, IsSeq(file), Cells(file), NEW o \in 0..Len(file),
         NEW p \in Payloads, FieldsAt(file, o, p), o + Len(p) + 3 <= Len(file),
         NEW rest, rest = Rest(file, o), DecodeError(rest) = Ok
  PROVE  /\ FrameAt(file, o, p) /\ DecodePayload(rest) = p
         /\ FrameSize(rest) = Len(p) + 3
<1>1. PICK n : n = PayloadSize(rest)
  OBVIOUS
<1>2. PICK d : d = DataOf(rest)
  OBVIOUS
<1>3. /\ n \in Nat /\ FrameSize(rest) = n + 3 /\ o + n + 3 <= Len(file)
      /\ file[o + 1] = Magic /\ file[o + 2] = Length(n)
      /\ IsSeq(d) /\ Len(d) = n
      /\ \A i \in 1..n : d[i] = file[o + 2 + i]
      /\ file[o + n + 3] = Crc(d)
  BY <1>1, <1>2, DecodedFits
<1>4. PICK l \in Nat : l = Len(p) /\ l >= 1
  BY PayloadFacts
<1>5. PICK L \in Nat : L = Len(file)
  BY SeqFacts
<1>6. /\ \A i \in 1..l : file[o + 2 + i][1] = "byte"
      /\ file[o + l + 3] \in {Crc(Data(p)), Crc(<<>>)}
  BY <1>4 DEF FieldsAt
<1>7. ~(n < l)
  <2>1. SUFFICES ASSUME n < l PROVE FALSE
    OBVIOUS
  <2>2. n + 1 \in 1..l /\ o + 2 + (n + 1) = o + n + 3
    BY <1>3, <2>1
  <2>3. file[o + 2 + (n + 1)][1] = "byte"
    BY <1>6, <2>2
  <2> QED BY <1>3, <2>2, <2>3 DEF Crc
<1>8. ~(n > l)
  <2>1. SUFFICES ASSUME n > l PROVE FALSE
    OBVIOUS
  <2>2. l + 1 \in 1..n /\ o + 2 + (l + 1) = o + l + 3
    BY <1>3, <2>1
  <2>3. d[l + 1] = file[o + l + 3]
    BY <1>3, <2>2
  <2>4. d[l + 1][1] = "crc"
    BY <1>6, <2>3 DEF Crc
  <2>5. IsCell(Crc(d))
    <3>1. o + n + 3 \in 1..L
      BY <1>3, <1>5
    <3> QED BY <1>3, <1>5, <3>1 DEF Cells
  <2>6. \A x \in DOMAIN d : d[x][1] = "byte"
    BY <2>5 DEF IsCell, Crc, Length
  <2>7. l + 1 \in DOMAIN d
    BY <1>3, <2>2, SeqFacts
  <2> QED BY <2>4, <2>6, <2>7
<1>9. n = l
  BY <1>3, <1>7, <1>8
<1>10. d = Data(p)
  <2>1. Crc(d) \in {Crc(Data(p)), Crc(<<>>)}
    BY <1>3, <1>6, <1>9
  <2>2. d # <<>>
    BY <1>3, <1>4, <1>9, SeqFacts
  <2> QED BY <2>1, <2>2 DEF Crc
<1>11. \A i \in 1..l : d[i] = <<"byte", p[i]>>
  BY <1>4, <1>10, DataFacts
<1>12. FrameAt(file, o, p)
  <2>1. \A i \in 1..l : file[o + 2 + i] = <<"byte", p[i]>>
    BY <1>3, <1>9, <1>11
  <2>2. file[o + l + 3] = Crc(Data(p))
    BY <1>3, <1>9, <1>10
  <2>3. file[o + 2] = Length(l)
    BY <1>3, <1>9
  <2> QED BY <1>3, <1>4, <2>1, <2>2, <2>3 DEF FrameAt
<1>13. DecodePayload(rest) = p
  <2>1. PICK q : q = DecodePayload(rest)
    OBVIOUS
  <2>2. q = [i \in 1..l |-> d[i][2]]
    BY <1>1, <1>2, <1>9, <2>1 DEF DecodePayload
  <2>3. DOMAIN q = 1..l /\ \A i \in 1..l : q[i] = p[i]
    BY <1>11, <2>2
  <2>4. p = [i \in 1..l |-> p[i]]
    BY <1>4, PayloadFacts, SeqFacts
  <2>5. q = p
    BY <2>2, <2>3, <2>4
  <2> QED BY <2>1, <2>5
<1> QED BY <1>3, <1>4, <1>9, <1>12, <1>13

(* A frame that nothing has damaged decodes.                               *)
LEMMA FrameDecodes ==
  ASSUME NEW file, IsSeq(file), Cells(file), NEW o \in 0..Len(file),
         NEW p \in Payloads, FrameAt(file, o, p), o + Len(p) + 3 <= Len(file)
  PROVE  DecodeError(Rest(file, o)) = Ok
<1>1. PICK rest : rest = Rest(file, o)
  OBVIOUS
<1>2. PICK n, d, e : n = PayloadSize(rest) /\ d = DataOf(rest) /\ e = DecodeError(rest)
  OBVIOUS
<1>3. Decoding(file, o, n, d, e)
  BY <1>1, <1>2, DecodesAt
<1>4. PICK l \in Nat : l = Len(p) /\ l <= MaximumPayload
  BY PayloadFacts
<1>5. PICK L \in Nat : L = Len(file)
  BY SeqFacts
<1>6. /\ file[o + 1] = Magic /\ file[o + 2] = Length(l)
      /\ \A i \in 1..l : file[o + 2 + i] = <<"byte", p[i]>>
      /\ file[o + l + 3] = Crc(Data(p))
  BY <1>4 DEF FrameAt
<1>7. L >= o + 2 /\ L >= o + l + 3
  BY <1>4, <1>5
<1>8. n \in Nat /\ file[o + 2] = Length(n)
  BY <1>3, <1>5, <1>6, <1>7 DEF Decoding
<1>9. n = l
  BY <1>6, <1>8 DEF Length
<1>10. /\ IsSeq(d) /\ Len(d) = l
       /\ \A i \in 1..l : d[i] = file[o + 2 + i]
       /\ e = IF file[o + l + 3] # Crc(d) THEN "CrcMismatch" ELSE Ok
  BY <1>3, <1>4, <1>5, <1>6, <1>7, <1>9 DEF Decoding
<1>11. d = Data(p)
  <2>1. PICK t : t = Data(p)
    OBVIOUS
  <2>2. /\ IsSeq(t) /\ Len(t) = l
        /\ \A i \in 1..l : t[i] = <<"byte", p[i]>>
    BY <1>4, <2>1, DataFacts
  <2>3. Agree(d, t)
    BY <1>6, <1>10, <2>2 DEF Agree
  <2> QED BY <2>1, <2>3, EqualSequences
<1>12. e = Ok
  BY <1>6, <1>10, <1>11
<1> QED BY <1>1, <1>2, <1>12

(* A frame whose length is right is not taken for one cut short.           *)
LEMMA RightLengthIsNotShort ==
  ASSUME NEW file, IsSeq(file), Cells(file), NEW o \in 0..Len(file),
         NEW p \in Payloads, file[o + 2] = Length(Len(p)), o + Len(p) + 3 <= Len(file)
  PROVE  DecodeError(Rest(file, o)) # "UnexpectedEnd"
<1>1. PICK rest : rest = Rest(file, o)
  OBVIOUS
<1>2. PICK n, d, e : n = PayloadSize(rest) /\ d = DataOf(rest) /\ e = DecodeError(rest)
  OBVIOUS
<1>3. Decoding(file, o, n, d, e)
  BY <1>1, <1>2, DecodesAt
<1>4. PICK l \in Nat : l = Len(p) /\ l <= MaximumPayload
  BY PayloadFacts
<1>5. PICK L \in Nat : L = Len(file)
  BY SeqFacts
<1>6. L >= o + 2 /\ L >= o + l + 3
  BY <1>4, <1>5
<1>7. CASE file[o + 1] # Magic
  <2>1. e = "InvalidMagic"
    BY <1>3, <1>5, <1>6, <1>7 DEF Decoding
  <2> QED BY <1>1, <1>2, <2>1
<1>8. CASE file[o + 1] = Magic
  <2>1. n \in Nat /\ file[o + 2] = Length(n)
    BY <1>3, <1>5, <1>6, <1>8 DEF Decoding
  <2>2. n = l
    BY <1>4, <2>1 DEF Length
  <2>3. e = IF file[o + l + 3] # Crc(d) THEN "CrcMismatch" ELSE Ok
    BY <1>3, <1>4, <1>5, <1>6, <1>8, <2>2 DEF Decoding
  <2> QED BY <1>1, <1>2, <2>3 DEF Ok
<1> QED BY <1>7, <1>8

(* What lies behind the last frame never decodes.                          *)
LEMMA TailNeverDecodes ==
  ASSUME NEW file, IsSeq(file), Cells(file), NEW o \in 0..Len(file), TailAt(file, o)
  PROVE  /\ DecodeError(Rest(file, o)) # Ok
         /\ CleanTailAt(file, o) => DecodeError(Rest(file, o)) = "UnexpectedEnd"
<1>1. PICK rest : rest = Rest(file, o)
  OBVIOUS
<1>2. PICK n, d, e : n = PayloadSize(rest) /\ d = DataOf(rest) /\ e = DecodeError(rest)
  OBVIOUS
<1>3. PICK L \in Nat : L = Len(file)
  BY SeqFacts
<1>4. e # Ok
  <2>1. SUFFICES ASSUME e = Ok PROVE FALSE
    OBVIOUS
  <2>2. n \in Nat /\ o + n + 3 <= Len(file) /\ file[o + n + 3] = Crc(d)
    <3>1. DecodeError(rest) = Ok /\ n = PayloadSize(rest) /\ d = DataOf(rest)
      BY <1>2, <2>1
    <3>2. n \in Nat /\ o + n + 3 <= Len(file)
      BY <1>1, <3>1, DecodedFits
    <3>3. file[o + n + 3] = Crc(d)
      BY <1>1, <3>1, DecodedFits
    <3> QED BY <3>2, <3>3
  <2>3. o + n + 3 \in (o + 3)..L
    BY <1>3, <2>2
  <2>4. file[o + n + 3][1] = "byte"
    BY <1>3, <2>3 DEF TailAt
  <2> QED BY <2>2, <2>4 DEF Crc
<1>5. ASSUME CleanTailAt(file, o) PROVE e = "UnexpectedEnd"
  <2>1. Decoding(file, o, n, d, e)
    BY <1>1, <1>2, DecodesAt
  <2>2. CASE L < o + 2
    BY <1>3, <2>1, <2>2 DEF Decoding
  <2>3. CASE L >= o + 2
    <3>1. L >= o + 1
      BY <2>3
    <3>2. file[o + 1] = Magic
      BY <1>3, <1>5, <3>1 DEF CleanTailAt
    <3>3. PICK x \in 1..MaximumPayload : file[o + 2] = Length(x) /\ L < o + x + 3
      BY <1>3, <1>5, <2>3 DEF CleanTailAt
    <3>4. n \in Nat /\ file[o + 2] = Length(n)
      BY <1>3, <2>1, <2>3, <3>2 DEF Decoding
    <3>5. n = x
      BY <3>3, <3>4 DEF Length
    <3>6. n <= MaximumPayload /\ L < o + n + 3
      BY <3>3, <3>5, PayloadsEncode
    <3> QED BY <1>3, <2>1, <2>3, <3>2, <3>6 DEF Decoding
  <2> QED BY <1>3, <2>2, <2>3
<1> QED BY <1>1, <1>2, <1>4, <1>5

(* r reports success from frame k + 1 on: it has read the frames to j, and *)
(* found the end of the file behind them, or a frame cut short.            *)
Found(file, ps, s, k, j, r) ==
  /\ IsSeq(r.payloads) /\ Len(r.payloads) = j - k
  /\ \A i \in 1..(j - k) : r.payloads[i] = ps[k + i]
  /\ r.lastValidOffset = s[j]
  /\ \A i \in (k + 1)..j : FrameAt(file, s[i - 1], ps[i])
  /\ r.truncatedTail \in BOOLEAN
  /\ r.truncatedTail => /\ s[j] < Len(file)
                        /\ DecodeError(Rest(file, s[j])) = "UnexpectedEnd"
  /\ ~r.truncatedTail => s[j] = Len(file)

(* What stands at offset o is wrong, and not because the file ends.        *)
Wrong(file, o) == DecodeError(Rest(file, o)) \notin {Ok, "UnexpectedEnd"}

(* That is where the scan stopped, with the frames in front of it right.   *)
Stopped(file, ps, s, k, j) ==
  /\ Wrong(file, s[j])
  /\ \A i \in (k + 1)..j : FrameAt(file, s[i - 1], ps[i])

Returns(file, ps, s, k, r) ==
  /\ r = [error |-> r.error, payloads |-> r.payloads,
          lastValidOffset |-> r.lastValidOffset, truncatedTail |-> r.truncatedTail]
  /\ r.error = Ok => \E j \in k..Len(ps) : Found(file, ps, s, k, j, r)
  /\ r.error # Ok => \E j \in k..Len(ps) : Stopped(file, ps, s, k, j)

(* A scan that stops with success where it starts has read nothing.        *)
LEMMA FoundNothing ==
  ASSUME NEW file, NEW ps, NEW s, NEW k \in Nat, k <= Len(ps), Len(ps) \in Nat,
         NEW torn \in BOOLEAN, ~torn => s[k] = Len(file),
         torn => /\ s[k] < Len(file)
                 /\ DecodeError(Rest(file, s[k])) = "UnexpectedEnd",
         NEW r, r = ScanStopped(Ok, s[k], torn)
  PROVE  Returns(file, ps, s, k, r)
<1>1. /\ r.error = Ok /\ r.payloads = <<>> /\ r.lastValidOffset = s[k]
      /\ r.truncatedTail = torn
      /\ r = [error |-> r.error, payloads |-> r.payloads,
              lastValidOffset |-> r.lastValidOffset, truncatedTail |-> r.truncatedTail]
  BY DEF ScanStopped
<1>2. k - k = 0 /\ k \in k..Len(ps)
  OBVIOUS
<1>3. IsSeq(r.payloads) /\ Len(r.payloads) = 0
  <2>1. <<>> \in Seq({})
    OBVIOUS
  <2> QED BY <1>1, <2>1 DEF IsSeq
<1>4. /\ \A i \in 1..0 : r.payloads[i] = ps[k + i]
      /\ \A i \in (k + 1)..k : FrameAt(file, s[i - 1], ps[i])
  OBVIOUS
<1>5. r.truncatedTail \in BOOLEAN
  BY <1>1
<1>6. r.truncatedTail => /\ s[k] < Len(file)
                         /\ DecodeError(Rest(file, s[k])) = "UnexpectedEnd"
  BY <1>1
<1>7. ~r.truncatedTail => s[k] = Len(file)
  BY <1>1
<1>8. Found(file, ps, s, k, k, r)
  BY <1>1, <1>2, <1>3, <1>4, <1>5, <1>6, <1>7 DEF Found
<1>9. \E j \in k..Len(ps) : Found(file, ps, s, k, j, r)
  BY <1>2, <1>8
<1> QED BY <1>1, <1>9 DEF Returns

(* A frame in front of what a scan returns.                                *)
LEMMA FoundOneMore ==
  ASSUME NEW file, NEW ps, NEW s, NEW k \in Nat, k < Len(ps), Len(ps) \in Nat,
         FrameAt(file, s[k], ps[k + 1]),
         NEW later, Returns(file, ps, s, k + 1, later),
         NEW r, r = [later EXCEPT !.payloads = <<ps[k + 1]>> \o @]
  PROVE  Returns(file, ps, s, k, r)
<1>1. /\ r.error = later.error /\ r.payloads = <<ps[k + 1]>> \o later.payloads
      /\ r.lastValidOffset = later.lastValidOffset
      /\ r.truncatedTail = later.truncatedTail
      /\ r = [error |-> r.error, payloads |-> r.payloads,
              lastValidOffset |-> r.lastValidOffset, truncatedTail |-> r.truncatedTail]
  BY DEF Returns
<1>2. PICK m \in Nat : m = Len(ps)
  OBVIOUS
<1>3. ASSUME r.error # Ok PROVE \E j \in k..m : Stopped(file, ps, s, k, j)
  <2>1. PICK j \in (k + 1)..m : Stopped(file, ps, s, k + 1, j)
    BY <1>1, <1>2, <1>3 DEF Returns
  <2>2. ASSUME NEW i \in (k + 1)..j PROVE FrameAt(file, s[i - 1], ps[i])
    <3>1. CASE i = k + 1
      <4>1. i - 1 = k
        BY <3>1
      <4> QED BY <3>1, <4>1
    <3>2. CASE i # k + 1
      <4>1. i \in (k + 1 + 1)..j
        BY <3>2
      <4> QED BY <2>1, <4>1 DEF Stopped
    <3> QED BY <3>1, <3>2
  <2>3. Stopped(file, ps, s, k, j)
    BY <2>1, <2>2 DEF Stopped
  <2>4. j \in k..m
    OBVIOUS
  <2> QED BY <2>3, <2>4
<1>4. ASSUME r.error = Ok PROVE \E j \in k..m : Found(file, ps, s, k, j, r)
  <2>1. PICK j \in (k + 1)..m : Found(file, ps, s, k + 1, j, later)
    BY <1>1, <1>2, <1>4 DEF Returns
  <2>2. PICK q : q = later.payloads
    OBVIOUS
  <2>3. PICK n \in Nat : n = j - k - 1
    OBVIOUS
  <2>4. /\ IsSeq(q) /\ Len(q) = n
        /\ \A i \in 1..n : q[i] = ps[k + 1 + i]
    <3>1. j - (k + 1) = n
      BY <2>3
    <3> QED BY <2>1, <2>2, <3>1 DEF Found
  <2>5. PICK h : h = <<ps[k + 1]>>
    OBVIOUS
  <2>6. IsSeq(h) /\ Len(h) = 1 /\ h[1] = ps[k + 1]
    <3>1. h \in Seq({ps[k + 1]})
      BY <2>5
    <3> QED BY <2>5, <3>1 DEF IsSeq
  <2>7. PICK t : t = r.payloads
    OBVIOUS
  <2>8. t = h \o q
    BY <1>1, <2>2, <2>5, <2>7
  <2>9. Joins(t, h, q)
    BY <2>4, <2>6, <2>8, Joined
  <2>10. IsSeq(t) /\ Len(t) = 1 + n /\ t[1] = h[1] /\ \A i \in 1..n : t[1 + i] = q[i]
    BY <2>4, <2>6, <2>9 DEF Joins
  <2>11. \A i \in 1..(1 + n) : t[i] = ps[k + i]
    <3>1. TAKE i \in 1..(1 + n)
    <3>2. CASE i = 1
      BY <2>6, <2>10, <3>2
    <3>3. CASE i # 1
      <4>1. PICK u : u = i - 1
        OBVIOUS
      <4>2. u \in 1..n /\ 1 + u = i /\ k + 1 + u = k + i
        BY <3>3, <4>1
      <4>3. t[1 + u] = q[u] /\ q[u] = ps[k + 1 + u]
        BY <2>4, <2>10, <4>2
      <4> QED BY <4>2, <4>3
    <3> QED BY <3>2, <3>3
  <2>12. j - k = 1 + n
    BY <2>3
  <2>13. \A i \in (k + 1)..j : FrameAt(file, s[i - 1], ps[i])
    <3>1. TAKE i \in (k + 1)..j
    <3>2. CASE i = k + 1
      <4>1. i - 1 = k
        BY <3>2
      <4> QED BY <3>2, <4>1
    <3>3. CASE i # k + 1
      <4>1. i \in (k + 1 + 1)..j
        BY <3>3
      <4> QED BY <2>1, <4>1 DEF Found
    <3> QED BY <3>2, <3>3
  <2>14. /\ r.lastValidOffset = s[j] /\ r.truncatedTail \in BOOLEAN
         /\ r.truncatedTail => /\ s[j] < Len(file)
                               /\ DecodeError(Rest(file, s[j])) = "UnexpectedEnd"
         /\ ~r.truncatedTail => s[j] = Len(file)
    BY <1>1, <2>1 DEF Found
  <2>15. Found(file, ps, s, k, j, r)
    BY <2>7, <2>10, <2>11, <2>12, <2>13, <2>14 DEF Found
  <2>16. j \in k..m
    OBVIOUS
  <2> QED BY <2>15, <2>16
<1> QED BY <1>1, <1>2, <1>3, <1>4 DEF Returns

(* The scan at the start of frame k + 1, given the one behind that frame.  *)
LEMMA ScanOfFrame ==
  ASSUME NEW ps \in Seq(Payloads), NEW s, Starts(ps, s),
         NEW file, Shape(file, ps, s), NEW g, Scans(file, g),
         NEW k \in 0..Len(ps),
         k < Len(ps) => Returns(file, ps, s, k + 1, g[s[k + 1]])
  PROVE  Returns(file, ps, s, k, g[s[k]])
<1>1. PICK m \in Nat : m = Len(ps)
  OBVIOUS
<1>2. PICK L \in Nat : L = Len(file)
  BY SeqFacts DEF Shape
<1>3. IsSeq(file) /\ Cells(file) /\ s[m] <= L
  BY <1>1, <1>2 DEF Shape
<1>4. /\ \A j \in 0..m : s[j] \in Nat
      /\ \A j \in 1..m : ps[j] \in Payloads /\ Len(ps[j]) \in Nat
      /\ \A j \in 1..m : s[j] = s[j - 1] + Len(ps[j]) + 3
  BY <1>1, StartsGrow DEF Starts
<1>5. \A i, j \in 0..m : i <= j => s[i] <= s[j]
  BY <1>1, StartsGrow
<1>6. PICK o \in Nat : o = s[k]
  BY <1>1, <1>4
<1>7. o \in 0..L
  <2>1. k \in 0..m /\ m \in 0..m /\ k <= m
    BY <1>1
  <2>2. s[k] <= s[m] /\ s[m] \in Nat
    BY <1>4, <1>5, <2>1
  <2> QED BY <1>3, <1>6, <2>2
<1>8. PICK rest, error, r : /\ rest = Rest(file, o) /\ error = DecodeError(rest)
                            /\ r = g[o]
  OBVIOUS
<1>9. ScanGoesOn(file, g, o, rest, error, r)
  BY <1>2, <1>3, <1>7, <1>8, ScanCases
<1>10. CASE o = L
  <2>1. r = ScanStopped(Ok, s[k], FALSE)
    BY <1>2, <1>6, <1>9, <1>10 DEF ScanGoesOn
  <2>2. Returns(file, ps, s, k, r)
    <3>1. k \in Nat /\ k <= Len(ps) /\ Len(ps) \in Nat /\ s[k] = Len(file)
      BY <1>1, <1>2, <1>6, <1>10
    <3>2. PICK torn \in BOOLEAN : torn = FALSE
      OBVIOUS
    <3>3. r = ScanStopped(Ok, s[k], torn)
      BY <2>1, <3>2
    <3> QED BY <3>1, <3>2, <3>3, FoundNothing
  <2> QED BY <1>6, <1>8, <2>2
<1>11. CASE o # L /\ error = "UnexpectedEnd"
  <2>1. r = ScanStopped(Ok, s[k], TRUE)
    BY <1>2, <1>6, <1>9, <1>11 DEF ScanGoesOn
  <2>2. s[k] < Len(file) /\ DecodeError(Rest(file, s[k])) = "UnexpectedEnd"
    BY <1>2, <1>6, <1>7, <1>8, <1>11
  <2>3. Returns(file, ps, s, k, r)
    <3>1. k \in Nat /\ k <= Len(ps) /\ Len(ps) \in Nat
      BY <1>1
    <3>2. PICK torn \in BOOLEAN : torn = TRUE
      OBVIOUS
    <3>3. r = ScanStopped(Ok, s[k], torn)
      BY <2>1, <3>2
    <3> QED BY <2>2, <3>1, <3>2, <3>3, FoundNothing
  <2> QED BY <1>6, <1>8, <2>3
<1>12. CASE o # L /\ error \notin {Ok, "UnexpectedEnd"}
  <2>1. r = ScanStopped(error, s[k], FALSE)
    BY <1>2, <1>6, <1>9, <1>12 DEF ScanGoesOn
  <2>2. /\ r.error = error
        /\ r = [error |-> r.error, payloads |-> r.payloads,
                lastValidOffset |-> r.lastValidOffset,
                truncatedTail |-> r.truncatedTail]
    BY <2>1 DEF ScanStopped
  <2>3. Stopped(file, ps, s, k, k) /\ k \in k..Len(ps)
    <3>1. Wrong(file, s[k])
      BY <1>6, <1>8, <1>12 DEF Wrong
    <3>2. k \in k..Len(ps) /\ \A i \in (k + 1)..k : FALSE
      BY <1>1
    <3> QED BY <3>1, <3>2 DEF Stopped
  <2>4. Returns(file, ps, s, k, r)
    BY <1>12, <2>2, <2>3 DEF Returns
  <2> QED BY <1>6, <1>8, <2>4
<1>13. CASE o # L /\ error = Ok
  <2>1. k # m
    <3>1. SUFFICES ASSUME k = m PROVE FALSE
      OBVIOUS
    <3>2. TailAt(file, o)
      BY <1>1, <1>6, <3>1 DEF Shape
    <3>3. DecodeError(Rest(file, o)) # Ok
      BY <1>2, <1>3, <1>7, <3>2, TailNeverDecodes
    <3> QED BY <1>8, <1>13, <3>3
  <2>2. k + 1 \in 1..m /\ k + 1 \in 0..m /\ k + 1 - 1 = k /\ k < m
    BY <1>1, <2>1
  <2>3. PICK p : p = ps[k + 1]
    OBVIOUS
  <2>4. p \in Payloads /\ Len(p) \in Nat /\ s[k + 1] = o + Len(p) + 3
    BY <1>4, <1>6, <2>2, <2>3
  <2>5. FieldsAt(file, o, p)
    <3>1. FieldsAt(file, s[k + 1 - 1], ps[k + 1])
      BY <1>1, <2>2 DEF Shape
    <3> QED BY <1>6, <2>2, <2>3, <3>1
  <2>6. o + Len(p) + 3 <= L
    <3>1. s[k + 1] <= s[m] /\ s[m] \in Nat
      BY <1>4, <1>5, <2>2
    <3> QED BY <1>3, <2>4, <3>1
  <2>7. /\ FrameAt(file, o, p) /\ DecodePayload(rest) = p
        /\ FrameSize(rest) = Len(p) + 3
    <3>1. DecodeError(rest) = Ok /\ o \in 0..Len(file) /\ o + Len(p) + 3 <= Len(file)
      BY <1>2, <1>7, <1>8, <1>13, <2>6
    <3> QED BY <1>3, <1>8, <2>4, <2>5, <3>1, OnlyTheFrameDecodes
  <2>8. PICK later : later = g[s[k + 1]]
    OBVIOUS
  <2>9. o + FrameSize(rest) = s[k + 1]
    BY <2>4, <2>7
  <2>10. r = [g[o + FrameSize(rest)] EXCEPT !.payloads = <<DecodePayload(rest)>> \o @]
    BY <1>2, <1>9, <1>13 DEF ScanGoesOn
  <2>11. r = [later EXCEPT !.payloads = <<ps[k + 1]>> \o @]
    BY <2>3, <2>7, <2>8, <2>9, <2>10
  <2>12. Returns(file, ps, s, k + 1, later)
    BY <1>1, <2>2, <2>8
  <2>13. FrameAt(file, s[k], ps[k + 1])
    BY <1>6, <2>3, <2>7
  <2>14. Returns(file, ps, s, k, r)
    BY <1>1, <2>2, <2>11, <2>12, <2>13, FoundOneMore
  <2> QED BY <1>6, <1>8, <2>14
<1> QED BY <1>10, <1>11, <1>12, <1>13

LEMMA ScanReturns ==
  ASSUME NEW ps \in Seq(Payloads), NEW s, Starts(ps, s),
         NEW file, Shape(file, ps, s)
  PROVE  Returns(file, ps, s, 0, ScanJournal(file))
<1>1. PICK m \in Nat : m = Len(ps)
  OBVIOUS
<1>2. PICK g : Scans(file, g) /\ ScanJournal(file) = g[0]
  BY ScanIs DEF Shape
<1> DEFINE T == {d \in 0..m : ~Returns(file, ps, s, m - d, g[s[m - d]])}
<1>3. T = {}
  <2>1. SUFFICES ASSUME T # {} PROVE FALSE
    OBVIOUS
  <2>2. PICK d \in T : \A x \in T : d <= x
    <3>1. T \in SUBSET Nat
      OBVIOUS
    <3> HIDE DEF T
    <3> QED BY <2>1, <3>1, SmallestNumber
  <2>3. PICK k : k = m - d
    OBVIOUS
  <2>4. k \in 0..m
    BY <2>3
  <2>5. k < m => Returns(file, ps, s, k + 1, g[s[k + 1]])
    <3>1. SUFFICES ASSUME k < m PROVE Returns(file, ps, s, k + 1, g[s[k + 1]])
      OBVIOUS
    <3>2. d - 1 \in 0..m /\ ~(d <= d - 1) /\ m - (d - 1) = k + 1
      BY <2>3, <3>1
    <3>3. d - 1 \notin T
      BY <2>2, <3>2
    <3>4. Returns(file, ps, s, m - (d - 1), g[s[m - (d - 1)]])
      BY <3>2, <3>3
    <3> QED BY <3>2, <3>4
  <2>6. Returns(file, ps, s, k, g[s[k]])
    BY <1>1, <1>2, <2>4, <2>5, ScanOfFrame
  <2>7. ~Returns(file, ps, s, m - d, g[s[m - d]])
    BY <2>2
  <2> QED BY <2>3, <2>6, <2>7
<1>4. Returns(file, ps, s, m - m, g[s[m - m]])
  <2>1. m \in 0..m
    OBVIOUS
  <2> QED BY <1>3, <2>1
<1>5. m - m = 0 /\ s[0] = 0
  BY DEF Starts
<1> QED BY <1>2, <1>4, <1>5

-----------------------------------------------------------------------------
(* The invariant.                                                          *)

(* A file that consists of the frames of ps is one after any damage count. *)
LEMMA WholeFileIs ==
  ASSUME NEW ps, NEW s, NEW c, Setting(ps, s, c), NEW d
  PROVE  c = EncodeJournal(ps) /\ FileIs(c, ps, d, s)
<1>1. ps \in Seq(Payloads) /\ Starts(ps, s) /\ Layout(ps, s, c)
  BY DEF Setting
<1>2. c = EncodeJournal(ps)
  BY <1>1, LayoutIsEncoding
<1>3. Shape(c, ps, s) /\ Undamaged(c, ps, s)
  BY WholeFile
<1>4. Layout(ps, s, EncodeJournal(ps))
  BY <1>1, <1>2
<1> QED BY <1>1, <1>2, <1>3, <1>4 DEF FileIs

(* The journal of an open server is whole.                                 *)
LEMMA OpenSetting ==
  ASSUME JournalInv, open
  PROVE  \E s : Setting(written, s, bytes)
<1>1. PICK s : FileIs(bytes, written, damage, s)
  BY DEF JournalInv
<1>2. Layout(written, s, bytes) /\ Starts(written, s) /\ Cells(bytes)
  BY <1>1 DEF JournalInv, FileIs, Shape
<1> QED BY <1>2 DEF JournalInv, Setting

(* What a successful scan returns, and where it ends.                      *)
Recovered(file, ps, s, j, r) ==
  /\ j \in 0..Len(ps)
  /\ r.payloads = SubSeq(ps, 1, j) /\ r.lastValidOffset = s[j]
  /\ \A i \in 1..j : FrameAt(file, s[i - 1], ps[i])
  /\ r.truncatedTail \in BOOLEAN
  /\ r.truncatedTail => /\ s[j] < Len(file)
                        /\ DecodeError(Rest(file, s[j])) = "UnexpectedEnd"
  /\ ~r.truncatedTail => s[j] = Len(file)

LEMMA ScanRecovers ==
  ASSUME NEW ps \in Seq(Payloads), NEW s, Starts(ps, s),
         NEW file, Shape(file, ps, s), NEW r, r = ScanJournal(file)
  PROVE  /\ r.error = Ok => \E j : Recovered(file, ps, s, j, r)
         /\ r.error # Ok => \E j \in 0..Len(ps) : Stopped(file, ps, s, 0, j)
<1>1. Returns(file, ps, s, 0, r)
  BY ScanReturns
<1>2. PICK m \in Nat : m = Len(ps)
  OBVIOUS
<1>3. ASSUME r.error = Ok PROVE \E j : Recovered(file, ps, s, j, r)
  <2>1. PICK j \in 0..m : Found(file, ps, s, 0, j, r)
    BY <1>1, <1>2, <1>3 DEF Returns
  <2>2. PICK q : q = r.payloads
    OBVIOUS
  <2>3. IsSeq(q) /\ Len(q) = j /\ \A i \in 1..j : q[i] = ps[i]
    <3>1. j - 0 = j /\ \A i \in 1..j : 0 + i = i
      OBVIOUS
    <3>2. IsSeq(q) /\ Len(q) = j - 0 /\ \A i \in 1..(j - 0) : q[i] = ps[0 + i]
      BY <2>1, <2>2 DEF Found
    <3> QED BY <3>1, <3>2
  <2>4. PICK t : t = SubSeq(ps, 1, j)
    OBVIOUS
  <2>5. CutAt(t, ps, j)
    <3>1. IsSeq(ps) /\ j \in 0..Len(ps)
      BY <1>2 DEF IsSeq
    <3> QED BY <2>4, <3>1, IsCut
  <2>6. Agree(q, t)
    BY <2>3, <2>5 DEF Agree, CutAt
  <2>7. q = t
    BY <2>6, EqualSequences
  <2>8. \A i \in 1..j : FrameAt(file, s[i - 1], ps[i])
    <3>1. \A i \in 1..j : i \in (0 + 1)..j
      OBVIOUS
    <3> QED BY <2>1, <3>1 DEF Found
  <2>9. /\ r.lastValidOffset = s[j] /\ r.truncatedTail \in BOOLEAN
        /\ r.truncatedTail => /\ s[j] < Len(file)
                              /\ DecodeError(Rest(file, s[j])) = "UnexpectedEnd"
        /\ ~r.truncatedTail => s[j] = Len(file)
    BY <2>1 DEF Found
  <2>10. Recovered(file, ps, s, j, r)
    BY <1>2, <2>2, <2>4, <2>7, <2>8, <2>9 DEF Recovered
  <2> QED BY <2>10
<1>4. ASSUME r.error # Ok PROVE \E j \in 0..m : Stopped(file, ps, s, 0, j)
  BY <1>1, <1>2, <1>4 DEF Returns
<1> QED BY <1>2, <1>3, <1>4

(* The frames up to the j-th, all of them right, are what a cut leaves.    *)
LEMMA CutIsWhole ==
  ASSUME NEW ps \in Seq(Payloads), NEW s, Starts(ps, s),
         NEW file, Shape(file, ps, s), NEW j \in 0..Len(ps),
         \A i \in 1..j : FrameAt(file, s[i - 1], ps[i]),
         NEW r, CutAt(r, file, s[j])
  PROVE  Setting(SubSeq(ps, 1, j), Fewer(s, j), r)
<1>1. PICK m \in Nat : m = Len(ps)
  OBVIOUS
<1>2. IsSeq(file) /\ Cells(file) /\ s[m] <= Len(file) /\ Len(file) \in Nat
  BY <1>1, SeqFacts DEF Shape
<1>3. s[j] <= s[m] /\ s[j] \in Nat /\ s[m] \in Nat
  <2>1. j \in 0..m /\ m \in 0..m /\ j <= m
    BY <1>1
  <2>2. \A i, k \in 0..m : i <= k => s[i] <= s[k]
    BY <1>1, StartsGrow
  <2>3. \A k \in 0..m : s[k] \in Nat
    BY <1>1, StartsGrow
  <2> QED BY <2>1, <2>2, <2>3
<1>4. s[j] <= Len(file)
  BY <1>2, <1>3
<1>5. PICK qs, t : qs = SubSeq(ps, 1, j) /\ t = Fewer(s, j)
  OBVIOUS
<1>6. Setting(qs, t, r)
  BY <1>2, <1>4, <1>5, CutBehindFrame
<1> QED BY <1>5, <1>6

LEMMA JournalStarts == ASSUME Init PROVE JournalInv
<1>1. /\ bytes = <<>> /\ open = FALSE /\ written = <<>> /\ damage = 0
  BY DEF Init
<1>2. PICK s : s = [k \in 0..0 |-> 0]
  OBVIOUS
<1>3. PICK e : e = <<>>
  OBVIOUS
<1>4. e \in Seq(Payloads) /\ Len(e) = 0 /\ IsSeq(e)
  BY <1>3 DEF IsSeq
<1>5. s \in [0..0 -> Nat] /\ s[0] = 0
  BY <1>2
<1>6. \A k \in 1..0 : FALSE
  OBVIOUS
<1>7. Starts(e, s)
  BY <1>4, <1>5, <1>6 DEF Starts
<1>8. Layout(e, s, e)
  BY <1>4, <1>5, <1>6 DEF Layout
<1>9. Cells(e)
  <2>1. \A i \in 1..(0 - 1) : FALSE
    OBVIOUS
  <2> QED BY <1>4, <1>6, <2>1 DEF Cells
<1>10. Setting(e, s, e)
  BY <1>4, <1>7, <1>8, <1>9 DEF Setting
<1>11. FileIs(e, e, 0, s)
  BY <1>10, WholeFileIs
<1> QED BY <1>1, <1>3, <1>4, <1>11 DEF JournalInv

LEMMA AppendKeeps ==
  ASSUME JournalInv, AppendAndFlush
  PROVE  JournalInv'
<1>1. PICK p \in Payloads : /\ open /\ bytes' = bytes \o EncodeFrame(p)
                            /\ written' = Append(written, p)
                            /\ open' = open /\ damage' = damage
  BY DEF AppendAndFlush
<1>2. PICK s : Setting(written, s, bytes)
  BY <1>1, OpenSetting
<1>3. PICK t, c, qs : /\ t = Further(s, Len(written), Len(p) + 3)
                      /\ c = bytes' /\ qs = written'
  OBVIOUS
<1>4. Setting(qs, t, c)
  <2>1. c = bytes \o EncodeFrame(p) /\ qs = Append(written, p)
    BY <1>1, <1>3
  <2> QED BY <1>2, <1>3, <2>1, AppendWhole
<1>5. c = EncodeJournal(qs) /\ FileIs(c, qs, damage', t)
  BY <1>4, WholeFileIs
<1>6. qs \in Seq(Payloads)
  BY <1>4 DEF Setting
<1> QED BY <1>1, <1>3, <1>5, <1>6 DEF JournalInv

LEMMA StopKeeps ==
  ASSUME JournalInv, StopWithin
  PROVE  JournalInv'
<1>1. PICK p \in Payloads :
        /\ open /\ open' = FALSE /\ damage' = damage
        /\ \E n \in 0..Len(EncodeFrame(p)) :
             /\ bytes' = bytes \o SubSeq(EncodeFrame(p), 1, n)
             /\ written' = IF n = Len(EncodeFrame(p)) THEN Append(written, p)
                                                      ELSE written
  BY DEF StopWithin
<1>2. PICK f : f = EncodeFrame(p)
  OBVIOUS
<1>3. PICK n \in 0..Len(f) :
        /\ bytes' = bytes \o SubSeq(f, 1, n)
        /\ written' = IF n = Len(f) THEN Append(written, p) ELSE written
  BY <1>1, <1>2
<1>4. PICK s : Setting(written, s, bytes)
  BY <1>1, OpenSetting
<1>5. IsSeq(f)
  BY <1>2, FrameCells
<1>6. PICK c, qs : c = bytes' /\ qs = written'
  OBVIOUS
<1>7. CASE n = Len(f)
  <2>1. SubSeq(f, 1, n) = f
    BY <1>5, <1>7, FirstOf
  <2>2. c = bytes \o EncodeFrame(p) /\ qs = Append(written, p)
    BY <1>2, <1>3, <1>6, <1>7, <2>1
  <2>3. PICK t : t = Further(s, Len(written), Len(p) + 3)
    OBVIOUS
  <2>4. Setting(qs, t, c)
    BY <1>4, <2>2, <2>3, AppendWhole
  <2>5. FileIs(c, qs, damage', t) /\ qs \in Seq(Payloads)
    BY <2>4, WholeFileIs DEF Setting
  <2> QED BY <1>1, <1>6, <2>5 DEF JournalInv
<1>8. CASE n # Len(f)
  <2>1. PICK q : q = SubSeq(f, 1, n)
    OBVIOUS
  <2>2. CutAt(q, f, n) /\ IsSeq(q)
    BY <1>5, <2>1, IsCut DEF CutAt
  <2>3. c = bytes \o q /\ qs = written
    BY <1>3, <1>6, <1>8, <2>1
  <2>4. IsSeq(bytes)
    BY <1>4 DEF Setting, Layout
  <2>5. Joins(c, bytes, q)
    BY <2>2, <2>3, <2>4, Joined
  <2>6. Shape(c, written, s) /\ Undamaged(c, written, s)
    BY <1>2, <1>4, <1>8, <2>2, <2>5, AppendPart
  <2>7. /\ written \in Seq(Payloads) /\ Starts(written, s)
        /\ Layout(written, s, EncodeJournal(written))
    BY <1>1, <1>4 DEF Setting, JournalInv
  <2>8. FileIs(c, written, damage, s)
    BY <2>6, <2>7 DEF FileIs
  <2> QED BY <1>1, <1>6, <2>3, <2>7, <2>8 DEF JournalInv
<1> QED BY <1>7, <1>8

LEMMA DamageKeeps ==
  ASSUME JournalInv, Damage
  PROVE  JournalInv'
<1>1. /\ ~open /\ open' = open /\ written' = written /\ damage' = damage + 1
      /\ \E i \in DOMAIN bytes : \E cell \in DamagedCells(bytes[i]) :
           bytes' = [bytes EXCEPT ![i] = cell]
  BY DEF Damage
<1>2. PICK c : c = bytes'
  OBVIOUS
<1>3. PICK i \in DOMAIN bytes : \E cell \in DamagedCells(bytes[i]) :
        c = [bytes EXCEPT ![i] = cell]
  BY <1>1, <1>2
<1>4. PICK cell \in DamagedCells(bytes[i]) : c = [bytes EXCEPT ![i] = cell]
  BY <1>3
<1>5. PICK s : FileIs(bytes, written, damage, s)
  BY DEF JournalInv
<1>6. /\ written \in Seq(Payloads) /\ Starts(written, s)
      /\ Layout(written, s, EncodeJournal(written)) /\ Shape(bytes, written, s)
  BY <1>5 DEF FileIs, JournalInv
<1>7. Shape(c, written, s)
  BY <1>4, <1>6, DamagedFile
<1>8. PICK d : d = damage'
  OBVIOUS
<1>9. d \in Nat /\ d # 0
  BY <1>1, <1>8 DEF JournalInv
<1>10. FileIs(c, written, d, s)
  BY <1>6, <1>7, <1>9 DEF FileIs
<1> QED BY <1>1, <1>2, <1>6, <1>8, <1>9, <1>10 DEF JournalInv

LEMMA RecoverKeeps ==
  ASSUME JournalInv, Recover
  PROVE  JournalInv'
<1>1. PICK r : r = ScanJournal(bytes)
  OBVIOUS
<1>2. /\ r.error = Ok /\ bytes' = Truncated(bytes, r) /\ open' = TRUE
      /\ written' = r.payloads /\ damage' = damage
  BY <1>1 DEF Recover
<1>3. PICK s : FileIs(bytes, written, damage, s)
  BY DEF JournalInv
<1>4. written \in Seq(Payloads) /\ Starts(written, s) /\ Shape(bytes, written, s)
  BY <1>3 DEF FileIs, JournalInv
<1>5. PICK j : Recovered(bytes, written, s, j, r)
  BY <1>1, <1>2, <1>4, ScanRecovers
<1>6. /\ j \in 0..Len(written) /\ \A i \in 1..j : FrameAt(bytes, s[i - 1], written[i])
      /\ r.lastValidOffset = s[j] /\ r.payloads = SubSeq(written, 1, j)
  BY <1>5 DEF Recovered
<1>7. PICK c : c = bytes'
  OBVIOUS
<1>8. PICK e : e = s[j]
  OBVIOUS
<1>9. IsSeq(bytes) /\ Len(bytes) \in Nat
  BY <1>4, SeqFacts DEF Shape
<1>10. e \in Nat
  BY <1>4, <1>6, <1>8, StartsGrow
<1>11. e \in 0..Len(bytes) /\ c = SubSeq(bytes, 1, e)
  <2>1. CASE r.truncatedTail
    <3>1. e < Len(bytes)
      BY <1>5, <1>8, <2>1 DEF Recovered
    <3>2. c = SubSeq(bytes, 1, e)
      BY <1>2, <1>6, <1>7, <1>8, <2>1 DEF Truncated
    <3> QED BY <1>9, <1>10, <3>1, <3>2
  <2>2. CASE ~r.truncatedTail
    <3>1. e = Len(bytes)
      BY <1>5, <1>8, <2>2 DEF Recovered
    <3>2. c = bytes
      BY <1>2, <1>7, <2>2 DEF Truncated
    <3>3. e \in 0..Len(bytes)
      BY <1>9, <3>1
    <3>4. SubSeq(bytes, 1, e) = bytes
      BY <1>9, <3>1, <3>3, FirstOf
    <3> QED BY <3>2, <3>3, <3>4
  <2> QED BY <2>1, <2>2
<1>12. CutAt(c, bytes, e)
  BY <1>9, <1>11, IsCut
<1>13. Setting(SubSeq(written, 1, j), Fewer(s, j), c)
  BY <1>4, <1>6, <1>8, <1>12, CutIsWhole
<1>14. PICK qs, t : qs = SubSeq(written, 1, j) /\ t = Fewer(s, j)
  OBVIOUS
<1>15. Setting(qs, t, c)
  BY <1>13, <1>14
<1>16. c = EncodeJournal(qs) /\ FileIs(c, qs, damage, t)
  BY <1>15, WholeFileIs
<1>17. qs \in Seq(Payloads) /\ written' = qs
  BY <1>2, <1>6, <1>14, <1>15 DEF Setting
<1> QED BY <1>2, <1>7, <1>16, <1>17 DEF JournalInv

LEMMA StutterKeeps == ASSUME JournalInv, UNCHANGED vars PROVE JournalInv'
BY DEF JournalInv, vars

(* Whatever is appended, torn, damaged and recovered, in any order: the    *)
(* file has the fields of the frames of `written` in their places, and     *)
(* behind them at most the beginning of one more; the file of an open      *)
(* server has nothing else, and one never damaged has the frames as they   *)
(* were written.                                                           *)
THEOREM JournalInvariant == Spec => []JournalInv
<1>1. Init => JournalInv
  BY JournalStarts
<1>2. JournalInv /\ [Next]_vars => JournalInv'
  <2>1. SUFFICES ASSUME JournalInv, [Next]_vars PROVE JournalInv'
    OBVIOUS
  <2>2. CASE AppendAndFlush
    BY <2>1, <2>2, AppendKeeps
  <2>3. CASE StopWithin
    BY <2>1, <2>3, StopKeeps
  <2>4. CASE Damage
    BY <2>1, <2>4, DamageKeeps
  <2>5. CASE Recover
    BY <2>1, <2>5, RecoverKeeps
  <2>6. CASE UNCHANGED vars
    BY <2>1, <2>6, StutterKeeps
  <2> QED BY <2>1, <2>2, <2>3, <2>4, <2>5, <2>6 DEF Next
<1> QED BY <1>1, <1>2, PTL DEF Spec

-----------------------------------------------------------------------------
(* What follows from the invariant.                                        *)

(* A prefix is a cut of what it is a prefix of.                            *)
LEMMA CutIsPrefix ==
  ASSUME NEW a, IsSeq(a), NEW n \in 0..Len(a), NEW r, CutAt(r, a, n)
  PROVE  IsPrefix(r, a)
<1>1. IsSeq(r) /\ Len(r) = n /\ n \in Nat /\ \A i \in 1..n : r[i] = a[i]
  BY DEF CutAt
<1>2. PICK x, y : x = SubSeq(r, 1, n) /\ y = SubSeq(a, 1, n)
  OBVIOUS
<1>3. CutAt(y, a, n)
  BY <1>2, IsCut
<1>4. n \in 0..Len(r)
  BY <1>1
<1>5. CutAt(x, r, n)
  BY <1>1, <1>2, <1>4, IsCut
<1>6. Agree(x, y)
  BY <1>1, <1>3, <1>5 DEF Agree, CutAt
<1>7. SubSeq(r, 1, n) = SubSeq(a, 1, n)
  BY <1>2, <1>6, EqualSequences
<1>8. n <= Len(a)
  BY <1>1, SeqFacts
<1> QED BY <1>1, <1>7, <1>8 DEF IsPrefix

(* All frames in place and as written: the file begins with the journal,   *)
(* and is no more than it when it is as long.                              *)
LEMMA WholeIsPrefix ==
  ASSUME NEW ps \in Seq(Payloads), NEW s, Starts(ps, s),
         NEW file, Shape(file, ps, s),
         \A i \in 1..Len(ps) : FrameAt(file, s[i - 1], ps[i])
  PROVE  /\ IsPrefix(EncodeJournal(ps), file)
         /\ Len(file) = s[Len(ps)] => file = EncodeJournal(ps)
<1>1. PICK m \in Nat : m = Len(ps)
  OBVIOUS
<1>2. PICK e : e = s[m]
  OBVIOUS
<1>3. IsSeq(file) /\ e <= Len(file) /\ Len(file) \in Nat
  BY <1>1, <1>2, SeqFacts DEF Shape
<1>4. e \in Nat
  <2>1. \A k \in 0..m : s[k] \in Nat
    BY <1>1, StartsGrow
  <2> QED BY <1>2, <2>1
<1>5. e \in 0..Len(file)
  BY <1>3, <1>4
<1>6. PICK r : r = SubSeq(file, 1, e)
  OBVIOUS
<1>7. CutAt(r, file, e)
  BY <1>3, <1>5, <1>6, IsCut
<1>8. Setting(SubSeq(ps, 1, m), Fewer(s, m), r)
  <2>1. m \in 0..Len(ps) /\ \A i \in 1..m : FrameAt(file, s[i - 1], ps[i])
    BY <1>1
  <2> QED BY <1>2, <1>7, <2>1, CutIsWhole
<1>9. SubSeq(ps, 1, m) = ps
  <2>1. IsSeq(ps) /\ m \in 0..Len(ps)
    BY <1>1 DEF IsSeq
  <2> QED BY <1>1, <2>1, FirstOf
<1>10. PICK t : t = Fewer(s, m)
  OBVIOUS
<1>11. Setting(ps, t, r)
  BY <1>8, <1>9, <1>10
<1>12. r = EncodeJournal(ps)
  BY <1>11, WholeFileIs
<1>13. IsPrefix(r, file)
  BY <1>3, <1>5, <1>7, CutIsPrefix
<1>14. Len(file) = e => r = file
  BY <1>3, <1>5, <1>6, FirstOf
<1> QED BY <1>1, <1>2, <1>12, <1>13, <1>14

(* Only payloads that were written are recovered, from the first one on,   *)
(* in their order and none left out: scan_journal on any file that appends *)
(* and damage can make.                                                    *)
THEOREM NothingIsInvented == Spec => []OnlyWrittenIsRecovered
<1>1. JournalInv => OnlyWrittenIsRecovered
  <2>1. SUFFICES ASSUME JournalInv, ScanJournal(bytes).error = Ok
                 PROVE  IsPrefix(ScanJournal(bytes).payloads, written)
    BY DEF OnlyWrittenIsRecovered
  <2>2. PICK r : r = ScanJournal(bytes)
    OBVIOUS
  <2>3. PICK s : FileIs(bytes, written, damage, s)
    BY <2>1 DEF JournalInv
  <2>4. written \in Seq(Payloads) /\ Starts(written, s) /\ Shape(bytes, written, s)
    BY <2>1, <2>3 DEF FileIs, JournalInv
  <2>5. PICK j : Recovered(bytes, written, s, j, r)
    BY <2>1, <2>2, <2>4, ScanRecovers
  <2>6. j \in 0..Len(written) /\ r.payloads = SubSeq(written, 1, j)
    BY <2>5 DEF Recovered
  <2>7. IsSeq(written)
    BY <2>4 DEF IsSeq
  <2>8. PICK q : q = r.payloads
    OBVIOUS
  <2>9. CutAt(q, written, j)
    BY <2>6, <2>7, <2>8, IsCut
  <2>10. IsPrefix(q, written)
    BY <2>6, <2>7, <2>9, CutIsPrefix
  <2> QED BY <2>2, <2>8, <2>10
<1> QED BY <1>1, JournalInvariant, PTL

(* An open server appends directly behind a whole frame: what recovery     *)
(* left of the file is exactly the journal it recovered.                   *)
THEOREM OpenJournalIsWhole == Spec => []OpenIsWhole
<1>1. JournalInv => OpenIsWhole
  BY DEF JournalInv, OpenIsWhole
<1> QED BY <1>1, JournalInvariant, PTL

(* Damage to whole frames that leaves their lengths right is reported: no  *)
(* frame behind it is cut off as if an append had been torn.               *)
THEOREM DamageIsReported == Spec => []ChecksummedDamageIsReported
<1>1. JournalInv => ChecksummedDamageIsReported
  <2>1. PICK whole : whole = EncodeJournal(written)
    OBVIOUS
  <2>2. SUFFICES ASSUME JournalInv, ~IsPrefix(whole, bytes),
                        \A i \in DOMAIN whole :
                          whole[i][1] = "length" => bytes[i] = whole[i],
                        ScanJournal(bytes).error = Ok
                 PROVE  FALSE
    BY <2>1 DEF ChecksummedDamageIsReported, Intact
  <2>3. PICK s : FileIs(bytes, written, damage, s)
    BY <2>2 DEF JournalInv
  <2>4. written \in Seq(Payloads) /\ Starts(written, s) /\ Shape(bytes, written, s)
    BY <2>2, <2>3 DEF FileIs, JournalInv
  <2>5. Layout(written, s, whole)
    BY <2>1, <2>3 DEF FileIs
  <2>6. PICK m \in Nat : m = Len(written)
    BY <2>4
  <2>7. PICK r : r = ScanJournal(bytes)
    OBVIOUS
  <2>8. PICK j : Recovered(bytes, written, s, j, r)
    BY <2>2, <2>4, <2>7, ScanRecovers
  <2>9. /\ j \in 0..m /\ \A i \in 1..j : FrameAt(bytes, s[i - 1], written[i])
        /\ ~r.truncatedTail => s[j] = Len(bytes)
        /\ r.truncatedTail => DecodeError(Rest(bytes, s[j])) = "UnexpectedEnd"
    BY <2>6, <2>8 DEF Recovered
  <2>10. j # m
    <3>1. SUFFICES ASSUME j = m PROVE FALSE
      OBVIOUS
    <3>2. \A i \in 1..Len(written) : FrameAt(bytes, s[i - 1], written[i])
      BY <2>6, <2>9, <3>1
    <3>3. IsPrefix(EncodeJournal(written), bytes)
      BY <2>4, <3>2, WholeIsPrefix
    <3> QED BY <2>1, <2>2, <3>3
  <2>11. j + 1 \in 1..m /\ j + 1 \in 0..m /\ m \in 0..m /\ j + 1 <= m /\ j + 1 - 1 = j
    BY <2>9, <2>10
  <2>12. PICK p : p = written[j + 1]
    OBVIOUS
  <2>13. PICK o \in Nat : o = s[j]
    BY <2>4, <2>6, <2>9, StartsGrow
  <2>14. p \in Payloads /\ Len(p) \in Nat /\ s[j + 1] = o + Len(p) + 3
    <3>1. \A k \in 1..m : /\ written[k] \in Payloads /\ Len(written[k]) \in Nat
                          /\ s[k] = s[k - 1] + Len(written[k]) + 3
      BY <2>4, <2>6, StartsGrow
    <3>2. PICK k \in 1..m : k = j + 1 /\ k - 1 = j
      BY <2>9, <2>11
    <3>3. /\ written[k] \in Payloads /\ Len(written[k]) \in Nat
          /\ s[k] = s[k - 1] + Len(written[k]) + 3
      BY <3>1
    <3>4. s[k - 1] = o /\ written[k] = p /\ s[k] = s[j + 1]
      BY <2>12, <2>13, <3>2
    <3> QED BY <3>3, <3>4
  <2>15. s[j + 1] <= s[m] /\ s[m] \in Nat
    <3>1. \A i, k \in 0..m : i <= k => s[i] <= s[k]
      BY <2>4, <2>6, StartsGrow
    <3>2. \A k \in 0..m : s[k] \in Nat
      BY <2>4, <2>6, StartsGrow
    <3> QED BY <2>11, <3>1, <3>2
  <2>16. IsSeq(bytes) /\ Cells(bytes) /\ s[m] <= Len(bytes) /\ Len(bytes) \in Nat
    BY <2>4, <2>6, SeqFacts DEF Shape
  <2>17. o + Len(p) + 3 <= Len(bytes) /\ o \in 0..Len(bytes) /\ o # Len(bytes)
    BY <2>14, <2>15, <2>16
  <2>18. DecodeError(Rest(bytes, o)) = "UnexpectedEnd"
    BY <2>9, <2>13, <2>17
  <2>19. bytes[o + 2] = Length(Len(p))
    <3>1. whole[o + 2] = Length(Len(p))
      <4>1. PICK k \in 1..m : k = j + 1 /\ k - 1 = j
        BY <2>9, <2>11
      <4>2. FrameAt(whole, s[k - 1], written[k])
        BY <2>5, <2>6 DEF Layout
      <4>3. s[k - 1] = o /\ written[k] = p
        BY <2>12, <2>13, <4>1
      <4>4. FrameAt(whole, o, p)
        BY <4>2, <4>3
      <4> QED BY <4>4 DEF FrameAt
    <3>2. IsSeq(whole) /\ Len(whole) = s[m]
      BY <2>5, <2>6 DEF Layout
    <3>3. o + 2 \in DOMAIN whole
      <4>1. o + 2 \in 1..s[m]
        BY <2>14, <2>15
      <4> QED BY <3>2, <4>1, SeqFacts
    <3>4. whole[o + 2][1] = "length"
      BY <3>1 DEF Length
    <3> QED BY <2>2, <3>1, <3>3, <3>4
  <2>20. DecodeError(Rest(bytes, o)) # "UnexpectedEnd"
    BY <2>14, <2>16, <2>17, <2>19, RightLengthIsNotShort
  <2> QED BY <2>18, <2>20
<1> QED BY <1>1, JournalInvariant, PTL

-----------------------------------------------------------------------------
(* The same file as JournalStore has it.                                   *)

(* r is the n elements of a behind the first m.                            *)
IsSlice(r, a, m, n) ==
  IsSeq(r) /\ Len(r) = n /\ \A i \in 1..n : r[i] = a[m + i]

LEMMA SliceIs ==
  ASSUME NEW a, IsSeq(a), NEW m \in Nat, NEW n \in Nat, m + n <= Len(a),
         NEW r, r = SubSeq(a, m + 1, m + n)
  PROVE  IsSlice(r, a, m, n)
<1>1. PICK S : a \in Seq(S)
  BY DEF IsSeq
<1>2. \A i \in (m + 1)..(m + n) : a[i] \in S
  BY <1>1
<1>3. r = [i \in 1..n |-> a[m + i]]
  BY <1>1, <1>2
<1>4. DOMAIN r = 1..n /\ \A i \in 1..n : r[i] = a[m + i]
  BY <1>3
<1>5. r = [i \in 1..n |-> r[i]]
  BY <1>3, <1>4
<1> QED BY <1>4, <1>5, SeqMade DEF IsSlice

(* Where the frames start in the journal as it was written, they start.    *)
LEMMA StartIs ==
  ASSUME NEW s, written \in Seq(Payloads), FileIs(bytes, written, damage, s),
         NEW k \in 1..(Len(written) + 1)
  PROVE  StartOf(k) = s[k - 1]
<1>1. PICK c : c = EncodeJournal(written)
  OBVIOUS
<1>2. /\ Starts(written, s) /\ IsSeq(c) /\ Len(c) = s[Len(written)]
      /\ \A i \in 1..Len(written) : FrameAt(c, s[i - 1], written[i])
  BY <1>1 DEF FileIs, Layout
<1>3. PICK j : j = k - 1 /\ j \in 0..Len(written)
  OBVIOUS
<1>4. s[j] \in 0..Len(c)
  <2>1. /\ \A i \in 0..Len(written) : s[i] \in Nat
        /\ \A i, n \in 0..Len(written) : i <= n => s[i] <= s[n]
    BY <1>2, StartsGrow
  <2>2. Len(written) \in 0..Len(written) /\ j <= Len(written)
    BY <1>3
  <2>3. s[j] <= s[Len(written)] /\ s[j] \in Nat /\ s[Len(written)] \in Nat
    BY <1>3, <2>1, <2>2
  <2> QED BY <1>2, <2>3
<1>5. PICK qs, t, r : /\ qs = SubSeq(written, 1, j) /\ t = Fewer(s, j)
                      /\ r = SubSeq(c, 1, s[j])
  OBVIOUS
<1>6. CutAt(r, c, s[j])
  BY <1>2, <1>4, <1>5, IsCut
<1>7. LaidOut(qs, t, r)
  <2>1. s[j] <= Len(c)
    BY <1>4
  <2>2. \A i \in 1..j : FrameAt(c, s[i - 1], written[i])
    BY <1>2, <1>3
  <2>3. Starts(written, s) /\ IsSeq(c) /\ j \in 0..Len(written)
    BY <1>2, <1>3
  <2>4. qs = SubSeq(written, 1, j) /\ t = Fewer(s, j)
    BY <1>5
  <2> HIDE <1>5
  <2> QED BY <1>6, <2>1, <2>2, <2>3, <2>4, LayoutIsCut
<1>8. r = EncodeJournal(qs)
  BY <1>7, LayoutIsEncoding DEF LaidOut
<1>9. Len(r) = s[j]
  BY <1>6 DEF CutAt
<1> QED BY <1>3, <1>5, <1>8, <1>9 DEF StartOf

(* A frame is whole where all of its cells are as they were written.       *)
LEMMA WholeIs ==
  ASSUME NEW s, written \in Seq(Payloads), FileIs(bytes, written, damage, s),
         NEW k \in 1..Len(written)
  PROVE  IsWhole(k) <=> FrameAt(bytes, s[k - 1], written[k])
<1>1. PICK m \in Nat : m = Len(written)
  OBVIOUS
<1>2. Starts(written, s) /\ IsSeq(bytes) /\ s[m] <= Len(bytes) /\ Len(bytes) \in Nat
  BY <1>1, SeqFacts DEF FileIs, Shape
<1>3. PICK o, p, f : o = s[k - 1] /\ p = written[k] /\ f = EncodeFrame(p)
  OBVIOUS
<1>4. /\ p \in Payloads /\ o \in Nat /\ Len(p) \in Nat /\ s[k] = o + Len(p) + 3
      /\ s[k] <= s[m] /\ s[m] \in Nat
  <2>1. k \in 0..m /\ k - 1 \in 0..m /\ m \in 0..m /\ k <= m
    BY <1>1
  <2> QED BY <1>1, <1>2, <1>3, <2>1, StartsGrow
<1>5. IsSeq(f) /\ Len(f) = Len(p) + 3 /\ FrameAt(f, 0, p)
  BY <1>3, <1>4, FrameCells
<1>6. PICK n \in Nat : n = Len(p) + 3 /\ o + n <= Len(bytes)
  BY <1>2, <1>4
<1>7. PICK r : r = SubSeq(bytes, o + 1, o + n)
  OBVIOUS
<1>8. IsSeq(r) /\ Len(r) = n /\ \A i \in 1..n : r[i] = bytes[o + i]
  <2>1. IsSeq(bytes) /\ o \in Nat /\ o + n <= Len(bytes)
    BY <1>2, <1>4, <1>6
  <2>2. IsSlice(r, bytes, o, n)
    BY <1>7, <2>1, SliceIs
  <2> QED BY <2>2 DEF IsSlice
<1>9. IsWhole(k) <=> r = f
  <2>1. StartOf(k) = o
    <3>1. k \in 1..(Len(written) + 1)
      BY <1>1
    <3> QED BY <1>3, <3>1, StartIs
  <2>2. k \in DOMAIN written
    BY <1>1
  <2>3. Len(EncodeFrame(written[k])) = n
    BY <1>3, <1>5, <1>6
  <2> QED BY <1>3, <1>7, <2>1, <2>2, <2>3 DEF IsWhole
<1>10. ASSUME r = f PROVE FrameAt(bytes, o, p)
  <2>1. \A i \in 1..n : bytes[o + i] = f[i]
    BY <1>8, <1>10
  <2>2. /\ f[1] = Magic /\ f[2] = Length(Len(p))
        /\ \A i \in 1..Len(p) : f[2 + i] = <<"byte", p[i]>>
        /\ f[Len(p) + 3] = Crc(Data(p))
    BY <1>4, <1>5 DEF FrameAt
  <2>3. 1 \in 1..n /\ 2 \in 1..n /\ Len(p) + 3 \in 1..n
    BY <1>4, <1>6
  <2>4. bytes[o + 1] = f[1] /\ bytes[o + 2] = f[2]
    BY <2>1, <2>3
  <2>5. bytes[o + (Len(p) + 3)] = f[Len(p) + 3] /\ o + (Len(p) + 3) = o + Len(p) + 3
    BY <1>4, <2>1, <2>3
  <2>6. ASSUME NEW i \in 1..Len(p) PROVE bytes[o + 2 + i] = <<"byte", p[i]>>
    <3>1. 2 + i \in 1..n /\ o + (2 + i) = o + 2 + i
      BY <1>4, <1>6
    <3>2. bytes[o + (2 + i)] = f[2 + i]
      BY <2>1, <3>1
    <3> QED BY <2>2, <3>1, <3>2
  <2> QED BY <2>2, <2>4, <2>5, <2>6 DEF FrameAt
<1>11. ASSUME FrameAt(bytes, o, p) PROVE r = f
  <2>1. ASSUME NEW i \in 1..n PROVE r[i] = f[i]
    <3>1. i \in 1..(Len(p) + 3)
      BY <1>6
    <3>2. bytes[o + i] = f[i]
      BY <1>3, <1>4, <1>11, <3>1, SameFrame
    <3> QED BY <1>8, <3>2
  <2>2. Agree(r, f)
    BY <1>5, <1>6, <1>8, <2>1 DEF Agree
  <2> QED BY <2>2, EqualSequences
<1> QED BY <1>3, <1>9, <1>10, <1>11

(* The header tells what decode_frame takes for a frame cut short.         *)
LEMMA EndsBehindIs ==
  ASSUME NEW file, IsSeq(file), Cells(file), NEW o \in 0..Len(file),
         NEW rest, rest = Rest(file, o)
  PROVE  EndsBehindFile(rest) <=> DecodeError(rest) = "UnexpectedEnd"
<1>1. PICK n, d, e : n = PayloadSize(rest) /\ d = DataOf(rest) /\ e = DecodeError(rest)
  OBVIOUS
<1>2. Decoding(file, o, n, d, e)
  BY <1>1, DecodesAt
<1>3. PICK L \in Nat : L = Len(file) /\ o \in Nat /\ o <= L
  BY SeqFacts
<1>4. Len(rest) = L - o /\ \A i \in 1..(L - o) : rest[i] = file[o + i]
  <2>1. IsRest(rest, file, o)
    BY RestIs
  <2> QED BY <1>3, <2>1 DEF IsRest
<1>5. FrameSize(rest) = 2 + n + 1
  BY <1>1 DEF FrameSize, HeaderSize, CrcSize
<1>6. CASE L < o + 2
  <2>1. Len(rest) < 2
    BY <1>3, <1>4, <1>6
  <2>2. e = "UnexpectedEnd"
    BY <1>2, <1>3, <1>6 DEF Decoding
  <2> QED BY <1>1, <2>1, <2>2 DEF EndsBehindFile, HeaderSize
<1>7. CASE L >= o + 2
  <2>1. ~(Len(rest) < 2) /\ rest[1] = file[o + 1]
    BY <1>3, <1>4, <1>7
  <2>2. CASE file[o + 1] # Magic
    <3>1. e = "InvalidMagic"
      BY <1>2, <1>3, <1>7, <2>2 DEF Decoding
    <3> QED BY <1>1, <2>1, <2>2, <3>1 DEF EndsBehindFile, HeaderSize
  <2>3. CASE file[o + 1] = Magic
    <3>1. /\ n \in Nat
          /\ n > MaximumPayload => e = "PayloadTooLarge"
          /\ n <= MaximumPayload /\ L < o + n + 3 => e = "UnexpectedEnd"
          /\ n <= MaximumPayload /\ L >= o + n + 3 =>
               e = IF file[o + n + 3] # Crc(d) THEN "CrcMismatch" ELSE Ok
      BY <1>2, <1>3, <1>7, <2>3 DEF Decoding
    <3>2. EndsBehindFile(rest) <=> n <= MaximumPayload /\ Len(rest) < 2 + n + 1
      BY <1>1, <1>5, <2>1, <2>3 DEF EndsBehindFile, HeaderSize
    <3>3. Len(rest) < 2 + n + 1 <=> L < o + n + 3
      BY <1>3, <1>4, <3>1
    <3>4. MaximumPayload \in Nat
      BY PayloadsEncode
    <3>5. n <= MaximumPayload /\ L < o + n + 3 <=> e = "UnexpectedEnd"
      <4>1. CASE n > MaximumPayload
        BY <3>1, <3>4, <4>1
      <4>2. CASE n <= MaximumPayload /\ L < o + n + 3
        BY <3>1, <4>2
      <4>3. CASE n <= MaximumPayload /\ L >= o + n + 3
        <5>1. e = IF file[o + n + 3] # Crc(d) THEN "CrcMismatch" ELSE Ok
          BY <3>1, <4>3
        <5>2. e # "UnexpectedEnd" /\ ~(L < o + n + 3)
          BY <1>3, <3>1, <4>3, <5>1 DEF Ok
        <5> QED BY <5>2
      <4> QED BY <1>3, <3>1, <3>4, <4>1, <4>2, <4>3
    <3> QED BY <1>1, <3>2, <3>3, <3>5
  <2> QED BY <2>2, <2>3
<1> QED BY <1>3, <1>6, <1>7

(* What decode_frame says where a frame was written, or behind the last    *)
(* one, is what the frame is to JournalStore.                              *)
LEMMA StoreFrameIs ==
  ASSUME NEW s, written \in Seq(Payloads), FileIs(bytes, written, damage, s),
         NEW k \in 1..(Len(written) + 1),
         NEW e, e = DecodeError(Rest(bytes, s[k - 1]))
  PROVE  /\ e = Ok => /\ k \in 1..Len(written)
                      /\ FrameAt(bytes, s[k - 1], written[k])
                      /\ StoreFrame(k) = Store!Frame(written[k])
         /\ e = "UnexpectedEnd" => StoreFrame(k) = Store!TornFrame
         /\ e \notin {Ok, "UnexpectedEnd"} => StoreFrame(k) = Store!CorruptFrame
<1>1. PICK m \in Nat : m = Len(written)
  OBVIOUS
<1>2. /\ Starts(written, s) /\ IsSeq(bytes) /\ Cells(bytes)
      /\ s[m] <= Len(bytes) /\ Len(bytes) \in Nat /\ TailAt(bytes, s[m])
      /\ \A i \in 1..m : FieldsAt(bytes, s[i - 1], written[i])
  BY <1>1, SeqFacts DEF FileIs, Shape
<1>3. PICK o : o = s[k - 1]
  OBVIOUS
<1>4. o \in 0..Len(bytes)
  <2>1. k - 1 \in 0..m /\ m \in 0..m /\ k - 1 <= m
    BY <1>1
  <2>2. s[k - 1] <= s[m] /\ s[k - 1] \in Nat /\ s[m] \in Nat
    BY <1>1, <1>2, <2>1, StartsGrow
  <2> QED BY <1>2, <1>3, <2>2
<1>5. PICK rest : rest = Rest(bytes, o)
  OBVIOUS
<1>6. EndsBehindFile(rest) <=> e = "UnexpectedEnd"
  BY <1>2, <1>3, <1>4, <1>5, EndsBehindIs
<1>7. StoreFrame(k) = IF IsWhole(k) THEN Store!Frame(written[k])
                      ELSE IF EndsBehindFile(rest)
                           THEN Store!TornFrame ELSE Store!CorruptFrame
  <2>1. StartOf(k) = o
    BY <1>3, StartIs
  <2> QED BY <1>5, <2>1 DEF StoreFrame, Rest
<1>8. ASSUME k \in 1..m
      PROVE  /\ written[k] \in Payloads /\ o + Len(written[k]) + 3 <= Len(bytes)
             /\ FieldsAt(bytes, o, written[k])
  <2>1. k \in 0..m /\ m \in 0..m /\ k <= m
    BY <1>8
  <2>2. s[k] <= s[m] /\ s[k] \in Nat /\ s[m] \in Nat /\ written[k] \in Payloads
    BY <1>1, <1>2, <1>8, <2>1, StartsGrow
  <2>3. s[k] = o + Len(written[k]) + 3
    BY <1>1, <1>2, <1>3, <1>8, StartsGrow
  <2> QED BY <1>2, <1>3, <1>8, <2>2, <2>3
<1>9. ASSUME e = Ok
      PROVE  /\ k \in 1..m /\ FrameAt(bytes, o, written[k])
             /\ StoreFrame(k) = Store!Frame(written[k])
  <2>1. k # m + 1
    <3>1. SUFFICES ASSUME k = m + 1 PROVE FALSE
      OBVIOUS
    <3>2. k - 1 = m
      BY <3>1
    <3>3. TailAt(bytes, o)
      BY <1>2, <1>3, <3>2
    <3> QED BY <1>2, <1>3, <1>4, <1>9, <3>3, TailNeverDecodes
  <2>2. k \in 1..m
    BY <1>1, <2>1
  <2>3. FrameAt(bytes, o, written[k])
    BY <1>2, <1>3, <1>4, <1>5, <1>8, <1>9, <2>2, OnlyTheFrameDecodes
  <2>4. IsWhole(k)
    BY <1>1, <1>3, <2>2, <2>3, WholeIs
  <2> QED BY <1>7, <2>2, <2>3, <2>4
<1>10. ASSUME e # Ok PROVE ~IsWhole(k)
  <2>1. SUFFICES ASSUME IsWhole(k) PROVE FALSE
    OBVIOUS
  <2>2. k \in 1..m
    BY <1>1, <2>1 DEF IsWhole
  <2>3. FrameAt(bytes, o, written[k])
    BY <1>1, <1>3, <2>1, <2>2, WholeIs
  <2>4. DecodeError(Rest(bytes, o)) = Ok
    BY <1>2, <1>4, <1>8, <2>2, <2>3, FrameDecodes
  <2> QED BY <1>3, <1>10, <2>4
<1>11. Ok # "UnexpectedEnd"
  BY DEF Ok
<1> QED BY <1>1, <1>3, <1>6, <1>7, <1>9, <1>10, <1>11

(* The file is seen as its written frames, and one more when there is more.*)
LEMMA ViewIs ==
  ASSUME NEW s, written \in Seq(Payloads), FileIs(bytes, written, damage, s),
         NEW v, v = Len(written) + (IF s[Len(written)] < Len(bytes) THEN 1 ELSE 0)
  PROVE  /\ v \in Nat /\ DOMAIN StoreView = 1..v
         /\ \A k \in 1..v : StoreView[k] = StoreFrame(k)
<1>1. PICK m \in Nat : m = Len(written)
  OBVIOUS
<1>2. /\ Starts(written, s) /\ s[m] <= Len(bytes) /\ Len(bytes) \in Nat
      /\ s[m] \in Nat
  <2>1. Starts(written, s) /\ s[m] <= Len(bytes) /\ Len(bytes) \in Nat
    BY <1>1, SeqFacts DEF FileIs, Shape
  <2> QED BY <1>1, <2>1, StartsGrow
<1>3. v \in {m, m + 1} /\ (v = m + 1 <=> s[m] < Len(bytes))
  BY <1>1
<1>4. ASSUME NEW n \in 1..(m + 1) PROVE StartOf(n) < Len(bytes) <=> n \in 1..v
  <2>1. StartOf(n) = s[n - 1]
    BY <1>1, StartIs
  <2>2. CASE n = m + 1
    <3>1. n - 1 = m
      BY <2>2
    <3> QED BY <1>3, <2>1, <2>2, <3>1
  <2>3. CASE n # m + 1
    <3>1. n \in 1..m /\ n \in 0..m /\ n - 1 \in 0..m /\ m \in 0..m /\ n <= m
      BY <2>3
    <3>2. /\ s[n] = s[n - 1] + Len(written[n]) + 3 /\ Len(written[n]) \in Nat
          /\ s[n - 1] \in Nat /\ s[n] \in Nat /\ s[n] <= s[m]
      BY <1>1, <1>2, <3>1, StartsGrow
    <3>3. s[n - 1] < Len(bytes)
      BY <1>2, <3>2
    <3> QED BY <1>3, <2>1, <3>1, <3>3
  <2> QED BY <2>2, <2>3
<1>5. {n \in 1..(Len(written) + 1) : StartOf(n) < Len(bytes)} = 1..v
  BY <1>1, <1>3, <1>4
<1> QED BY <1>1, <1>3, <1>5 DEF StoreView

(* What JournalStore says of j whole frames with nothing, a torn one or a  *)
(* corrupt one behind them, whatever is behind that.                       *)
StoreSays(view, v, j, ps) ==
  /\ Store!ScanError(view) # Ok <=> j # v /\ view[j + 1] = Store!CorruptFrame
  /\ Store!IsTorn(view) <=> j # v /\ view[j + 1] = Store!TornFrame
  /\ Store!BatchesOf(view) = [i \in 1..j |-> ps[i]]

LEMMA StoreScan ==
  ASSUME NEW view, NEW v \in Nat, DOMAIN view = 1..v, NEW j \in 0..v,
         NEW ps, \A i \in 1..j : view[i] = Store!Frame(ps[i]),
         j # v => view[j + 1] \in {Store!TornFrame, Store!CorruptFrame}
  PROVE  StoreSays(view, v, j, ps)
<1>1. ASSUME NEW i \in 1..j PROVE view[i].complete /\ view[i].batch = ps[i]
  <2>1. PICK b : b = ps[i]
    OBVIOUS
  <2>2. view[i] = [complete |-> TRUE, batch |-> b]
    BY <2>1 DEF Store!Frame
  <2>3. view[i].complete
    BY <2>2
  <2> QED BY <2>1, <2>2, <2>3
<1>2. j # v => j + 1 \in 1..v /\ ~view[j + 1].complete
  BY DEF Store!TornFrame, Store!CorruptFrame
<1>3. Store!Readable(view) = 1..j
  <2>1. ASSUME NEW i \in 1..j PROVE i \in Store!Readable(view)
    BY <1>1 DEF Store!Readable
  <2>2. ASSUME NEW i \in 1..v, i \notin 1..j PROVE i \notin Store!Readable(view)
    <3>1. j + 1 \in 1..i /\ j # v
      BY <2>2
    <3> QED BY <1>2, <3>1 DEF Store!Readable
  <2>3. Store!Readable(view) \in SUBSET (1..v)
    BY DEF Store!Readable
  <2> QED BY <2>1, <2>2, <2>3
<1>4. ASSUME NEW f \in {Store!TornFrame, Store!CorruptFrame}
      PROVE  Store!StopsAt(view, f) <=> j # v /\ view[j + 1] = f
  <2>1. ~f.complete
    BY DEF Store!TornFrame, Store!CorruptFrame
  <2>2. ASSUME NEW i \in 1..v, view[i] = f, \A n \in 1..(i - 1) : view[n].complete
        PROVE  j # v /\ i = j + 1
    <3>1. i \notin 1..j
      BY <1>1, <2>1, <2>2
    <3>2. j # v
      BY <3>1
    <3>3. j + 1 \notin 1..(i - 1)
      BY <1>2, <2>2, <3>2
    <3> QED BY <3>1, <3>2, <3>3
  <2>3. ASSUME j # v, view[j + 1] = f PROVE Store!StopsAt(view, f)
    <3>1. j + 1 \in 1..v /\ \A n \in 1..(j + 1 - 1) : view[n].complete
      BY <1>1, <2>3
    <3> QED BY <2>3, <3>1 DEF Store!StopsAt
  <2> QED BY <2>2, <2>3 DEF Store!StopsAt
<1>5. Store!BatchesOf(view) = [i \in 1..j |-> ps[i]]
  BY <1>1, <1>3 DEF Store!BatchesOf
<1>6. Store!ScanError(view) # Ok <=> Store!StopsAt(view, Store!CorruptFrame)
  BY DEF Store!ScanError, Store!Fail, Store!Ok, Ok
<1> QED BY <1>4, <1>5, <1>6 DEF Store!IsTorn, StoreSays

(* JournalStore may speak of whole, torn and corrupt frames: on any file   *)
(* that appends and damage can make the byte by byte scan stops, reads and *)
(* cuts as it says.                                                        *)
THEOREM ScanRefines == Spec => []ScanIsTheStores
<1>1. JournalInv => ScanIsTheStores
  <2>1. SUFFICES ASSUME JournalInv PROVE ScanIsTheStores
    OBVIOUS
  <2>2. PICK r : r = ScanJournal(bytes)
    OBVIOUS
  <2>3. PICK s : FileIs(bytes, written, damage, s)
    BY <2>1 DEF JournalInv
  <2>4. /\ written \in Seq(Payloads) /\ Starts(written, s)
        /\ Shape(bytes, written, s)
    BY <2>1, <2>3 DEF FileIs, JournalInv
  <2>5. PICK m \in Nat : m = Len(written)
    BY <2>4
  <2>6. IsSeq(bytes) /\ s[m] <= Len(bytes) /\ Len(bytes) \in Nat /\ Cells(bytes)
    BY <2>4, <2>5, SeqFacts DEF Shape
  <2>7. PICK v : v = m + (IF s[m] < Len(bytes) THEN 1 ELSE 0)
    OBVIOUS
  <2>8. PICK view : view = StoreView
    OBVIOUS
  <2>9. /\ v \in Nat /\ DOMAIN view = 1..v
        /\ \A k \in 1..v : view[k] = StoreFrame(k)
    BY <2>3, <2>4, <2>5, <2>7, <2>8, ViewIs
  <2>10. v \in {m, m + 1} /\ (v = m + 1 <=> s[m] < Len(bytes))
    BY <2>7
  <2>11. ASSUME NEW j \in 0..m, \A i \in 1..j : FrameAt(bytes, s[i - 1], written[i])
         PROVE  j \in 0..v /\ \A i \in 1..j : view[i] = Store!Frame(written[i])
    <3>1. j \in 0..v
      BY <2>10
    <3>2. ASSUME NEW i \in 1..j PROVE view[i] = Store!Frame(written[i])
      <4>1. i \in 1..Len(written) /\ i \in 1..v
        BY <2>5, <2>10
      <4>2. IsWhole(i)
        BY <2>3, <2>4, <2>11, <4>1, WholeIs
      <4> QED BY <2>9, <4>1, <4>2 DEF StoreFrame
    <3> QED BY <3>1, <3>2
  <2>12. CASE r.error = Ok
    <3>1. PICK j : Recovered(bytes, written, s, j, r)
      BY <2>2, <2>4, <2>12, ScanRecovers
    <3>2. /\ j \in 0..m /\ r.payloads = SubSeq(written, 1, j)
          /\ \A i \in 1..j : FrameAt(bytes, s[i - 1], written[i])
          /\ r.truncatedTail \in BOOLEAN
          /\ r.truncatedTail => /\ s[j] < Len(bytes)
                                /\ DecodeError(Rest(bytes, s[j])) = "UnexpectedEnd"
          /\ ~r.truncatedTail => s[j] = Len(bytes)
      BY <2>5, <3>1 DEF Recovered
    <3>3. j \in 0..v /\ \A i \in 1..j : view[i] = Store!Frame(written[i])
      BY <2>11, <3>2
    <3>4. s[j] <= s[m] /\ s[j] \in Nat /\ s[m] \in Nat
      <4>1. m \in 0..m /\ j <= m
        BY <3>2
      <4> QED BY <2>4, <2>5, <3>2, <4>1, StartsGrow
    <3>5. r.truncatedTail <=> j # v
      <4>1. ASSUME r.truncatedTail PROVE j # v
        BY <2>6, <2>10, <3>2, <3>4, <4>1
      <4>2. ASSUME ~r.truncatedTail PROVE j = v
        <5>1. s[j] = s[m] /\ v = m
          BY <2>6, <2>10, <3>2, <3>4, <4>2
        <5>2. j = m
          <6>1. SUFFICES ASSUME j # m PROVE FALSE
            OBVIOUS
          <6>2. PICK k \in 1..m : k - 1 = j
            BY <3>2, <6>1
          <6>3. k \in 0..m /\ m \in 0..m /\ k <= m
            BY <6>2
          <6>4. s[k] = s[k - 1] + Len(written[k]) + 3 /\ Len(written[k]) \in Nat
            BY <2>4, <2>5, <6>2, StartsGrow
          <6>5. s[k] <= s[m] /\ s[k] \in Nat
            BY <2>4, <2>5, <6>3, StartsGrow
          <6> QED BY <3>4, <5>1, <6>2, <6>4, <6>5
        <5> QED BY <5>1, <5>2
      <4> QED BY <4>1, <4>2
    <3>6. j # v => j + 1 \in 1..v /\ view[j + 1] = Store!TornFrame
      <4>1. SUFFICES ASSUME j # v
                     PROVE  j + 1 \in 1..v /\ view[j + 1] = Store!TornFrame
        OBVIOUS
      <4>2. j + 1 \in 1..v /\ j + 1 \in 1..(Len(written) + 1) /\ j + 1 - 1 = j
        BY <2>5, <2>10, <3>2, <3>3, <4>1
      <4>3. StoreFrame(j + 1) = Store!TornFrame
        BY <2>3, <2>4, <3>2, <3>5, <4>1, <4>2, StoreFrameIs
      <4> QED BY <2>9, <4>2, <4>3
    <3>7. /\ Store!ScanError(view) # Ok <=> j # v /\ view[j + 1] = Store!CorruptFrame
          /\ Store!IsTorn(view) <=> j # v /\ view[j + 1] = Store!TornFrame
          /\ Store!BatchesOf(view) = [i \in 1..j |-> written[i]]
      <4>1. j # v => view[j + 1] \in {Store!TornFrame, Store!CorruptFrame}
        BY <3>6
      <4>2. v \in Nat /\ DOMAIN view = 1..v
        BY <2>9
      <4>3. StoreSays(view, v, j, written)
        BY <3>3, <4>1, <4>2, StoreScan
      <4> QED BY <4>3 DEF StoreSays
    <3>8. Store!TornFrame # Store!CorruptFrame
      BY DEF Store!TornFrame, Store!CorruptFrame
    <3>9. Store!ScanError(view) = Ok
      BY <3>6, <3>7, <3>8
    <3>10. r.truncatedTail = Store!IsTorn(view)
      <4>1. Store!IsTorn(view) \in BOOLEAN
        BY DEF Store!IsTorn, Store!StopsAt
      <4> QED BY <3>2, <3>5, <3>6, <3>7, <4>1
    <3>11. r.payloads = Store!BatchesOf(view)
      <4>1. SubSeq(written, 1, j) = [i \in 1..j |-> written[i]]
        BY <2>4, <2>5, <3>2
      <4> QED BY <3>2, <3>7, <4>1
    <3> QED BY <2>2, <2>8, <2>12, <3>9, <3>10, <3>11 DEF ScanIsTheStores
  <2>13. CASE r.error # Ok
    <3>1. PICK j \in 0..m : Stopped(bytes, written, s, 0, j)
      BY <2>2, <2>4, <2>5, <2>13, ScanRecovers
    <3>2. Wrong(bytes, s[j]) /\ \A i \in 1..j : FrameAt(bytes, s[i - 1], written[i])
      BY <3>1 DEF Stopped
    <3>3. j \in 0..v /\ \A i \in 1..j : view[i] = Store!Frame(written[i])
      BY <2>11, <3>2
    <3>4. j # v
      <4>1. SUFFICES ASSUME j = v PROVE FALSE
        OBVIOUS
      <4>2. j = m /\ s[m] = Len(bytes)
        <5>1. j = m /\ ~(s[m] < Len(bytes))
          BY <2>10, <4>1
        <5>2. s[m] \in Nat
          BY <2>4, <2>5, StartsGrow
        <5> QED BY <2>6, <5>1, <5>2
      <4>3. PICK o : o = s[m]
        OBVIOUS
      <4>4. o \in 0..Len(bytes) /\ Len(bytes) < o + 2
        BY <2>6, <4>2, <4>3
      <4>5. DecodeError(Rest(bytes, o)) = "UnexpectedEnd"
        BY <2>6, <4>4, DecodesAt DEF Decoding
      <4> QED BY <3>2, <4>2, <4>3, <4>5 DEF Wrong
    <3>5. j + 1 \in 1..v /\ view[j + 1] = Store!CorruptFrame
      <4>1. j + 1 \in 1..v /\ j + 1 \in 1..(Len(written) + 1) /\ j + 1 - 1 = j
        BY <2>5, <2>10, <3>3, <3>4
      <4>2. StoreFrame(j + 1) = Store!CorruptFrame
        BY <2>3, <2>4, <3>2, <4>1, StoreFrameIs DEF Wrong
      <4> QED BY <2>9, <4>1, <4>2
    <3>6. Store!ScanError(view) # Ok
      <4>1. view[j + 1] \in {Store!TornFrame, Store!CorruptFrame}
        BY <3>5
      <4>2. v \in Nat /\ DOMAIN view = 1..v
        BY <2>9
      <4>3. StoreSays(view, v, j, written)
        BY <3>3, <4>1, <4>2, StoreScan
      <4> QED BY <3>4, <3>5, <4>3 DEF StoreSays
    <3> QED BY <2>2, <2>8, <2>13, <3>6 DEF ScanIsTheStores
  <2> QED BY <2>12, <2>13
<1> QED BY <1>1, JournalInvariant, PTL

=============================================================================
