-------------------------- MODULE BackgroundProofs --------------------------
(***************************************************************************)
(* Proofs about what goes on beside the requests.  First about UsageBuffer *)
(* for every buffer size and number of records; then about VideoJob for    *)
(* any jobs, any number of cancel requests and every combination of        *)
(* failures.                                                               *)
(*                                                                         *)
(* Since the oldest records are the ones dropped, the buffer always holds  *)
(* a span of consecutive numbers that ends with the last record made, and  *)
(* the batch a span before it.  Between the two there is a gap only while  *)
(* the buffer is full, and then a failed insert drops the whole batch.     *)
(***************************************************************************)
EXTENDS UsageBuffer, VideoJob, Integers, SequenceTheorems, TLAPS

\* The numbers after a, in order.
Span(s, a) == s \in Seq(Nat) /\ \A i \in 1 .. Len(s) : s[i] = a + i

\* What a span contains.
LEMMA SpanContents ==
  ASSUME NEW s, NEW a \in Nat, Span(s, a)
  PROVE  Len(s) \in Nat /\ Contents(s) = (a + 1) .. (a + Len(s))
<1>1. Len(s) \in Nat
  BY LenProperties DEF Span
<1>2. ASSUME NEW r \in (a + 1) .. (a + Len(s)) PROVE r \in Contents(s)
  <2>1. r - a \in 1 .. Len(s) /\ s[r - a] = r
    BY <1>1, <1>2 DEF Span
  <2> QED BY <2>1 DEF Contents
<1>3. ASSUME NEW r \in Contents(s) PROVE r \in (a + 1) .. (a + Len(s))
  <2>1. PICK i \in 1 .. Len(s) : r = s[i]
    BY <1>3 DEF Contents
  <2> QED BY <1>1, <2>1 DEF Span
<1> QED BY <1>1, <1>2, <1>3

\* A span grows at its end.
LEMMA SpanAppend ==
  ASSUME NEW s, NEW a \in Nat, Span(s, a), NEW e \in Nat, e = a + Len(s) + 1
  PROVE  Span(Append(s, e), a) /\ Len(Append(s, e)) = Len(s) + 1
<1>1. s \in Seq(Nat) /\ Len(s) \in Nat
  BY LenProperties DEF Span
<1>2. /\ Append(s, e) \in Seq(Nat)
      /\ Len(Append(s, e)) = Len(s) + 1
      /\ \A i \in 1 .. Len(s) : Append(s, e)[i] = s[i]
      /\ Append(s, e)[Len(s) + 1] = e
  BY <1>1, AppendProperties
<1> QED BY <1>1, <1>2 DEF Span

\* A span loses its first number.
LEMMA SpanTail ==
  ASSUME NEW s, NEW a \in Nat, Span(s, a), s # <<>>
  PROVE  /\ Head(s) = a + 1
         /\ Span(Tail(s), a + 1)
         /\ Len(Tail(s)) = Len(s) - 1
         /\ Len(s) \in Nat \ {0}
<1>1. s \in Seq(Nat) /\ Len(s) \in Nat \ {0}
  BY LenProperties, EmptySeq DEF Span
<1>2. /\ Tail(s) \in Seq(Nat) /\ Len(Tail(s)) = Len(s) - 1
      /\ \A i \in 1 .. Len(Tail(s)) : Tail(s)[i] = s[i + 1]
  BY <1>1, HeadTailProperties
<1>3. Head(s) = s[1]
  BY <1>1
<1> QED BY <1>1, <1>2, <1>3 DEF Span

\* A span that loses its first number and grows at its end moves on by one.
LEMMA SpanShift ==
  ASSUME NEW s, NEW a \in Nat, Span(s, a), s # <<>>,
         NEW e \in Nat, e = a + Len(s) + 1
  PROVE  /\ Span(Append(Tail(s), e), a + 1)
         /\ Len(Append(Tail(s), e)) = Len(s)
<1> DEFINE t == Tail(s)
<1>1. Span(t, a + 1) /\ Len(t) = Len(s) - 1 /\ Len(s) \in Nat \ {0}
  BY SpanTail
<1> HIDE DEF t
<1>2. e = (a + 1) + Len(t) + 1 /\ a + 1 \in Nat
  BY <1>1
<1>3. Span(Append(t, e), a + 1) /\ Len(Append(t, e)) = Len(t) + 1
  BY <1>1, <1>2, SpanAppend
<1> QED BY <1>1, <1>3 DEF t

\* Two adjacent spans make one.
LEMMA SpanConcat ==
  ASSUME NEW s, NEW t, NEW a \in Nat, Span(s, a), Span(t, a + Len(s))
  PROVE  Span(s \o t, a) /\ Len(s \o t) = Len(s) + Len(t)
<1>1. /\ s \in Seq(Nat) /\ Len(s) \in Nat
      /\ t \in Seq(Nat) /\ Len(t) \in Nat
  BY LenProperties DEF Span
<1>2. /\ s \o t \in Seq(Nat) /\ Len(s \o t) = Len(s) + Len(t)
      /\ \A i \in 1 .. Len(s) + Len(t) : (s \o t)[i] =
                     IF i <= Len(s) THEN s[i] ELSE t[i - Len(s)]
  BY <1>1, ConcatProperties
<1>3. ASSUME NEW i \in 1 .. Len(s) + Len(t) PROVE (s \o t)[i] = a + i
  <2>1. CASE i <= Len(s)
    BY <1>1, <1>2, <2>1 DEF Span
  <2>2. CASE ~(i <= Len(s))
    <3>1. i - Len(s) \in 1 .. Len(t)
      BY <1>1, <2>2
    <3> QED BY <1>1, <1>2, <2>2, <3>1 DEF Span
  <2> QED BY <2>1, <2>2
<1> QED BY <1>1, <1>2, <1>3 DEF Span

\* A part of a span is a span.
LEMMA SpanSub ==
  ASSUME NEW s, NEW a \in Nat, Span(s, a),
         NEW m \in Nat \ {0}, NEW n \in Nat, m <= n + 1, n <= Len(s)
  PROVE  Span(SubSeq(s, m, n), a + m - 1) /\ Len(SubSeq(s, m, n)) = n + 1 - m
<1>1. s \in Seq(Nat) /\ Len(s) \in Nat
  BY LenProperties DEF Span
<1>2. \A i \in m .. n : s[i] \in Nat
  BY <1>1, ElementOfSeq
<1>3. /\ SubSeq(s, m, n) \in Seq(Nat)
      /\ Len(SubSeq(s, m, n)) = n + 1 - m
      /\ \A i \in 1 .. n - m + 1 : SubSeq(s, m, n)[i] = s[m + i - 1]
  BY <1>2, SubSeqProperties
<1> QED BY <1>1, <1>3 DEF Span

\* Cutting a concatenation where it was made gives the parts back.
LEMMA CutConcat ==
  ASSUME NEW s \in Seq(Nat), NEW t \in Seq(Nat)
  PROVE  /\ SubSeq(s \o t, 1, Len(s)) = s
         /\ SubSeq(s \o t, Len(s) + 1, Len(s \o t)) = t
<1>1. Len(s) \in Nat /\ Len(t) \in Nat
  BY LenProperties
<1> DEFINE c == s \o t
<1>2. /\ c \in Seq(Nat) /\ Len(c) = Len(s) + Len(t)
      /\ \A i \in 1 .. Len(s) + Len(t) : c[i] =
                     IF i <= Len(s) THEN s[i] ELSE t[i - Len(s)]
  BY ConcatProperties
<1> HIDE DEF c
<1>3. \A i \in 1 .. Len(c) : c[i] \in Nat
  BY <1>2, ElementOfSeq
<1>4. SubSeq(c, 1, Len(s)) = s
  <2>1. /\ SubSeq(c, 1, Len(s)) \in Seq(Nat)
        /\ Len(SubSeq(c, 1, Len(s))) = Len(s)
        /\ \A i \in 1 .. Len(s) : SubSeq(c, 1, Len(s))[i] = c[i]
    <3>1. \A i \in 1 .. Len(s) : c[i] \in Nat
      BY <1>1, <1>2, <1>3
    <3> QED BY <1>1, <3>1, SubSeqProperties
  <2>2. \A i \in 1 .. Len(s) : c[i] = s[i]
    BY <1>1, <1>2
  <2> QED BY <2>1, <2>2, SeqEqual
<1>5. SubSeq(c, Len(s) + 1, Len(c)) = t
  <2>1. /\ SubSeq(c, Len(s) + 1, Len(c)) \in Seq(Nat)
        /\ Len(SubSeq(c, Len(s) + 1, Len(c))) = Len(t)
        /\ \A i \in 1 .. Len(t) : SubSeq(c, Len(s) + 1, Len(c))[i] = c[Len(s) + i]
    <3> DEFINE m == Len(s) + 1
               n == Len(c)
    <3>1. m \in Int /\ n \in Int /\ n - m + 1 = Len(t)
          /\ (IF m <= n THEN n - m + 1 ELSE 0) = Len(t)
      BY <1>1, <1>2
    <3>2. \A i \in m .. n : c[i] \in Nat
      BY <1>1, <1>2, <1>3
    <3>3. \A i \in 1 .. Len(t) : m + i - 1 = Len(s) + i
      BY <1>1
    <3> HIDE DEF m, n
    <3>4. /\ SubSeq(c, m, n) \in Seq(Nat)
          /\ Len(SubSeq(c, m, n)) = Len(t)
          /\ \A i \in 1 .. Len(t) : SubSeq(c, m, n)[i] = c[m + i - 1]
      BY <3>1, <3>2, SubSeqProperties
    <3> QED BY <3>3, <3>4 DEF m, n
  <2>2. ASSUME NEW i \in 1 .. Len(t) PROVE c[Len(s) + i] = t[i]
    <3>1. /\ Len(s) + i \in 1 .. Len(s) + Len(t)
          /\ ~(Len(s) + i <= Len(s))
          /\ (Len(s) + i) - Len(s) = i
      BY <1>1
    <3> QED BY <1>2, <3>1
  <2> QED BY <2>1, <2>2, SeqEqual
<1> QED BY <1>4, <1>5 DEF c

(***************************************************************************)
(* The inductive invariant: b records have been dealt with before those of *)
(* the batch.                                                              *)
(***************************************************************************)
Placed(b) ==
    /\ Span(batch, b)
    /\ Span(buf, recorded - Len(buf))
    /\ Len(buf) <= Max /\ Len(batch) <= Max
    /\ b + Len(batch) + Len(buf) <= recorded
    /\ Len(buf) < Max => b + Len(batch) + Len(buf) = recorded
    /\ stored \cap dropped = {}
    /\ stored \cup dropped = 1 .. b \cup (b + Len(batch) + 1) .. (recorded - Len(buf))
    /\ \A r \in stored : r <= b

\* What was recorded before Stop and is not dealt with is still to be inserted.
Settled(b) ==
    /\ before <= recorded
    /\ loop = "finishing" => stopping /\ before <= b + Len(batch)
    /\ loop = "ended" => stopping /\ before <= b

BufferInv ==
    /\ TypeOK
    /\ \E b \in Nat : Placed(b) /\ Settled(b)

\* The buffer starts empty.
LEMMA InitBuffer == Init => BufferInv
<1> SUFFICES ASSUME Init PROVE BufferInv
  OBVIOUS
<1>1. TypeOK
  BY EmptySeq DEF Init, TypeOK
<1>2. Placed(0) /\ Settled(0)
  BY BufferAssumption, EmptySeq DEF Init, Placed, Settled, Span
<1> QED BY <1>1, <1>2 DEF BufferInv

\* A record keeps everything in place, and crowds out the oldest at most.
LEMMA RecordPlaces ==
  ASSUME TypeOK, NEW b \in Nat, Placed(b), Record
  PROVE  /\ TypeOK' /\ Placed(b)'
         /\ \E D \in SUBSET (Contents(buf) \cup Contents(batch)) :
               /\ \A r \in D : recorded' >= r + Max
               /\ Contents(buf)' = (Contents(buf) \cup {recorded'}) \ D
               /\ D \cap Contents(batch) = {}
               /\ dropped' = dropped \cup D
<1> DEFINE lo == recorded - Len(buf)
<1>1. /\ recorded \in Nat /\ recorded' = recorded + 1 /\ Max \in Nat \ {0}
      /\ UNCHANGED <<batch, loop, stopping, stored, before>>
      /\ Len(buf) \in Nat /\ Len(batch) \in Nat /\ lo \in Nat
  BY BufferAssumption, LenProperties DEF Record, TypeOK, Placed
<1>2. /\ Contents(buf) = (lo + 1) .. recorded
      /\ Contents(batch) = (b + 1) .. (b + Len(batch))
  BY <1>1, SpanContents DEF Placed
<1>3. CASE Len(buf) >= Max
  <2>1. buf # <<>> /\ buf' = Append(Tail(buf), recorded + 1)
        /\ dropped' = dropped \cup {Head(buf)}
    BY <1>1, <1>3, EmptySeq DEF Record
  <2>2. /\ Head(buf) = lo + 1 /\ Span(Tail(buf), lo + 1)
        /\ Len(Tail(buf)) = Len(buf) - 1
    BY <1>1, <2>1, SpanTail DEF Placed
  <2>3. Span(buf', lo + 1) /\ Len(buf') = Len(buf)
    <3>1. recorded + 1 \in Nat /\ recorded + 1 = lo + Len(buf) + 1
      BY <1>1
    <3>2. /\ Span(Append(Tail(buf), recorded + 1), lo + 1)
          /\ Len(Append(Tail(buf), recorded + 1)) = Len(buf)
      BY <1>1, <2>1, <3>1, SpanShift DEF Placed
    <3> QED BY <2>1, <3>2
  <2>4. Len(buf) = Max
    BY <1>1, <1>3 DEF Placed
  <2>5. Contents(buf') = (lo + 2) .. (recorded + 1)
    BY <1>1, <2>3, SpanContents
  <2>6. Placed(b)'
    <3>1. recorded' - Len(buf') = lo + 1
      BY <1>1, <2>3
    <3>2. stored' \cap dropped' = {}
      BY <1>1, <2>1, <2>2, <2>4 DEF Placed
    <3>3. stored' \cup dropped' = 1 .. b \cup (b + Len(batch) + 1) .. (lo + 1)
      BY <1>1, <2>1, <2>2, <2>4 DEF Placed
    <3> QED BY <1>1, <2>3, <2>4, <3>1, <3>2, <3>3 DEF Placed
  <2>7. TypeOK'
    <3>1. dropped' = dropped \cup {lo + 1} /\ lo + 1 \in Nat
      BY <1>1, <2>1, <2>2
    <3>2. dropped' \subseteq Nat
      BY <3>1 DEF TypeOK
    <3>3. buf' \in Seq(Nat)
      BY <2>3 DEF Span
    <3> HIDE DEF lo
    <3> QED BY <1>1, <3>2, <3>3 DEF TypeOK
  <2>8. /\ {lo + 1} \in SUBSET (Contents(buf) \cup Contents(batch))
        /\ \A r \in {lo + 1} : recorded' >= r + Max
        /\ Contents(buf)' = (Contents(buf) \cup {recorded'}) \ {lo + 1}
        /\ {lo + 1} \cap Contents(batch) = {}
        /\ dropped' = dropped \cup {lo + 1}
    <3>1. lo + 1 \in Contents(buf) /\ lo + 1 \notin Contents(batch)
      BY <1>1, <1>2, <2>4 DEF Placed
    <3>2. recorded' >= (lo + 1) + Max
      BY <1>1, <2>4
    <3>3. Contents(buf)' = (Contents(buf) \cup {recorded'}) \ {lo + 1}
      BY <1>1, <1>2, <2>4, <2>5
    <3> QED BY <2>1, <2>2, <3>1, <3>2, <3>3
  <2> QED BY <2>6, <2>7, <2>8
<1>4. CASE ~(Len(buf) >= Max)
  <2>1. buf' = Append(buf, recorded + 1) /\ dropped' = dropped
    BY <1>4 DEF Record
  <2>2. Span(buf', lo) /\ Len(buf') = Len(buf) + 1
    BY <1>1, <2>1, SpanAppend DEF Placed
  <2>3. Contents(buf') = (lo + 1) .. (recorded + 1)
    BY <1>1, <2>2, SpanContents
  <2>4. Placed(b)'
    BY <1>1, <1>4, <2>1, <2>2 DEF Placed
  <2>5. TypeOK'
    <3>1. buf' \in Seq(Nat)
      BY <2>2 DEF Span
    <3> QED BY <1>1, <2>1, <3>1 DEF TypeOK
  <2>6. /\ {} \in SUBSET (Contents(buf) \cup Contents(batch))
        /\ \A r \in {} : recorded' >= r + Max
        /\ Contents(buf)' = (Contents(buf) \cup {recorded'}) \ {}
        /\ {} \cap Contents(batch) = {}
        /\ dropped' = dropped \cup {}
    BY <1>1, <1>2, <2>1, <2>3
  <2> QED BY <2>4, <2>5, <2>6
<1> QED BY <1>3, <1>4

\* Taking the buffer makes it the batch: nothing moves.
LEMMA FlushPlaces ==
  ASSUME TypeOK, NEW b \in Nat, Placed(b), NEW next \in {"inserting", "finishing"},
         Flush(next)
  PROVE  /\ TypeOK'
         /\ \E e \in Nat : e + Len(buf) = recorded /\ Placed(e)'
         /\ Contents(buf)' = {} /\ Contents(batch)' = Contents(buf)
         /\ Contents(batch) = {}
<1>1. /\ loop = "waiting" /\ buf # <<>> /\ batch = <<>>
      /\ batch' = buf /\ buf' = <<>> /\ loop' = next
      /\ UNCHANGED <<recorded, stopping, stored, dropped, before>>
  BY DEF Flush, TypeOK
<1>2. /\ recorded \in Nat /\ Max \in Nat \ {0} /\ Len(buf) \in Nat
      /\ Len(batch) = 0 /\ Len(<<>>) = 0 /\ recorded - Len(buf) \in Nat
  BY <1>1, BufferAssumption, LenProperties, EmptySeq DEF TypeOK, Placed
<1>3. TypeOK'
  BY <1>1, EmptySeq DEF TypeOK
<1>4. PICK e \in Nat : e = recorded - Len(buf)
  BY <1>2
<1>5. Placed(e)'
  <2>1. Span(batch', e) /\ Span(buf', recorded)
    BY <1>1, <1>2, <1>4, EmptySeq DEF Placed, Span
  <2>2. Len(buf') = 0 /\ Len(batch') = Len(buf) /\ recorded' - Len(buf') = recorded
    BY <1>1, <1>2
  <2>3. stored' \cup dropped' = 1 .. e \cup (e + Len(batch') + 1) .. recorded
    BY <1>1, <1>2, <1>4 DEF Placed
  <2>4. \A r \in stored' : r <= e
    <3>1. \A r \in stored : r \in Nat /\ r <= b
      BY DEF Placed, TypeOK
    <3>2. b <= e
      BY <1>2, <1>4 DEF Placed
    <3> QED BY <1>1, <3>1, <3>2
  <2>5. /\ Len(batch') <= Max /\ Len(buf') <= Max
        /\ e + Len(batch') + Len(buf') = recorded'
        /\ stored' \cap dropped' = {}
    BY <1>1, <1>2, <1>4, <2>2 DEF Placed
  <2> QED BY <1>2, <1>4, <2>1, <2>2, <2>3, <2>4, <2>5 DEF Placed
<1>6. Contents(buf)' = {} /\ Contents(batch) = {}
  BY <1>1, <1>2 DEF Contents
<1>7. e + Len(buf) = recorded
  BY <1>2, <1>4
<1> QED BY <1>1, <1>3, <1>5, <1>6, <1>7

\* A finished insert moves the batch to the database, in order.
LEMMA InsertOKPlaces ==
  ASSUME TypeOK, NEW b \in Nat, Placed(b), InsertOK
  PROVE  /\ TypeOK'
         /\ \E e \in Nat : e = b + Len(batch) /\ Placed(e)'
         /\ \A r \in Contents(batch), q \in stored : q < r
         /\ Contents(batch)' = {}
         /\ Contents(buf) \cap Contents(batch) = {}
<1>1. /\ loop \in {"inserting", "finishing"}
      /\ stored' = stored \cup Contents(batch) /\ batch' = <<>>
      /\ loop' = IF loop = "inserting" THEN "waiting" ELSE "ended"
      /\ UNCHANGED <<recorded, buf, stopping, dropped, before>>
  BY DEF InsertOK, AfterInsert
<1>2. /\ recorded \in Nat /\ Max \in Nat \ {0} /\ Len(buf) \in Nat
      /\ Len(batch) \in Nat /\ Len(<<>>) = 0 /\ recorded - Len(buf) \in Nat
  BY BufferAssumption, LenProperties, EmptySeq DEF TypeOK, Placed
<1>3. /\ Contents(buf) = (recorded - Len(buf) + 1) .. recorded
      /\ Contents(batch) = (b + 1) .. (b + Len(batch))
  BY <1>2, SpanContents DEF Placed
<1>4. TypeOK'
  <2>1. stored' \subseteq Nat
    <3>1. Contents(batch) \subseteq Nat
      BY <1>2, <1>3
    <3>2. stored \subseteq Nat
      BY DEF TypeOK
    <3> QED BY <1>1, <3>1, <3>2
  <2> QED BY <1>1, <2>1, EmptySeq DEF TypeOK
<1>5. PICK e \in Nat : e = b + Len(batch)
  BY <1>2
<1>6. Placed(e)'
  <2>1. Span(batch', e) /\ Len(batch') = 0
    BY <1>1, <1>2, EmptySeq DEF Span
  <2>2. stored' \cap dropped' = {}
    BY <1>1, <1>2, <1>3 DEF Placed
  <2>3. stored' \cup dropped' = 1 .. e \cup (e + 1) .. (recorded - Len(buf))
    BY <1>1, <1>2, <1>3, <1>5 DEF Placed
  <2>4. \A r \in stored' : r <= e
    <3>1. \A r \in stored : r \in Nat /\ r <= b
      BY DEF Placed, TypeOK
    <3> QED BY <1>1, <1>2, <1>3, <1>5, <3>1
  <2>5. /\ e + Len(buf) <= recorded
        /\ Len(buf) < Max => e + Len(buf) = recorded
        /\ Len(buf) <= Max /\ Span(buf, recorded - Len(buf))
    BY <1>5 DEF Placed
  <2>6. e + Len(batch') = e
    BY <2>1
  <2> QED BY <1>1, <1>2, <2>1, <2>2, <2>3, <2>4, <2>5, <2>6 DEF Placed
<1>7. \A r \in Contents(batch), q \in stored : q < r
  <2>1. \A q \in stored : q \in Nat /\ q <= b
    BY DEF Placed, TypeOK
  <2> QED BY <1>2, <1>3, <2>1
<1>8. Contents(batch)' = {}
  BY <1>1, <1>2 DEF Contents
<1>9. Contents(buf) \cap Contents(batch) = {}
  BY <1>2, <1>3 DEF Placed
<1> QED BY <1>4, <1>5, <1>6, <1>7, <1>8, <1>9

\* What a requeue leaves: the newest Max of batch and buffer.
LEMMA Requeue ==
  ASSUME TypeOK, NEW b \in Nat, Placed(b), NEW all, all = batch \o buf,
         NEW excess, excess = IF Len(all) > Max THEN Len(all) - Max ELSE 0
  PROVE  /\ excess \in Nat /\ excess <= Len(batch)
         /\ Span(SubSeq(all, 1, excess), b)
         /\ Len(SubSeq(all, 1, excess)) = excess
         /\ LET kept == SubSeq(all, excess + 1, Len(all))
            IN  /\ Span(kept, recorded - Len(kept))
                /\ Len(kept) = Len(batch) + Len(buf) - excess
         /\ excess > 0 => b + excess + Max <= recorded
<1>1. /\ recorded \in Nat /\ Max \in Nat \ {0} /\ Len(buf) \in Nat
      /\ Len(batch) \in Nat /\ recorded - Len(buf) \in Nat
      /\ batch \in Seq(Nat) /\ buf \in Seq(Nat)
  BY BufferAssumption, LenProperties DEF TypeOK, Placed
<1>2. Len(all) = Len(batch) + Len(buf)
  BY <1>1, ConcatProperties
<1>3. excess \in Nat /\ excess <= Len(batch) /\ excess <= Len(all)
  BY <1>1, <1>2 DEF Placed
<1>4. CASE b + Len(batch) + Len(buf) = recorded
  <2>1. recorded - Len(buf) = b + Len(batch)
    BY <1>1, <1>4
  <2>2. Span(all, b)
    BY <2>1, SpanConcat DEF Placed
  <2> HIDE DEF Span
  <2>3. /\ Span(SubSeq(all, 1, excess), b + 1 - 1)
        /\ Len(SubSeq(all, 1, excess)) = excess + 1 - 1
    <3>1. 1 \in Nat \ {0} /\ 1 <= excess + 1
      BY <1>3
    <3> QED BY <1>3, <2>2, <3>1, SpanSub
  <2> DEFINE kept == SubSeq(all, excess + 1, Len(all))
  <2>4. /\ Span(kept, b + (excess + 1) - 1)
        /\ Len(kept) = Len(all) + 1 - (excess + 1)
    <3>1. /\ excess + 1 \in Nat \ {0} /\ excess + 1 <= Len(all) + 1
          /\ Len(all) \in Nat /\ Len(all) <= Len(all)
      BY <1>1, <1>2, <1>3
    <3>2. \A m \in Nat \ {0}, n \in Nat : m <= n + 1 /\ n <= Len(all) =>
             /\ Span(SubSeq(all, m, n), b + m - 1)
             /\ Len(SubSeq(all, m, n)) = n + 1 - m
      BY <2>2, SpanSub
    <3> QED BY <3>1, <3>2
  <2> HIDE DEF kept
  <2>5. /\ b + (excess + 1) - 1 = recorded - Len(kept)
        /\ Len(kept) = Len(batch) + Len(buf) - excess
        /\ b + 1 - 1 = b /\ excess + 1 - 1 = excess
    <3>1. PICK m \in Nat, n \in Nat : m = Len(batch) /\ n = Len(buf)
      BY <1>1
    <3>2. /\ Len(kept) = m + n + 1 - (excess + 1)
          /\ b + m + n = recorded /\ recorded \in Nat
      BY <1>1, <1>2, <1>4, <2>4, <3>1
    <3>3. PICK x \in Nat : x = excess
      BY <1>3
    <3>4. Len(kept) = m + n - x
      BY <3>2, <3>3
    <3>5. recorded - Len(kept) = b + x
      <4>1. \A r \in Nat : b + m + n = r => r - (m + n - x) = b + x
        OBVIOUS
      <4> QED BY <3>2, <3>4, <4>1
    <3>6. b + (x + 1) - 1 = b + x /\ x + 1 - 1 = x
      OBVIOUS
    <3> QED BY <3>1, <3>3, <3>4, <3>5, <3>6
  <2>6. excess > 0 => b + excess + Max <= recorded
    BY <1>1, <1>2, <1>3, <1>4
  <2> QED BY <1>3, <2>3, <2>4, <2>5, <2>6 DEF kept
<1>5. CASE b + Len(batch) + Len(buf) # recorded
  <2>1. Len(buf) = Max /\ excess = Len(batch)
    <3>1. Len(buf) = Max
      BY <1>1, <1>5 DEF Placed
    <3>2. CASE Len(batch) = 0
      BY <1>1, <1>2, <3>1, <3>2
    <3>3. CASE Len(batch) # 0
      BY <1>1, <1>2, <3>1, <3>3
    <3> QED BY <3>1, <3>2, <3>3
  <2>2. /\ SubSeq(all, 1, excess) = batch
        /\ SubSeq(all, excess + 1, Len(all)) = buf
    BY <1>1, <2>1, CutConcat
  <2>3. Len(batch) + Len(buf) - excess = Len(buf)
        /\ b + excess + Max <= recorded
    <3>1. PICK m \in Nat, n \in Nat : m = Len(batch) /\ n = Len(buf)
      BY <1>1
    <3>2. b + m + n <= recorded /\ n = Max /\ excess = m /\ recorded \in Nat
      BY <1>1, <2>1, <3>1 DEF Placed
    <3> QED BY <3>1, <3>2
  <2>4. Span(batch, b) /\ Span(buf, recorded - Len(buf))
    BY DEF Placed
  <2> QED BY <1>3, <2>1, <2>2, <2>3, <2>4
<1> QED BY <1>4, <1>5

\* A failed insert drops the oldest records of the batch, if any.
LEMMA InsertFailsPlaces ==
  ASSUME TypeOK, NEW b \in Nat, Placed(b), InsertFails
  PROVE  /\ TypeOK'
         /\ \E e \in Nat : Placed(e)'
         /\ \E D \in SUBSET (Contents(buf) \cup Contents(batch)) :
               /\ \A r \in D : recorded >= r + Max
               /\ Contents(buf)' = (Contents(buf) \cup Contents(batch)) \ D
               /\ Contents(batch)' = {}
               /\ dropped' = dropped \cup D
<1> DEFINE all == batch \o buf
           excess == IF Len(all) > Max THEN Len(all) - Max ELSE 0
           kept == SubSeq(all, excess + 1, Len(all))
           lost == SubSeq(all, 1, excess)
<1>1. /\ loop \in {"inserting", "finishing"}
      /\ buf' = kept /\ dropped' = dropped \cup Contents(lost)
      /\ batch' = <<>>
      /\ loop' = IF loop = "inserting" THEN "waiting" ELSE "gaveup"
      /\ UNCHANGED <<recorded, stopping, stored, before>>
  BY DEF InsertFails, AfterInsert
<1>2. /\ recorded \in Nat /\ Max \in Nat \ {0} /\ Len(buf) \in Nat
      /\ Len(batch) \in Nat /\ Len(<<>>) = 0 /\ recorded - Len(buf) \in Nat
  BY BufferAssumption, LenProperties, EmptySeq DEF TypeOK, Placed
<1>3. /\ excess \in Nat /\ excess <= Len(batch)
      /\ Span(lost, b) /\ Len(lost) = excess
      /\ Span(kept, recorded - Len(kept))
      /\ Len(kept) = Len(batch) + Len(buf) - excess
      /\ excess > 0 => b + excess + Max <= recorded
  BY Requeue
<1>4. Len(kept) <= Max
  BY <1>2, <1>3, ConcatProperties DEF TypeOK
<1>4a. excess = 0 \/ Len(kept) = Max
  BY <1>2, <1>3, ConcatProperties DEF TypeOK
<1> HIDE DEF all, excess, kept, lost
<1>5. /\ Contents(buf) = (recorded - Len(buf) + 1) .. recorded
      /\ Contents(batch) = (b + 1) .. (b + Len(batch))
      /\ Contents(lost) = (b + 1) .. (b + excess)
  <2>1. Span(buf, recorded - Len(buf)) /\ Span(batch, b)
    BY DEF Placed
  <2>2. Contents(buf) =
           (recorded - Len(buf) + 1) .. (recorded - Len(buf) + Len(buf))
    BY <1>2, <2>1, SpanContents
  <2>3. Contents(batch) = (b + 1) .. (b + Len(batch))
    BY <2>1, SpanContents
  <2>4. Contents(lost) = (b + 1) .. (b + Len(lost))
    BY <1>3, SpanContents
  <2> QED BY <1>2, <1>3, <2>2, <2>3, <2>4
<1>6. /\ Len(kept) \in Nat /\ recorded - Len(kept) \in Nat
      /\ Contents(kept) = (recorded - Len(kept) + 1) .. recorded
  <2>1. recorded - Len(kept) \in Nat
    BY <1>2, <1>3 DEF Placed
  <2>2. Len(kept) \in Nat /\ Contents(kept) =
           (recorded - Len(kept) + 1) .. (recorded - Len(kept) + Len(kept))
    BY <1>3, <2>1, SpanContents
  <2> QED BY <1>2, <2>1, <2>2
<1>7. TypeOK'
  <2>1. buf' \in Seq(Nat)
    BY <1>1, <1>3 DEF Span
  <2>2. dropped' \subseteq Nat
    BY <1>1, <1>2, <1>3, <1>5 DEF TypeOK
  <2> QED BY <1>1, <2>1, <2>2, EmptySeq DEF TypeOK
<1>8. PICK e \in Nat : e = b + excess
  BY <1>3
<1>8a. Placed(e)'
  <2>1. Span(batch', e) /\ Len(batch') = 0
    BY <1>1, <1>2, EmptySeq DEF Span
  <2>2. stored' \cap dropped' = {}
    BY <1>1, <1>2, <1>3, <1>5, <1>8 DEF Placed
  <2>3. e + Len(kept) <= recorded
        /\ (Len(kept) < Max => e + Len(kept) = recorded)
    BY <1>2, <1>3, <1>4a, <1>6, <1>8 DEF Placed
  <2>4. stored' \cup dropped' = 1 .. e \cup (e + 1) .. (recorded - Len(kept))
    <3>1. stored' \cup dropped' = stored \cup dropped \cup (b + 1) .. (b + excess)
      BY <1>1, <1>5
    <3>2. stored \cup dropped
             = 1 .. b \cup (b + Len(batch) + 1) .. (recorded - Len(buf))
      BY DEF Placed
    <3>3. CASE b + Len(batch) + Len(buf) = recorded
      <4>1. recorded - Len(buf) = b + Len(batch) /\ recorded - Len(kept) = e
        BY <1>2, <1>3, <1>8, <3>3
      <4> QED BY <1>2, <1>3, <1>8, <3>1, <3>2, <4>1
    <3>4. CASE b + Len(batch) + Len(buf) # recorded
      <4>1. Len(buf) = Max
        BY <1>2, <3>4 DEF Placed
      <4>2. excess = Len(batch) /\ Len(kept) = Len(buf)
        BY <1>2, <1>3, <1>4, <1>4a, <4>1
      <4> QED BY <1>2, <1>3, <1>8, <3>1, <3>2, <4>1, <4>2
    <3> QED BY <3>3, <3>4
  <2>5. \A r \in stored' : r <= e
    <3>1. \A r \in stored : r \in Nat /\ r <= b
      BY DEF Placed, TypeOK
    <3> QED BY <1>1, <1>2, <1>3, <1>8, <3>1
  <2>6. e + Len(batch') = e
    BY <2>1
  <2> QED BY <1>1, <1>2, <1>3, <1>4, <1>6, <2>1, <2>2, <2>3, <2>4, <2>5, <2>6
          DEF Placed
<1>9. /\ Contents(lost) \in SUBSET (Contents(buf) \cup Contents(batch))
      /\ \A r \in Contents(lost) : recorded >= r + Max
      /\ Contents(buf)' = (Contents(buf) \cup Contents(batch)) \ Contents(lost)
      /\ Contents(batch)' = {}
  <2>1. Contents(batch)' = {}
    BY <1>1, <1>2 DEF Contents
  <2>2. \A r \in Contents(lost) : recorded >= r + Max
    BY <1>2, <1>3, <1>5
  <2>3. Contents(kept) = (Contents(buf) \cup Contents(batch)) \ Contents(lost)
    <3>1. CASE b + Len(batch) + Len(buf) = recorded
      <4>1. recorded - Len(buf) = b + Len(batch)
            /\ recorded - Len(kept) = b + excess
        BY <1>2, <1>3, <3>1
      <4> QED BY <1>2, <1>3, <1>5, <1>6, <4>1
    <3>2. CASE b + Len(batch) + Len(buf) # recorded
      <4>1. Len(buf) = Max /\ b + Len(batch) + Len(buf) <= recorded
        BY <1>2, <3>2 DEF Placed
      <4>2. excess = Len(batch) /\ Len(kept) = Len(buf)
        BY <1>2, <1>3, <1>4, <1>4a, <4>1
      <4> QED BY <1>2, <1>3, <1>5, <1>6, <4>1, <4>2
    <3> QED BY <3>1, <3>2
  <2> QED BY <1>1, <1>2, <1>3, <1>5, <2>1, <2>2, <2>3
<1> QED BY <1>1, <1>7, <1>8a, <1>9

\* No step breaks the invariant.
LEMMA BufferStep == BufferInv /\ [Next]_vars => BufferInv'
<1> SUFFICES ASSUME BufferInv, [Next]_vars PROVE BufferInv'
  OBVIOUS
<1>1. TypeOK /\ recorded \in Nat /\ before \in Nat
      /\ Len(buf) \in Nat /\ Len(batch) \in Nat /\ Max \in Nat \ {0}
  BY BufferAssumption, LenProperties DEF BufferInv, TypeOK
<1>2. PICK b \in Nat : Placed(b) /\ Settled(b)
  BY DEF BufferInv
<1>3. CASE Record
  <2>1. TypeOK' /\ Placed(b)'
    BY <1>1, <1>2, <1>3, RecordPlaces
  <2>2. Settled(b) => Settled(b)'
    BY <1>1, <1>3 DEF Settled, Record
  <2> QED BY <1>2, <2>1, <2>2 DEF BufferInv
<1>4. CASE Stop
  <2>1. TypeOK'
    BY <1>1, <1>4 DEF Stop, TypeOK
  <2>2. Placed(b)'
    BY <1>2, <1>4 DEF Stop, Placed
  <2>3. Settled(b) => Settled(b)'
    BY <1>1, <1>4 DEF Settled, Stop
  <2> QED BY <1>2, <2>1, <2>2, <2>3 DEF BufferInv
<1>5. ASSUME NEW next \in {"inserting", "finishing"}, Flush(next),
             next = "finishing" => stopping
      PROVE  BufferInv'
  <2>1. TypeOK' /\ \E e \in Nat : e + Len(buf) = recorded /\ Placed(e)'
    BY <1>1, <1>2, <1>5, FlushPlaces
  <2>2. PICK e \in Nat : e + Len(buf) = recorded /\ Placed(e)'
    BY <2>1
  <2>3. Settled(b) => Settled(e)'
    BY <1>1, <1>5, <2>2 DEF Settled, Flush
  <2> QED BY <1>2, <1>5, <2>1, <2>2, <2>3 DEF BufferInv
<1>6. CASE Tick
  BY <1>5, <1>6 DEF Tick
<1>7. CASE FinalFlush
  <2>1. CASE Flush("finishing")
    BY <1>5, <1>7, <2>1 DEF FinalFlush
  <2>2. CASE loop = "waiting" /\ buf = <<>> /\ loop' = "ended"
             /\ UNCHANGED <<recorded, buf, batch, stopping, stored, dropped, before>>
    <3>1. TypeOK' /\ batch = <<>>
      BY <1>1, <2>2 DEF TypeOK
    <3>2. Placed(b)'
      BY <1>2, <2>2 DEF Placed
    <3>3. b = recorded
      <4>1. Len(buf) = 0 /\ Len(batch) = 0
        BY <2>2, <3>1
      <4> QED BY <1>1, <1>2, <4>1 DEF Placed
    <3>4. Settled(b) => Settled(b)'
      BY <1>7, <2>2, <3>3 DEF Settled, FinalFlush
    <3> QED BY <1>2, <3>1, <3>2, <3>4 DEF BufferInv
  <2> QED BY <1>7, <2>1, <2>2 DEF FinalFlush
<1>8. CASE InsertOK
  <2>1. TypeOK' /\ \E e \in Nat : e = b + Len(batch) /\ Placed(e)'
    BY <1>1, <1>2, <1>8, InsertOKPlaces
  <2>2. PICK e \in Nat : e = b + Len(batch) /\ Placed(e)'
    BY <2>1
  <2>3. Settled(b) => Settled(e)'
    BY <1>1, <1>8, <2>2 DEF Settled, InsertOK, AfterInsert
  <2> QED BY <1>2, <2>1, <2>2, <2>3 DEF BufferInv
<1>9. CASE InsertFails
  <2>1. TypeOK' /\ \E e \in Nat : Placed(e)'
    BY <1>1, <1>2, <1>9, InsertFailsPlaces
  <2>2. /\ loop' \in {"waiting", "gaveup"}
        /\ before' = before /\ recorded' = recorded
    BY <1>9 DEF InsertFails, AfterInsert
  <2>3. \A e \in Nat : Settled(e)'
    BY <1>2, <2>2 DEF Settled
  <2> QED BY <2>1, <2>3 DEF BufferInv
<1>10. CASE UNCHANGED vars
  <2>1. TypeOK'
    BY <1>1, <1>10 DEF vars, TypeOK
  <2>2. Placed(b)' /\ (Settled(b) => Settled(b)')
    BY <1>2, <1>10 DEF vars, Placed, Settled
  <2> QED BY <1>2, <2>1, <2>2 DEF BufferInv
<1> QED
  BY <1>3, <1>4, <1>6, <1>7, <1>8, <1>9, <1>10 DEF Next

\* The invariant holds in every reachable state.
LEMMA BufferInvariant == Spec => []BufferInv
  BY InitBuffer, BufferStep, PTL DEF Spec

\* The buffer keeps its types; a batch is under way exactly while the loop inserts.
THEOREM TypeCorrect == Spec => []TypeOK
<1>1. BufferInv => TypeOK
  BY DEF BufferInv
<1> QED BY <1>1, BufferInvariant, PTL

\* The buffer never holds more than Max records, a requeue included.
THEOREM BoundHolds == Spec => []BufferBounded
<1>1. BufferInv => BufferBounded
  BY DEF BufferInv, Placed, BufferBounded
<1> QED BY <1>1, BufferInvariant, PTL

\* Every record made is in exactly one of buffer, batch, database, dropped.
THEOREM NothingTwiceOrLost == Spec => []InOnePlace
<1>1. BufferInv => InOnePlace
  <2> SUFFICES ASSUME BufferInv PROVE InOnePlace
    OBVIOUS
  <2>1. PICK b \in Nat : Placed(b)
    BY DEF BufferInv
  <2>2. recorded \in Nat /\ Len(buf) \in Nat /\ Len(batch) \in Nat
    BY LenProperties DEF BufferInv, TypeOK
  <2>3. recorded - Len(buf) \in Nat /\ b + Len(batch) <= recorded - Len(buf)
    BY <2>1, <2>2 DEF Placed
  <2>4. /\ Contents(buf) = (recorded - Len(buf) + 1) .. recorded
        /\ Contents(batch) = (b + 1) .. (b + Len(batch))
    <3>1. Span(buf, recorded - Len(buf)) /\ Span(batch, b)
      BY <2>1 DEF Placed
    <3>2. Contents(buf) =
             (recorded - Len(buf) + 1) .. (recorded - Len(buf) + Len(buf))
      BY <2>3, <3>1, SpanContents
    <3>3. Contents(batch) = (b + 1) .. (b + Len(batch))
      BY <3>1, SpanContents
    <3> QED BY <2>2, <3>2, <3>3
  <2>5. /\ stored \cap dropped = {}
        /\ stored \cup dropped
             = 1 .. b \cup (b + Len(batch) + 1) .. (recorded - Len(buf))
    BY <2>1 DEF Placed
  <2> QED BY <2>2, <2>3, <2>4, <2>5 DEF InOnePlace
<1> QED BY <1>1, BufferInvariant, PTL

\* Unless the last insert fails, Stop loses no record made before it was called.
THEOREM StopLosesNothing == Spec => []StopFlushes
<1>1. BufferInv => StopFlushes
  <2> SUFFICES ASSUME BufferInv, loop = "ended"
               PROVE  1 .. before \subseteq stored \cup dropped
    BY DEF StopFlushes
  <2>1. PICK b \in Nat : Placed(b) /\ Settled(b)
    BY DEF BufferInv
  <2>2. before \in Nat /\ before <= b
    BY <2>1 DEF Settled, BufferInv, TypeOK
  <2> QED BY <2>1, <2>2 DEF Placed
<1> QED BY <1>1, BufferInvariant, PTL

\* Every step of the buffer is a step of the ledger or leaves it as it is.
LEMMA LedgerStep ==
  BufferInv /\ [Next]_vars => [Ledger!Next]_(Ledger!ledger)
<1> SUFFICES ASSUME BufferInv, [Next]_vars
             PROVE  Ledger!Next \/ UNCHANGED Ledger!ledger
  OBVIOUS
<1> DEFINE pending == Contents(buf) \cup Contents(batch)
<1>1. PICK b \in Nat : TypeOK /\ Placed(b)
  BY DEF BufferInv
<1>2. CASE Record
  <2>1. /\ recorded' = recorded + 1 /\ recorded \in Nat
        /\ stored' = stored /\ Contents(batch)' = Contents(batch)
    BY <1>1, <1>2 DEF Record, TypeOK, Contents
  <2>2. PICK D \in SUBSET pending :
               /\ \A r \in D : recorded' >= r + Max
               /\ Contents(buf)' = (Contents(buf) \cup {recorded'}) \ D
               /\ D \cap Contents(batch) = {}
               /\ dropped' = dropped \cup D
    BY <1>1, <1>2, RecordPlaces
  <2>3. pending' = (pending \cup {recorded'}) \ D
    BY <2>1, <2>2
  <2>4. Ledger!Accept(D)
    BY <2>1, <2>2, <2>3 DEF Ledger!Accept
  <2> QED BY <2>2, <2>4 DEF Ledger!Next
<1>3. CASE Stop
  BY <1>3 DEF Stop, Contents, Ledger!ledger
<1>4. ASSUME NEW next \in {"inserting", "finishing"}, Flush(next)
      PROVE  UNCHANGED Ledger!ledger
  <2>1. /\ Contents(buf)' = {} /\ Contents(batch)' = Contents(buf)
        /\ Contents(batch) = {}
    BY <1>1, <1>4, FlushPlaces
  <2> QED BY <1>4, <2>1 DEF Flush, Ledger!ledger
<1>5. CASE Tick
  BY <1>4, <1>5 DEF Tick
<1>6. CASE FinalFlush
  <2>1. CASE Flush("finishing")
    BY <1>4, <2>1
  <2>2. CASE UNCHANGED <<recorded, buf, batch, stopping, stored, dropped, before>>
    BY <2>2 DEF Contents, Ledger!ledger
  <2> QED BY <1>6, <2>1, <2>2 DEF FinalFlush
<1>7. CASE InsertOK
  <2>1. /\ \A r \in Contents(batch), q \in stored : q < r
        /\ Contents(batch)' = {}
        /\ Contents(buf) \cap Contents(batch) = {}
    BY <1>1, <1>7, InsertOKPlaces
  <2>2. /\ stored' = stored \cup Contents(batch)
        /\ UNCHANGED <<recorded, dropped>>
        /\ Contents(buf)' = Contents(buf)
    BY <1>7 DEF InsertOK, Contents
  <2>3. pending' = pending \ Contents(batch)
    BY <2>1, <2>2
  <2>4. Ledger!Store(Contents(batch))
    BY <2>1, <2>2, <2>3 DEF Ledger!Store
  <2> QED BY <2>4 DEF Ledger!Next
<1>8. CASE InsertFails
  <2>1. PICK D \in SUBSET pending :
               /\ \A r \in D : recorded >= r + Max
               /\ Contents(buf)' = (Contents(buf) \cup Contents(batch)) \ D
               /\ Contents(batch)' = {}
               /\ dropped' = dropped \cup D
    BY <1>1, <1>8, InsertFailsPlaces
  <2>2. UNCHANGED <<recorded, stored>>
    BY <1>8 DEF InsertFails
  <2>3. pending' = pending \ D
    BY <2>1
  <2>4. Ledger!Drop(D)
    BY <2>1, <2>2, <2>3 DEF Ledger!Drop
  <2> QED BY <2>1, <2>4 DEF Ledger!Next
<1>9. CASE UNCHANGED vars
  BY <1>9 DEF vars, Contents, Ledger!ledger
<1> QED
  BY <1>2, <1>3, <1>5, <1>6, <1>7, <1>8, <1>9 DEF Next

\* The buffer implements the ledger: no record is stored twice or out of
\* order, and one is dropped only when Max newer ones have been made.
THEOREM BufferKeepsLedger == Spec => KeepsLedger
<1>1. Init => Ledger!Init
  <2> SUFFICES ASSUME Init PROVE Ledger!Init
    OBVIOUS
  <2>1. Len(<<>>) = 0
    BY EmptySeq
  <2>2. Contents(<<>>) = {}
    BY <2>1 DEF Contents
  <2> QED BY <2>2 DEF Init, Ledger!Init
<1> QED
  BY <1>1, LedgerStep, BufferInvariant, PTL DEF Spec, KeepsLedger, Ledger!Spec
-----------------------------------------------------------------------------
(* Video jobs.                                                             *)

(***************************************************************************)
(* Once a cancel request is past cancelJob, the job's runner can no longer *)
(* save: its context has ended or it has left.  The same holds of a job in *)
(* a terminal state, since the save of a result is the last of a runner.   *)
(***************************************************************************)
Silenced(j) == j \in cancelled \/ runner[j].pc = "left"

CancelInv ==
    /\ \A j \in Jobs : row[j] = "none" <=> runner[j].pc = "none"
    /\ \A j \in Jobs : runner[j].pc \in {"none", "left"} \/ Silenced(j)
                          \/ j \in cancels
    /\ \A k \in Clients : client[k].pc # "idle" =>
          row[client[k].job] # "none"
    /\ \A k \in Clients : client[k].pc = "ended" => Silenced(client[k].job)
    /\ \A j \in Jobs : row[j] \in Terminal => Silenced(j)
    /\ \A j \in acked : row[j] = "cancelled"
    /\ \A j \in Jobs : row[j] \in Terminal /\ runner[j].pc # "left" =>
          row[j] = "cancelled"

\* A runner only backs off when it has an attempt left.
TypeInv == JobsTypeOK /\ \A j \in Jobs : runner[j].pc = "backoff"
                                       => runner[j].attempt < Attempts

\* The initial state has the types and CancelInv.
LEMMA InitCancel == JobsInit => TypeInv /\ CancelInv
  BY DEF JobsInit, JobsTypeOK, CancelInv, NoRunner, Runner,
         Status, Terminal, Outcome, Attempts, Silenced, TypeInv

\* Moving a runner on, not into the backoff, keeps the types.
LEMMA GotoTypes ==
  ASSUME TypeInv, NEW j \in Jobs, NEW pc \in {"loaded", "starting", "generating",
                                             "saving", "left"}, Goto(j, pc)
  PROVE  /\ runner' \in [Jobs -> Runner] /\ cancels' \subseteq Jobs
         /\ \A i \in Jobs : runner'[i].pc = "backoff" =>
               runner'[i].attempt < Attempts
<1> USE DEF TypeInv, JobsTypeOK, Runner, Goto
<1>1. runner' = [runner EXCEPT ![j].pc = pc]
  OBVIOUS
<1>2. runner' \in [Jobs -> Runner]
  BY <1>1
<1>3. cancels' \subseteq Jobs
  OBVIOUS
<1>4. ASSUME NEW i \in Jobs, runner'[i].pc = "backoff"
      PROVE  runner'[i].attempt < Attempts
  <2>1. i # j /\ runner'[i] = runner[i]
    BY <1>1, <1>4
  <2> QED BY <1>4, <2>1
<1> QED BY <1>2, <1>3, <1>4

\* No step leaves the types: in particular the attempts are bounded.
LEMMA VideoTypeStep == TypeInv /\ [JobsNext]_jobVars => TypeInv'
<1> SUFFICES ASSUME TypeInv, [JobsNext]_jobVars PROVE TypeInv'
  OBVIOUS
<1> USE DEF TypeInv, JobsTypeOK, Runner, Status,
            Terminal, Outcome, Attempts
<1>1. ASSUME NEW j \in Jobs, Create(j) PROVE TypeInv'
  BY <1>1 DEF Create
<1>2. ASSUME NEW j \in Jobs, Load(j) PROVE TypeInv'
  BY <1>2 DEF Load, Goto
<1>3. ASSUME NEW j \in Jobs, CheckEarlyCancel(j) PROVE TypeInv'
  <2>1. PICK pc \in {"starting", "left"} : Goto(j, pc)
    BY <1>3 DEF CheckEarlyCancel
  <2>2. /\ runner' \in [Jobs -> Runner] /\ cancels' \subseteq Jobs
        /\ \A i \in Jobs : runner'[i].pc = "backoff" =>
              runner'[i].attempt < Attempts
    BY <2>1, GotoTypes
  <2> QED BY <1>3, <2>2 DEF CheckEarlyCancel
<1>4. ASSUME NEW j \in Jobs, StartProcessing(j) PROVE TypeInv'
  <2>1. Goto(j, "generating")
    BY <1>4 DEF StartProcessing
  <2>2. /\ runner' \in [Jobs -> Runner] /\ cancels' \subseteq Jobs
        /\ \A i \in Jobs : runner'[i].pc = "backoff" =>
              runner'[i].attempt < Attempts
    BY <2>1, GotoTypes
  <2> QED BY <1>4, <2>2 DEF StartProcessing, RunnerSaves
<1>5. ASSUME NEW j \in Jobs, NEW o \in Outcome, Generate(j, o)
      PROVE  TypeInv'
  BY <1>5 DEF Generate
<1>6. ASSUME NEW j \in Jobs, Retry(j) PROVE TypeInv'
  BY <1>6 DEF Retry
<1>7. ASSUME NEW j \in Jobs, CheckLateCancel(j) PROVE TypeInv'
  <2>1. PICK pc \in {"saving", "left"} : Goto(j, pc)
    BY <1>7 DEF CheckLateCancel
  <2>2. /\ runner' \in [Jobs -> Runner] /\ cancels' \subseteq Jobs
        /\ \A i \in Jobs : runner'[i].pc = "backoff" =>
              runner'[i].attempt < Attempts
    BY <2>1, GotoTypes
  <2> QED BY <1>7, <2>2 DEF CheckLateCancel
<1>8. ASSUME NEW j \in Jobs, SaveResult(j) PROVE TypeInv'
  <2>1. /\ runner' \in [Jobs -> Runner] /\ cancels' \subseteq Jobs
        /\ \A i \in Jobs : runner'[i].pc = "backoff" =>
              runner'[i].attempt < Attempts
    BY <1>8, GotoTypes DEF SaveResult
  <2>2. PICK st \in Status : RunnerSaves(j, st)
    <3>1. (IF runner[j].outcome = "busy" THEN "failed"
           ELSE runner[j].outcome) \in Status
      OBVIOUS
    <3> QED BY <1>8, <3>1 DEF SaveResult
  <2>3. row' \in [Jobs -> Status \cup {"none"}] /\ hurt' \subseteq Jobs
    BY <2>2 DEF RunnerSaves
  <2> QED BY <1>8, <2>1, <2>3 DEF SaveResult
<1>9. ASSUME NEW k \in Clients, NEW j \in Jobs, ReadForCancel(k, j)
      PROVE  TypeInv'
  BY <1>9 DEF ReadForCancel
<1>10. ASSUME NEW k \in Clients, CancelJob(k) PROVE TypeInv'
  BY <1>10 DEF CancelJob
<1>11. ASSUME NEW k \in Clients, SaveCancelled(k) PROVE TypeInv'
  BY <1>11 DEF SaveCancelled
<1>12. ASSUME NEW k \in Clients, CancelSaveFails(k) PROVE TypeInv'
  BY <1>12 DEF CancelSaveFails
<1>13. CASE Crash
  <2>1. \A j \in Jobs : runner'[j] \in Runner /\ runner'[j].pc # "backoff"
    BY <1>13 DEF Crash, NoRunner
  <2>2. runner' \in [Jobs -> Runner]
    BY <1>13, <2>1 DEF Crash
  <2>3. client' \in [Clients -> [pc : {"idle", "read", "ended"}, job : Jobs]]
    BY <1>13 DEF Crash
  <2> QED BY <1>13, <2>1, <2>2, <2>3 DEF Crash
<1>14. CASE UNCHANGED jobVars
  BY <1>14 DEF jobVars
<1> HIDE DEF TypeInv, JobsTypeOK, Runner, Status,
            Terminal, Outcome, Attempts
<1> QED
  BY <1>1, <1>2, <1>3, <1>4, <1>5, <1>6, <1>7, <1>8, <1>9, <1>10, <1>11,
     <1>12, <1>13, <1>14 DEF JobsNext, RunnerStep, CancelStep

\* No step breaks CancelInv: what silences a runner is never undone, and only
\* a runner that leaves with it writes a terminal state other than cancelled.
LEMMA CancelStepInv == TypeInv /\ CancelInv /\ [JobsNext]_jobVars => CancelInv'
<1> SUFFICES ASSUME TypeInv, CancelInv, [JobsNext]_jobVars PROVE CancelInv'
  OBVIOUS
<1> USE DEF CancelInv, Silenced, TypeInv, JobsTypeOK, Runner, Status,
            Terminal, Outcome
<1>1. ASSUME NEW j \in Jobs, Create(j) PROVE CancelInv'
  BY <1>1 DEF Create
<1>2. ASSUME NEW j \in Jobs, Load(j) PROVE CancelInv'
  <2>1. CASE Goto(j, "loaded")
    BY <1>2, <2>1 DEF Load, Goto
  <2>2. CASE Goto(j, "left")
    BY <1>2, <2>2 DEF Load, Goto
  <2> QED BY <1>2, <2>1, <2>2 DEF Load
<1>3. ASSUME NEW j \in Jobs, CheckEarlyCancel(j) PROVE CancelInv'
  BY <1>3 DEF CheckEarlyCancel, Goto
<1>4. ASSUME NEW j \in Jobs, StartProcessing(j) PROVE CancelInv'
  BY <1>4 DEF StartProcessing, Goto, RunnerSaves
<1>5. ASSUME NEW j \in Jobs, NEW o \in Outcome, Generate(j, o)
      PROVE  CancelInv'
  BY <1>5 DEF Generate
<1>6. ASSUME NEW j \in Jobs, Retry(j) PROVE CancelInv'
  BY <1>6 DEF Retry
<1>7. ASSUME NEW j \in Jobs, CheckLateCancel(j) PROVE CancelInv'
  BY <1>7 DEF CheckLateCancel, Goto
<1>8. ASSUME NEW j \in Jobs, SaveResult(j) PROVE CancelInv'
  BY <1>8 DEF SaveResult, Goto, RunnerSaves
<1>9. ASSUME NEW k \in Clients, NEW j \in Jobs, ReadForCancel(k, j)
      PROVE  CancelInv'
  BY <1>9 DEF ReadForCancel
<1>10. ASSUME NEW k \in Clients, CancelJob(k) PROVE CancelInv'
  BY <1>10 DEF CancelJob
<1>11. ASSUME NEW k \in Clients, SaveCancelled(k) PROVE CancelInv'
  BY <1>11 DEF SaveCancelled
<1>12. ASSUME NEW k \in Clients, CancelSaveFails(k) PROVE CancelInv'
  BY <1>12 DEF CancelSaveFails
<1>13. CASE Crash
  BY <1>13 DEF Crash, NoRunner
<1>14. CASE UNCHANGED jobVars
  BY <1>14 DEF jobVars
<1> HIDE DEF CancelInv, Silenced, TypeInv, JobsTypeOK, Runner, Status,
            Terminal, Outcome
<1> QED
  BY <1>1, <1>2, <1>3, <1>4, <1>5, <1>6, <1>7, <1>8, <1>9, <1>10, <1>11,
     <1>12, <1>13, <1>14 DEF JobsNext, RunnerStep, CancelStep

\* What a step does to the row of a job that is in a terminal state.
LEMMA TerminalRow ==
  TypeInv /\ CancelInv /\ [JobsNext]_jobVars =>
    \A j \in Jobs : row[j] \in Terminal /\ row'[j] # row[j] =>
        row'[j] = "cancelled" /\ runner[j].pc = "left"
<1> SUFFICES ASSUME TypeInv, CancelInv, [JobsNext]_jobVars
             PROVE  \A j \in Jobs : row[j] \in Terminal /\ row'[j] # row[j] =>
                       row'[j] = "cancelled" /\ runner[j].pc = "left"
  OBVIOUS
<1> DEFINE Goal == \A j \in Jobs : row[j] \in Terminal /\ row'[j] # row[j] =>
                       row'[j] = "cancelled" /\ runner[j].pc = "left"
<1> USE DEF CancelInv, Silenced, TypeInv, JobsTypeOK, Runner, Status,
            Terminal, Outcome
<1>1. ASSUME NEW j \in Jobs, Create(j) PROVE Goal
  BY <1>1 DEF Create
<1>2. ASSUME NEW j \in Jobs, Load(j) PROVE Goal
  BY <1>2 DEF Load, Goto
<1>3. ASSUME NEW j \in Jobs, CheckEarlyCancel(j) PROVE Goal
  BY <1>3 DEF CheckEarlyCancel, Goto
<1>4. ASSUME NEW j \in Jobs, StartProcessing(j) PROVE Goal
  BY <1>4 DEF StartProcessing, Goto, RunnerSaves
<1>5. ASSUME NEW j \in Jobs, NEW o \in Outcome, Generate(j, o)
      PROVE  Goal
  BY <1>5 DEF Generate
<1>6. ASSUME NEW j \in Jobs, Retry(j) PROVE Goal
  BY <1>6 DEF Retry
<1>7. ASSUME NEW j \in Jobs, CheckLateCancel(j) PROVE Goal
  BY <1>7 DEF CheckLateCancel, Goto
<1>8. ASSUME NEW j \in Jobs, SaveResult(j) PROVE Goal
  BY <1>8 DEF SaveResult, Goto, RunnerSaves
<1>9. ASSUME NEW k \in Clients, NEW j \in Jobs, ReadForCancel(k, j)
      PROVE  Goal
  BY <1>9 DEF ReadForCancel
<1>10. ASSUME NEW k \in Clients, CancelJob(k) PROVE Goal
  BY <1>10 DEF CancelJob
<1>11. ASSUME NEW k \in Clients, SaveCancelled(k) PROVE Goal
  BY <1>11 DEF SaveCancelled
<1>12. ASSUME NEW k \in Clients, CancelSaveFails(k) PROVE Goal
  BY <1>12 DEF CancelSaveFails
<1>13. CASE Crash
  BY <1>13 DEF Crash, NoRunner
<1>14. CASE UNCHANGED jobVars
  BY <1>14 DEF jobVars
<1> HIDE DEF CancelInv, Silenced, TypeInv, JobsTypeOK, Runner, Status,
            Terminal, Outcome
<1> QED
  BY <1>1, <1>2, <1>3, <1>4, <1>5, <1>6, <1>7, <1>8, <1>9, <1>10, <1>11,
     <1>12, <1>13, <1>14 DEF JobsNext, RunnerStep, CancelStep

\* The variables keep their types, and a runner never makes a third attempt.
THEOREM VideoTypeCorrect == JobsSpec => []JobsTypeOK
<1>1. TypeInv => JobsTypeOK
  BY DEF TypeInv
<1> QED
  BY <1>1, InitCancel, VideoTypeStep, PTL DEF JobsSpec

\* TypeInv and CancelInv hold in every reachable state.
LEMMA CancelInvariant == JobsSpec => [](TypeInv /\ CancelInv)
  BY InitCancel, VideoTypeStep, CancelStepInv, PTL DEF JobsSpec

\* A cancel that was answered 200 sticks, for any number of requests and
\* whatever fails.
THEOREM CancelsStick == JobsSpec => []CancelSticks
<1>1. CancelInv => CancelSticks
  BY DEF CancelInv, CancelSticks
<1> QED
  BY <1>1, CancelInvariant, PTL

\* A terminal state is only ever replaced by a late cancel.
THEOREM LateCancelsOnly == JobsSpec => OnlyLateCancelsRewrite
<1>1. TypeInv /\ CancelInv /\ [JobsNext]_jobVars =>
        [\A j \in Jobs : row[j] \in Terminal /\ row'[j] # row[j] =>
            row'[j] = "cancelled" /\ runner[j].pc = "left"]_jobVars
  BY TerminalRow
<1> QED
  BY <1>1, CancelInvariant, PTL DEF JobsSpec, OnlyLateCancelsRewrite
=============================================================================
