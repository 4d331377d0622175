--------------------------- MODULE PaneStreamProofs ---------------------------
(***************************************************************************)
(* Proofs about PaneStream, for any number of connections and any sizes of *)
(* buffers, queues and chunks: a registered subscription is served, a live *)
(* one has no gap, and what the daemon and the app retain is the end of    *)
(* what the pane wrote and of what the app was sent.                       *)
(*                                                                         *)
(* What decides is the pipe of a connection: the frames sent and the       *)
(* chunks queued behind them.  It is a chain, each delta beginning where   *)
(* the frame before it ends, from what the app applied last to, as long as *)
(* the subscription is registered, the end of the daemon's buffer.         *)
(*                                                                         *)
(* The last part is the refinement: the terminal implements OutputView.    *)
(* Every cursor the frontend holds stands at an offset of the pane's       *)
(* output, and keeps it while frames are applied; every copy of the output *)
(* begins and ends, for a reader, at a character.                          *)
(***************************************************************************)
EXTENDS PaneStream, FiniteSetTheorems, SequenceTheorems, WellFoundedInduction, TLAPS

-----------------------------------------------------------------------------
(* The buffer.                                                             *)

\* The bytes that end at hi, with none missing between them.
Stretch(bytes, hi) ==
  /\ bytes \in Seq(Nat) /\ Len(bytes) <= hi
  /\ \A k \in 1 .. Len(bytes) : bytes[k] = hi - Len(bytes) + k - 1

LEMMA RunIs ==
  ASSUME NEW lo \in Nat, NEW hi \in Nat, lo <= hi
  PROVE  Stretch(Run(lo, hi), hi) /\ Len(Run(lo, hi)) = hi - lo
  <1>1. hi - lo \in Nat  OBVIOUS
  <1>2. \A k \in 1 .. hi - lo : lo + k - 1 \in Nat  OBVIOUS
  <1>3. Run(lo, hi) \in [1 .. hi - lo -> Nat]  BY <1>2 DEF Run
  <1>4. Run(lo, hi) \in Seq(Nat) /\ Len(Run(lo, hi)) = hi - lo  BY <1>1, <1>3
  <1>5. hi - (hi - lo) = lo  OBVIOUS
  <1> QED  BY <1>4, <1>5 DEF Run, Stretch

LEMMA Joined ==
  ASSUME NEW s, NEW t, NEW mid \in Nat, NEW hi \in Nat,
         Stretch(s, mid), Stretch(t, hi), hi - Len(t) = mid
  PROVE  Stretch(s \o t, hi) /\ Len(s \o t) = Len(s) + Len(t)
  <1>1. /\ s \in Seq(Nat) /\ t \in Seq(Nat) /\ Len(s) \in Nat /\ Len(t) \in Nat
        /\ Len(s) <= mid /\ Len(t) <= hi
        /\ \A k \in 1 .. Len(s) : s[k] = mid - Len(s) + k - 1
        /\ \A k \in 1 .. Len(t) : t[k] = hi - Len(t) + k - 1
    BY DEF Stretch
  <1>2. /\ s \o t \in Seq(Nat) /\ Len(s \o t) = Len(s) + Len(t)
        /\ \A k \in 1 .. Len(s) + Len(t) :
             (s \o t)[k] = IF k <= Len(s) THEN s[k] ELSE t[k - Len(s)]
    BY <1>1, ConcatProperties
  <1> DEFINE m == Len(s)
             n == Len(t)
             u == s \o t
  <1>3. m \in Nat /\ n \in Nat /\ m <= mid /\ n <= hi /\ hi - n = mid  BY <1>1
  <1>4. \A k \in 1 .. m + n : u[k] = IF k <= m THEN s[k] ELSE t[k - m]  BY <1>2
  <1>5. /\ \A k \in 1 .. m : s[k] = mid - m + k - 1
        /\ \A k \in 1 .. n : t[k] = hi - n + k - 1
    BY <1>1
  <1>6. u \in Seq(Nat) /\ Len(u) = m + n  BY <1>2
  <1> HIDE DEF m, n, u
  <1>7. ASSUME NEW k \in 1 .. m + n PROVE u[k] = hi - (m + n) + k - 1
    <2>1. CASE k <= m
      <3>1. k \in 1 .. m  BY <1>3, <2>1
      <3>2. u[k] = s[k]  BY <1>4, <2>1
      <3>3. s[k] = mid - m + k - 1  BY <1>5, <3>1
      <3>4. mid - m + k - 1 = hi - (m + n) + k - 1  BY <1>3
      <3> QED  BY <3>2, <3>3, <3>4
    <2>2. CASE ~(k <= m)
      <3>1. k - m \in 1 .. n  BY <1>3, <2>2
      <3>2. u[k] = t[k - m]  BY <1>4, <2>2
      <3>3. t[k - m] = hi - n + (k - m) - 1  BY <1>5, <3>1
      <3> QED  BY <1>3, <3>2, <3>3
    <2> QED  BY <2>1, <2>2
  <1>8. m + n <= hi  BY <1>3
  <1>9. Stretch(u, hi)  BY <1>6, <1>7, <1>8 DEF Stretch
  <1> QED  BY <1>6, <1>9 DEF m, n, u

LEMMA CutShort ==
  ASSUME NEW s, NEW hi \in Nat, Stretch(s, hi), NEW cut \in 0 .. Len(s)
  PROVE  /\ Stretch(SubSeq(s, cut + 1, Len(s)), hi)
         /\ Len(SubSeq(s, cut + 1, Len(s))) = Len(s) - cut
  <1> DEFINE n == Len(s)
             u == SubSeq(s, cut + 1, Len(s))
  <1>1. /\ s \in Seq(Nat) /\ n \in Nat /\ n <= hi /\ cut \in 0 .. n
        /\ \A k \in 1 .. n : s[k] = hi - n + k - 1
    BY DEF Stretch
  <1>2. \A k \in cut + 1 .. n : s[k] \in Nat
    <2>1. \A k \in 1 .. n : s[k] \in Nat  BY <1>1
    <2> QED  BY <1>1, <2>1
  <1>3. /\ u \in Seq(Nat)
        /\ Len(u) = IF cut + 1 <= n THEN n - (cut + 1) + 1 ELSE 0
        /\ \A k \in 1 .. n - (cut + 1) + 1 : u[k] = s[cut + 1 + k - 1]
    <2>1. cut + 1 \in Int /\ n \in Int  BY <1>1
    <2> QED  BY <1>2, <2>1, SubSeqProperties
  <1> HIDE DEF n, u
  <1>4. Len(u) = n - cut  BY <1>1, <1>3
  <1>5. ASSUME NEW k \in 1 .. Len(u) PROVE u[k] = hi - Len(u) + k - 1
    <2>1. k \in 1 .. n - (cut + 1) + 1 /\ cut + k \in 1 .. n /\ cut + 1 + k - 1 = cut + k
      BY <1>1, <1>4
    <2>2. u[k] = s[cut + k]  BY <1>3, <2>1
    <2>3. s[cut + k] = hi - n + (cut + k) - 1  BY <1>1, <2>1
    <2> QED  BY <1>1, <1>4, <2>2, <2>3
  <1>6. Len(u) <= hi  BY <1>1, <1>4
  <1>7. Stretch(u, hi)  BY <1>3, <1>5, <1>6 DEF Stretch
  <1> QED  BY <1>4, <1>7 DEF n, u

\* Compaction drains at least down to the cap, and never more than is there.
LEMMA CutFits ==
  ASSUME NEW bytes \in Seq(Nat), Len(bytes) > RetainCap + RetainCap \div 2
  PROVE  Cut(bytes) \in Len(bytes) - RetainCap .. Len(bytes)
  <1> DEFINE over == Len(bytes) - RetainCap
             StopsAt(k) == k = 3 \/ over + k = Len(bytes) \/ ~IsCont(bytes[over + k + 1])
             First(k) == StopsAt(k) /\ \A j \in 0 .. k - 1 : ~StopsAt(j)
  <1>0. RetainCap \in Nat /\ RetainCap >= 4 /\ Len(bytes) \in Nat  BY BufferAssumption
  <1>1. StopsAt(3)  OBVIOUS
  <1> HIDE DEF StopsAt
  <1>2. \E k \in 0 .. 3 : First(k)
    <2>1. CASE StopsAt(0)  BY <2>1
    <2>2. CASE ~StopsAt(0) /\ StopsAt(1)
      <3>1. \A j \in 0 .. 1 - 1 : ~StopsAt(j)  BY <2>2
      <3> QED  BY <2>2, <3>1
    <2>3. CASE ~StopsAt(0) /\ ~StopsAt(1) /\ StopsAt(2)
      <3>1. \A j \in 0 .. 2 - 1 : j = 0 \/ j = 1  OBVIOUS
      <3>2. \A j \in 0 .. 2 - 1 : ~StopsAt(j)  BY <2>3, <3>1
      <3> QED  BY <2>3, <3>2
    <2>4. CASE ~StopsAt(0) /\ ~StopsAt(1) /\ ~StopsAt(2)
      <3>1. \A j \in 0 .. 3 - 1 : j = 0 \/ j = 1 \/ j = 2  OBVIOUS
      <3>2. \A j \in 0 .. 3 - 1 : ~StopsAt(j)  BY <2>4, <3>1
      <3> QED  BY <1>1, <2>4, <3>2
    <2> QED  BY <2>1, <2>2, <2>3, <2>4
  <1> DEFINE k0 == CHOOSE k \in 0 .. 3 : First(k)
  <1>3. k0 \in 0 .. 3
    <2> HIDE DEF First
    <2> QED  BY <1>2
  <1>4. Cut(bytes) = over + k0  BY Zenon DEF Cut, StopsAt
  <1> HIDE DEF k0
  <1> QED  BY <1>0, <1>3, <1>4

\* A push adds the chunk at the end, keeps an unbroken stretch of the bytes,
\* and bounds it.
LEMMA PushIs ==
  ASSUME NEW b, NEW from \in Nat, NEW to \in Nat, from <= to, Stretch(b.bytes, from)
  PROVE  /\ Stretch(Push(b, Run(from, to)).bytes, to)
         /\ Len(Push(b, Run(from, to)).bytes) <= RetainCap + RetainCap \div 2
         /\ b.base \in Nat =>
              /\ Push(b, Run(from, to)).base \in Nat
              /\ End(Push(b, Run(from, to))) = End(b) + (to - from)
  <1> DEFINE n == Len(b.bytes)
             bytes == b.bytes \o Run(from, to)
             slack == RetainCap + RetainCap \div 2
             cut == IF Len(bytes) > slack THEN Cut(bytes) ELSE 0
             kept == SubSeq(bytes, cut + 1, Len(bytes))
  <1>1. Stretch(Run(from, to), to) /\ Len(Run(from, to)) = to - from  BY RunIs
  <1>2. Stretch(bytes, to) /\ Len(bytes) = n + (to - from)
    <2>1. to - (to - from) = from  OBVIOUS
    <2> QED  BY <1>1, <2>1, Joined
  <1>3. n \in Nat /\ bytes \in Seq(Nat) /\ Len(bytes) \in Nat  BY <1>2 DEF Stretch
  <1>4. RetainCap \in Nat /\ RetainCap <= slack /\ slack \in Nat
    <2>1. RetainCap \in Nat  BY BufferAssumption
    <2>2. RetainCap \div 2 \in Nat  BY <2>1
    <2> QED  BY <2>1, <2>2
  <1>5. Push(b, Run(from, to)) = [base |-> b.base + cut, bytes |-> kept]  BY DEF Push
  <1> HIDE DEF bytes, n
  <1>6. Len(bytes) > slack => Cut(bytes) \in Len(bytes) - RetainCap .. Len(bytes)
    BY <1>3, CutFits
  <1> HIDE DEF slack
  <1>7. cut \in 0 .. Len(bytes) /\ Len(bytes) - cut <= slack
    <2>1. CASE Len(bytes) > slack
      <3>1. cut = Cut(bytes)  BY <2>1
      <3>2. cut \in Len(bytes) - RetainCap .. Len(bytes)  BY <1>6, <2>1, <3>1
      <3> HIDE DEF cut
      <3> QED  BY <1>3, <1>4, <2>1, <3>2
    <2>2. CASE ~(Len(bytes) > slack)
      <3>1. cut = 0  BY <2>2
      <3> HIDE DEF cut
      <3> QED  BY <1>3, <1>4, <2>2, <3>1
    <2> QED  BY <2>1, <2>2
  <1> HIDE DEF cut
  <1>8. Stretch(kept, to) /\ Len(kept) = Len(bytes) - cut  BY <1>2, <1>7, CutShort
  <1> HIDE DEF kept
  <1>9. Push(b, Run(from, to)).base = b.base + cut /\ Push(b, Run(from, to)).bytes = kept
    BY <1>5
  <1> DEFINE p == Push(b, Run(from, to))
  <1>10. p.base = b.base + cut /\ p.bytes = kept  BY <1>9
  <1>11. End(p) = p.base + Len(p.bytes) /\ End(b) = b.base + n  BY DEF End, n
  <1> HIDE DEF p
  <1>12. ASSUME b.base \in Nat PROVE p.base \in Nat /\ End(p) = End(b) + (to - from)
    <2>1. cut \in Nat /\ Len(kept) = n + (to - from) - cut  BY <1>2, <1>3, <1>7, <1>8
    <2>2. p.base = b.base + cut /\ End(p) = b.base + cut + Len(kept)
      BY <1>10, <1>11
    <2>3. End(b) = b.base + n  BY <1>11
    <2>4. b.base \in Nat /\ to - from \in Nat  BY <1>12
    <2> QED  BY <1>3, <2>1, <2>2, <2>3, <2>4
  <1>13. Stretch(p.bytes, to) /\ Len(p.bytes) <= RetainCap + RetainCap \div 2
    BY <1>7, <1>8, <1>10 DEF slack
  <1> QED  BY <1>12, <1>13 DEF p

-----------------------------------------------------------------------------
(* The pipe of a connection: frames sent, then chunks queued.              *)

\* Frames of an offset range that is one.
Spans == {f \in Frames : f.from <= f.to}

Carries == {"snapshot", "delta"}          \* frames that carry output
Last == {"refused", "overflow", "died"}   \* frames after which none is sent

\* A delta comes after output, and begins where that ends.
Link(f, g) == g.kind = "delta" => f.kind \in Carries /\ f.to = g.from

\* What the app, having applied up to last, can read without seeing a gap.
Chain(p, last) ==
  /\ \A k \in 1 .. Len(p) - 1 : Link(p[k], p[k + 1])
  /\ p # <<>> /\ p[1].kind = "delta" => last = p[1].from

\* Reading it all brings the app up to end.
Reaches(p, last, end) ==
  IF p = <<>> THEN last = end
              ELSE p[Len(p)].kind \in Carries /\ p[Len(p)].to = end

LEMMA ChainGrows ==
  ASSUME NEW p \in Seq(Spans), NEW f \in Spans, NEW last, Chain(p, last),
         f.kind = "delta" => Reaches(p, last, f.from)
  PROVE  /\ Append(p, f) \in Seq(Spans) /\ Chain(Append(p, f), last)
         /\ f.kind \in Carries => Reaches(Append(p, f), last, f.to)
  <1> DEFINE n == Len(p)
             u == Append(p, f)
  <1>1. /\ u \in Seq(Spans) /\ Len(u) = n + 1 /\ n \in Nat /\ u[n + 1] = f
        /\ \A k \in 1 .. n : u[k] = p[k]
    BY AppendProperties
  <1>2. p = <<>> <=> n = 0  BY EmptySeq
  <1>3. u # <<>>  BY <1>1
  <1> HIDE DEF u
  <1>4. \A k \in 1 .. n - 1 : Link(p[k], p[k + 1])  BY DEF Chain
  <1> HIDE DEF n
  <1>5. ASSUME NEW k \in 1 .. n PROVE Link(u[k], u[k + 1])
    <2>1. CASE k < n
      <3>1. k \in 1 .. n - 1 /\ k + 1 \in 1 .. n  BY <1>1, <2>1
      <3> QED  BY <1>1, <1>4, <3>1
    <2>2. CASE k = n
      <3>1. u[k] = p[n] /\ u[k + 1] = f  BY <1>1, <2>2
      <3>2. p # <<>>  BY <1>1, <1>2
      <3>3. f.kind = "delta" => p[n].kind \in Carries /\ p[n].to = f.from
        BY <3>2 DEF Reaches, n
      <3> QED  BY <3>1, <3>3 DEF Link
    <2> QED  BY <1>1, <2>1, <2>2
  <1>6. ASSUME u[1].kind = "delta" PROVE last = u[1].from
    <2>1. CASE n = 0
      <3>1. u[1] = f  BY <1>1, <2>1
      <3>2. last = f.from  BY <1>2, <1>6, <2>1, <3>1 DEF Reaches
      <3> QED  BY <3>1, <3>2
    <2>2. CASE n # 0
      <3>1. u[1] = p[1]  BY <1>1, <2>2
      <3> QED  BY <1>2, <1>6, <2>2, <3>1 DEF Chain
    <2> QED  BY <2>1, <2>2
  <1>7. Len(u) - 1 = n  BY <1>1
  <1>8. Chain(u, last)  BY <1>5, <1>6, <1>7 DEF Chain
  <1>9. f.kind \in Carries => Reaches(u, last, f.to)  BY <1>1, <1>3 DEF Reaches
  <1> QED  BY <1>1, <1>8, <1>9 DEF u

\* The frames read first take what is left of the chain along.
LEMMA ChainRead ==
  ASSUME NEW p \in Seq(Spans), p # <<>>, NEW last, Chain(p, last), NEW next,
         (p[1].kind \in Carries /\ next = p[1].to) \/ p[1].kind = "streaming"
  PROVE  /\ Tail(p) \in Seq(Spans) /\ Chain(Tail(p), next)
         /\ \A end : Reaches(p, last, end) => Reaches(Tail(p), next, end)
  <1> DEFINE n == Len(p)
             u == Tail(p)
  <1>1. /\ u \in Seq(Spans) /\ n \in Nat /\ n # 0 /\ Len(u) = n - 1
        /\ \A k \in 1 .. n - 1 : u[k] = p[k + 1]
    BY HeadTailProperties, EmptySeq
  <1> HIDE DEF u
  <1>2. u = <<>> <=> n = 1
    <2>1. u = <<>> => n = 1  BY <1>1, EmptySeq
    <2>2. u # <<>> => Len(u) # 0  BY <1>1, EmptySeq
    <2> QED  BY <1>1, <2>1, <2>2
  <1>3. \A k \in 1 .. n - 1 : Link(p[k], p[k + 1])  BY DEF Chain
  <1>4. \A end : Reaches(p, last, end) => p[n].kind \in Carries /\ p[n].to = end
    BY DEF Reaches
  <1> HIDE DEF n
  <1>5. ASSUME NEW k \in 1 .. Len(u) - 1 PROVE Link(u[k], u[k + 1])
    <2>1. k \in 1 .. n - 1 /\ k + 1 \in 1 .. n - 1  BY <1>1
    <2> QED  BY <1>1, <1>3, <2>1
  <1>6. ASSUME u # <<>>, u[1].kind = "delta" PROVE next = u[1].from
    <2>1. 1 \in 1 .. n - 1  BY <1>1, <1>2, <1>6
    <2>2. u[1] = p[2] /\ Link(p[1], p[2])
      <3>1. 1 + 1 = 2  OBVIOUS
      <3> QED  BY <1>1, <1>3, <2>1, <3>1
    <2>3. p[1].kind \in Carries /\ p[1].to = u[1].from  BY <1>6, <2>2 DEF Link
    <2> QED  BY <2>3 DEF Carries
  <1>7. ASSUME NEW end, Reaches(p, last, end) PROVE Reaches(u, next, end)
    <2>1. p[n].kind \in Carries /\ p[n].to = end  BY <1>4, <1>7
    <2>2. CASE n = 1
      <3>1. p[1].kind # "streaming"  BY <2>1, <2>2 DEF Carries
      <3> QED  BY <1>2, <2>1, <2>2, <3>1 DEF Reaches
    <2>3. CASE n # 1
      <3>1. Len(u) = n - 1 /\ n - 1 \in 1 .. n - 1 /\ n - 1 + 1 = n  BY <1>1, <2>3
      <3>2. u[Len(u)] = p[n]  BY <1>1, <3>1
      <3> QED  BY <1>2, <2>1, <2>3, <3>2 DEF Reaches
    <2> QED  BY <2>2, <2>3
  <1>8. Chain(u, next)  BY <1>5, <1>6 DEF Chain
  <1> QED  BY <1>1, <1>7, <1>8 DEF u

\* Without the queue it is still a chain.
LEMMA ChainCut ==
  ASSUME NEW w \in Seq(Spans), NEW q \in Seq(Spans), NEW last, Chain(w \o q, last)
  PROVE  Chain(w, last)
  <1> DEFINE n == Len(w)
             p == w \o q
  <1>1. /\ n \in Nat /\ Len(q) \in Nat /\ Len(p) = n + Len(q)
        /\ \A k \in 1 .. n + Len(q) : p[k] = IF k <= n THEN w[k] ELSE q[k - n]
    BY ConcatProperties
  <1>2. \A k \in 1 .. n : p[k] = w[k]  BY <1>1
  <1>3. w # <<>> => n # 0 /\ p # <<>>  BY <1>1, EmptySeq
  <1> HIDE DEF p
  <1>4. ASSUME NEW k \in 1 .. n - 1 PROVE Link(w[k], w[k + 1])
    <2>1. k \in 1 .. Len(p) - 1 /\ k \in 1 .. n /\ k + 1 \in 1 .. n  BY <1>1
    <2>2. Link(p[k], p[k + 1])  BY <2>1 DEF Chain, p
    <2> QED  BY <1>2, <2>1, <2>2
  <1>5. ASSUME w # <<>>, w[1].kind = "delta" PROVE last = w[1].from
    <2>1. p[1] = w[1] /\ p # <<>>  BY <1>1, <1>2, <1>3, <1>5
    <2> QED  BY <1>5, <2>1 DEF Chain, p
  <1> QED  BY <1>4, <1>5 DEF Chain

LEMMA PipeMoves ==
  ASSUME NEW w \in Seq(Spans), NEW q \in Seq(Spans)
  PROVE  /\ w \o q \in Seq(Spans) /\ w \o <<>> = w /\ <<>> \o q = q
         /\ \A f \in Spans : w \o Append(q, f) = Append(w \o q, f)
         /\ \A f \in Spans : w \o <<f>> = Append(w, f)
         /\ q # <<>> => (w \o <<Head(q)>>) \o Tail(q) = w \o q
         /\ w # <<>> => Tail(w) \o q = Tail(w \o q) /\ (w \o q)[1] = w[1] /\ w \o q # <<>>
  <1>1. w \o q \in Seq(Spans) /\ w \o <<>> = w /\ <<>> \o q = q
    BY ConcatEmptySeq, ConcatProperties
  <1>2. ASSUME NEW f \in Spans PROVE w \o Append(q, f) = Append(w \o q, f)
    BY <1>1, AppendIsConcat, ConcatAssociative
  <1>3. ASSUME NEW f \in Spans PROVE w \o <<f>> = Append(w, f)
    BY AppendIsConcat
  <1>4. ASSUME q # <<>> PROVE (w \o <<Head(q)>>) \o Tail(q) = w \o q
    <2>1. Head(q) \in Spans /\ Tail(q) \in Seq(Spans)  BY <1>4, HeadTailProperties
    <2>2. <<Head(q)>> \in Seq(Spans)  BY <2>1
    <2>3. <<Head(q)>> \o Tail(q) = q  BY <1>4, <2>1
    <2>4. (w \o <<Head(q)>>) \o Tail(q) = w \o (<<Head(q)>> \o Tail(q))
      BY <2>1, <2>2, ConcatAssociative
    <2> QED  BY <2>3, <2>4
  <1>5. ASSUME w # <<>>
        PROVE  Tail(w) \o q = Tail(w \o q) /\ (w \o q)[1] = w[1] /\ w \o q # <<>>
    BY <1>5
  <1> QED  BY <1>1, <1>2, <1>3, <1>4, <1>5

-----------------------------------------------------------------------------
(* The invariant.                                                          *)

Steps == {"free", "request", "gated", "streaming", "classify", "awaiting"}

\* One connection: step, queue q and frames w at the daemon's end; whether the
\* app's end is open, whether its subscription is registered (live), what the
\* app applied last and where the daemon's buffer ends.
Good(step, q, w, open, live, last, end) ==
  /\ step # "streaming" => q = <<>>
  /\ \A k \in 1 .. Len(q) : q[k].kind = "delta"
  /\ step \in {"request", "gated"} => w = <<>>
  /\ ~open => w = <<>> /\ step \in {"free", "awaiting"}
  /\ live => step = "streaming"
  /\ \A k \in 1 .. Len(w) : w[k].kind \in Last => step \in {"awaiting", "free"}
  /\ Chain(w \o q, last)
  /\ live => Reaches(w \o q, last, end)

\* What the daemon retains is the end of what the pane wrote, what the app
\* retains is the end of what it applied.
Windows ==
  /\ buffer.base \in Nat /\ End(buffer) \in 0 .. MaxBytes
  /\ Stretch(buffer.bytes, End(buffer))
  /\ Len(buffer.bytes) <= RetainCap + RetainCap \div 2
  /\ view = [buf |-> view.buf, genBase |-> view.genBase, last |-> view.last]
  /\ view.genBase \in Nat /\ view.buf.base \in Nat
  /\ Len(view.buf.bytes) <= RetainCap + RetainCap \div 2
  /\ \/ view.last = Unattached /\ view.buf.bytes = <<>>
     \/ view.last \in 0 .. MaxBytes /\ Stretch(view.buf.bytes, view.last)

Ends ==
  /\ alive \in BOOLEAN /\ eof \in BOOLEAN
  /\ server \in [Conns -> Steps] /\ subs \subseteq Conns /\ peer \in [Conns -> BOOLEAN]
  /\ queue \in [Conns -> Seq(Spans)] /\ wire \in [Conns -> Seq(Spans)]
  /\ \A c \in Conns : Len(queue[c]) <= SubCapacity
  /\ eof => subs = {}
  /\ dialed \in Conns \cup {NoConn}
  /\ \/ reader = "reading" /\ dialed \in Conns /\ \A c \in Conns : peer[c] <=> c = dialed
     \/ reader \in {"idle", "dead"} /\ \A c \in Conns : ~peer[c]

Pipes ==
  \A c \in Conns :
    Good(server[c], queue[c], wire[c], peer[c], c \in subs, view.last, End(buffer))

PipeInv == Windows /\ Ends /\ Pipes

LEMMA InitPipe == Init => PipeInv
  <1> SUFFICES ASSUME Init PROVE PipeInv  OBVIOUS
  <1>1. End(buffer) = 0 /\ MaxBytes \in Nat /\ buffer.bytes = <<>> /\ buffer.base = 0
    BY StreamAssumption DEF Init, EmptyBuffer, End
  <1>2. Len(<<>>) = 0 /\ Stretch(<<>>, 0)  BY DEF Stretch
  <1>3. RetainCap \in Nat /\ 0 <= RetainCap + RetainCap \div 2
    <2>1. RetainCap \in Nat  BY BufferAssumption
    <2>2. RetainCap \div 2 \in Nat  BY <2>1
    <2> QED  BY <2>1, <2>2
  <1>4. Windows
    BY <1>1, <1>2, <1>3 DEF Init, Windows, EmptyBuffer, Unattached
  <1>5. Ends
    <2>1. <<>> \in Seq(Spans)  OBVIOUS
    <2>2. SubCapacity \in Nat  BY StreamAssumption
    <2>3. /\ queue = [c \in Conns |-> <<>>] /\ wire = [c \in Conns |-> <<>>]
          /\ \A c \in Conns : queue[c] = <<>>
      BY DEF Init
    <2>4. queue \in [Conns -> Seq(Spans)] /\ wire \in [Conns -> Seq(Spans)]
      BY <2>1, <2>3
    <2>5. \A c \in Conns : Len(queue[c]) <= SubCapacity  BY <1>2, <2>2, <2>3
    <2> QED  BY <2>4, <2>5 DEF Init, Ends, Steps
  <1>6. Pipes
    <2> SUFFICES ASSUME NEW c \in Conns
                 PROVE  Good(server[c], queue[c], wire[c], peer[c], c \in subs,
                             view.last, End(buffer))
      BY DEF Pipes
    <2>1. /\ server[c] = "free" /\ queue[c] = <<>> /\ wire[c] = <<>> /\ peer[c] = FALSE
          /\ c \notin subs
      BY DEF Init
    <2>2. <<>> \o <<>> = <<>>  OBVIOUS
    <2> QED  BY <1>2, <2>1, <2>2 DEF Good, Chain
  <1> QED  BY <1>4, <1>5, <1>6 DEF PipeInv

\* A step of one connection that moves neither the buffer nor the view.
LEMMA OneConn ==
  ASSUME Pipes, NEW c \in Conns, UNCHANGED <<buffer, view>>,
         \A d \in Conns \ {c} :
           /\ server'[d] = server[d] /\ queue'[d] = queue[d] /\ wire'[d] = wire[d]
           /\ peer'[d] = peer[d] /\ (d \in subs' <=> d \in subs),
         Good(server'[c], queue'[c], wire'[c], peer'[c], c \in subs', view.last, End(buffer))
  PROVE  Pipes'
  <1> DEFINE last == view.last
             end == End(buffer)
  <1>1. view'.last = last /\ End(buffer)' = end  BY DEF End
  <1>2. PICK l, e : l = last /\ e = end  OBVIOUS
  <1> SUFFICES ASSUME NEW d \in Conns
               PROVE  Good(server'[d], queue'[d], wire'[d], peer'[d], d \in subs', l, e)
    BY <1>1, <1>2 DEF Pipes
  <1>3. CASE d = c  BY <1>2, <1>3
  <1>4. CASE d # c
    <2>1. Good(server[d], queue[d], wire[d], peer[d], d \in subs, l, e)
      BY <1>2 DEF Pipes
    <2>2. (d \in subs') = (d \in subs)  BY <1>4
    <2> QED  BY <1>4, <2>1, <2>2
  <1> QED  BY <1>3, <1>4

\* The frames the daemon sends.
LEMMA Framed ==
  /\ \A kind \in {"streaming", "refused", "overflow", "died"} :
       Frame(kind) \in Spans /\ Frame(kind).kind = kind
  /\ Windows => /\ Snapshot(buffer) \in Spans /\ Snapshot(buffer).kind = "snapshot"
                /\ Snapshot(buffer).to = End(buffer)
  <1>1. 0 \in 0 .. MaxBytes  BY StreamAssumption
  <1>2. ASSUME NEW kind \in {"streaming", "refused", "overflow", "died"}
        PROVE  Frame(kind) \in Spans /\ Frame(kind).kind = kind
    BY <1>1 DEF Frame, Spans, Frames
  <1>3. ASSUME Windows
        PROVE  /\ Snapshot(buffer) \in Spans /\ Snapshot(buffer).kind = "snapshot"
               /\ Snapshot(buffer).to = End(buffer)
    <2>1. /\ buffer.base \in Nat /\ End(buffer) \in 0 .. MaxBytes
          /\ Len(buffer.bytes) \in Nat /\ End(buffer) = buffer.base + Len(buffer.bytes)
      BY <1>3 DEF Windows, Stretch, End
    <2>2. buffer.base \in 0 .. MaxBytes /\ buffer.base <= End(buffer)
      BY <2>1, StreamAssumption
    <2> QED  BY <2>1, <2>2 DEF Snapshot, Spans, Frames
  <1> QED  BY <1>2, <1>3

-----------------------------------------------------------------------------
(* One connection.                                                         *)

\* The thread sends its last frame and waits for the app to hang up.
LEMMA SaysLast ==
  ASSUME NEW step, NEW w \in Seq(Spans), NEW live, NEW last, NEW end, NEW f \in Spans,
         Good(step, <<>>, w, TRUE, live, last, end), f.kind # "delta"
  PROVE  Good("awaiting", <<>>, w \o <<f>>, TRUE, FALSE, last, end)
  <1>1. <<>> \in Seq(Spans) /\ Len(<<>>) = 0  OBVIOUS
  <1>2. w \o <<>> = w /\ w \o <<f>> = Append(w, f)  BY <1>1, PipeMoves
  <1>3. Chain(w, last)  BY <1>2 DEF Good
  <1>4. Append(w, f) \in Seq(Spans) /\ Chain(Append(w, f), last)  BY <1>3, ChainGrows
  <1>5. Append(w, f) \o <<>> = Append(w, f)  BY <1>1, <1>4, PipeMoves
  <1> QED  BY <1>1, <1>2, <1>4, <1>5 DEF Good

\* The thread ends; what it sent stays readable.
LEMMA Quits ==
  ASSUME NEW step, NEW q \in Seq(Spans), NEW w \in Seq(Spans), NEW open, NEW live,
         NEW last, NEW end, Good(step, q, w, open, live, last, end)
  PROVE  Good("free", <<>>, w, open, FALSE, last, end)
  <1>1. <<>> \in Seq(Spans) /\ Len(<<>>) = 0  OBVIOUS
  <1>2. Chain(w \o q, last)  BY DEF Good
  <1>3. Chain(w, last)  BY <1>2, ChainCut
  <1>4. w \o <<>> = w  BY <1>1, PipeMoves
  <1>5. ~open => w = <<>>  BY DEF Good
  <1> QED  BY <1>1, <1>3, <1>4, <1>5 DEF Good

\* One chunk becomes a frame.
LEMMA Drains ==
  ASSUME NEW q \in Seq(Spans), NEW w \in Seq(Spans), NEW live,
         NEW last, NEW end, Good("streaming", q, w, TRUE, live, last, end), q # <<>>
  PROVE  Good("streaming", Tail(q), w \o <<Head(q)>>, TRUE, live, last, end)
  <1>1. (w \o <<Head(q)>>) \o Tail(q) = w \o q  BY PipeMoves
  <1>2. /\ Head(q) \in Spans /\ Tail(q) \in Seq(Spans) /\ Head(q) = q[1]
        /\ Len(q) \in Nat /\ Len(q) # 0 /\ Len(Tail(q)) = Len(q) - 1
        /\ \A k \in 1 .. Len(Tail(q)) : Tail(q)[k] = q[k + 1]
    BY HeadTailProperties, EmptySeq
  <1>3. w \o <<Head(q)>> = Append(w, Head(q))  BY <1>2, PipeMoves
  <1>4. \A k \in 1 .. Len(q) : q[k].kind = "delta"  BY DEF Good
  <1>5. Head(q).kind = "delta"  BY <1>2, <1>4
  <1>6. ASSUME NEW k \in 1 .. Len(Tail(q)) PROVE Tail(q)[k].kind = "delta"
    <2>1. k + 1 \in 1 .. Len(q)  BY <1>2
    <2> QED  BY <1>2, <1>4, <2>1
  <1>7. \A k \in 1 .. Len(w) : w[k].kind \notin Last  BY DEF Good
  <1>8. \A k \in 1 .. Len(Append(w, Head(q))) : Append(w, Head(q))[k].kind \notin Last
    <2>1. /\ Len(Append(w, Head(q))) = Len(w) + 1 /\ Len(w) \in Nat
          /\ \A k \in 1 .. Len(w) : Append(w, Head(q))[k] = w[k]
          /\ Append(w, Head(q))[Len(w) + 1] = Head(q)
      BY <1>2, AppendProperties
    <2>2. "delta" \notin Last  BY DEF Last
    <2> QED  BY <1>5, <1>7, <2>1, <2>2
  <1>9. Chain(w \o q, last) /\ (live => Reaches(w \o q, last, end))  BY DEF Good
  <1> QED  BY <1>1, <1>3, <1>6, <1>8, <1>9 DEF Good

\* A chunk is queued behind what a live subscription has.
LEMMA Queues ==
  ASSUME NEW step, NEW q \in Seq(Spans), NEW w \in Seq(Spans), NEW open,
         NEW last, NEW end, Good(step, q, w, open, TRUE, last, end),
         NEW f \in Spans, f.kind = "delta", f.from = end
  PROVE  Good(step, Append(q, f), w, open, TRUE, last, f.to)
  <1>1. w \o q \in Seq(Spans) /\ w \o Append(q, f) = Append(w \o q, f)  BY PipeMoves
  <1>2. Chain(w \o q, last) /\ Reaches(w \o q, last, f.from)  BY DEF Good
  <1>3. f.kind \in Carries  BY DEF Carries
  <1>4. /\ Chain(w \o Append(q, f), last)
        /\ Reaches(w \o Append(q, f), last, f.to)
    BY <1>1, <1>2, <1>3, ChainGrows
  <1>5. \A k \in 1 .. Len(Append(q, f)) : Append(q, f)[k].kind = "delta"
    <2>1. /\ Len(Append(q, f)) = Len(q) + 1 /\ Len(q) \in Nat
          /\ \A k \in 1 .. Len(q) : Append(q, f)[k] = q[k]
          /\ Append(q, f)[Len(q) + 1] = f
      BY AppendProperties
    <2>2. \A k \in 1 .. Len(q) : q[k].kind = "delta"  BY DEF Good
    <2> QED  BY <2>1, <2>2
  <1> QED  BY <1>4, <1>5 DEF Good

\* The app reads a frame that ends nothing.
LEMMA Reads ==
  ASSUME NEW step, NEW q \in Seq(Spans), NEW w \in Seq(Spans), NEW live, NEW last,
         NEW end, NEW next, Good(step, q, w, TRUE, live, last, end), w # <<>>,
         (Head(w).kind \in Carries /\ next = Head(w).to) \/ Head(w).kind = "streaming"
  PROVE  Good(step, q, Tail(w), TRUE, live, next, end)
  <1>1. /\ w \o q \in Seq(Spans) /\ w \o q # <<>>
        /\ Tail(w) \o q = Tail(w \o q) /\ (w \o q)[1] = w[1]
    BY PipeMoves
  <1>2. Head(w) = w[1]  OBVIOUS
  <1>3. Chain(w \o q, last) /\ (live => Reaches(w \o q, last, end))  BY DEF Good
  <1>4. /\ Chain(Tail(w) \o q, next)
        /\ live => Reaches(Tail(w) \o q, next, end)
    BY <1>1, <1>2, <1>3, ChainRead
  <1>5. /\ Len(w) \in Nat /\ Len(Tail(w)) = Len(w) - 1
        /\ \A k \in 1 .. Len(Tail(w)) : Tail(w)[k] = w[k + 1]
    BY HeadTailProperties
  <1>6. ASSUME NEW k \in 1 .. Len(Tail(w)), Tail(w)[k].kind \in Last
        PROVE  step \in {"awaiting", "free"}
    <2>1. k + 1 \in 1 .. Len(w)  BY <1>5
    <2> QED  BY <1>5, <1>6, <2>1 DEF Good
  <1>7. step \notin {"request", "gated"}  BY DEF Good
  <1> QED  BY <1>4, <1>6, <1>7 DEF Good

-----------------------------------------------------------------------------
(* The steps.                                                              *)

\* The buffer and the view stay, and so does what a connection is not about.
LEMMA WindowsStay == Windows /\ UNCHANGED <<buffer, view>> => Windows'
  BY DEF Windows, End

LEMMA ConnTypes ==
  ASSUME Ends, NEW c \in Conns
  PROVE  /\ queue[c] \in Seq(Spans) /\ wire[c] \in Seq(Spans) /\ server[c] \in Steps
         /\ peer[c] \in BOOLEAN
  BY DEF Ends

LEMMA Sent ==
  ASSUME Ends, NEW c \in Conns, NEW frames \in Seq(Spans), Send(c, frames)
  PROVE  /\ wire' \in [Conns -> Seq(Spans)] /\ wire'[c] = wire[c] \o frames
         /\ \A d \in Conns \ {c} : wire'[d] = wire[d]
  <1>1. wire \in [Conns -> Seq(Spans)]  BY DEF Ends
  <1>2. wire[c] \o frames \in Seq(Spans)  BY <1>1, ConcatProperties
  <1>3. wire' = [wire EXCEPT ![c] = wire[c] \o frames]  BY DEF Send
  <1> QED  BY <1>1, <1>2, <1>3

LEMMA Served ==
  ASSUME Ends, NEW c \in Conns, NEW step \in Steps, Serve(c, step)
  PROVE  /\ server' \in [Conns -> Steps] /\ server'[c] = step
         /\ \A d \in Conns \ {c} : server'[d] = server[d]
  BY DEF Ends, Serve

\* The app's end of a connection whose thread is at work is open.
LEMMA OpenWhileServed ==
  ASSUME Pipes, Ends, NEW c \in Conns, server[c] \notin {"free", "awaiting"}
  PROVE  peer[c] = TRUE
  <1>1. Good(server[c], queue[c], wire[c], peer[c], c \in subs, view.last, End(buffer))
    BY DEF Pipes
  <1> QED  BY <1>1, ConnTypes DEF Good

LEMMA ExitsPipe == PipeInv /\ PaneExits => PipeInv'
  <1> SUFFICES ASSUME PipeInv, PaneExits PROVE PipeInv'  OBVIOUS
  <1> USE DEF PaneExits, connVars, appVars
  <1>1. Windows'  BY WindowsStay DEF PipeInv
  <1>2. Ends'  BY DEF PipeInv, Ends
  <1>3. Pipes'  BY DEF PipeInv, Pipes, End
  <1> QED  BY <1>1, <1>2, <1>3 DEF PipeInv

LEMMA ClosesPipe == PipeInv /\ CloseSubscribers => PipeInv'
  <1> SUFFICES ASSUME PipeInv, CloseSubscribers PROVE PipeInv'  OBVIOUS
  <1>0. UNCHANGED <<buffer, alive, server, queue, wire, peer, reader, dialed, view>>
    BY DEF CloseSubscribers, appVars
  <1>1. Windows'  BY <1>0, WindowsStay DEF PipeInv
  <1>2. Ends'  BY <1>0 DEF PipeInv, Ends, CloseSubscribers
  <1>3. Pipes'
    <2>1. End(buffer)' = End(buffer) /\ view'.last = view.last  BY <1>0 DEF End
    <2>2. ASSUME NEW c \in Conns
          PROVE  Good(server[c], queue[c], wire[c], peer[c], FALSE, view.last, End(buffer))
      <3>1. Good(server[c], queue[c], wire[c], peer[c], c \in subs, view.last, End(buffer))
        BY DEF PipeInv, Pipes
      <3> QED  BY <3>1 DEF Good
    <2>3. \A c \in Conns : (c \in subs') = FALSE  BY DEF CloseSubscribers
    <2> QED  BY <1>0, <2>1, <2>2, <2>3 DEF Pipes
  <1> QED  BY <1>1, <1>2, <1>3 DEF PipeInv

\* The thread goes from asking one question to asking the next.
LEMMA AsksOn ==
  ASSUME PipeInv, NEW c \in Conns, server[c] \notin {"free", "awaiting"},
         queue[c] = <<>>, c \notin subs, NEW step \in Steps, Serve(c, step),
         step = "gated" => wire[c] = <<>>, step \notin {"request", "streaming"},
         UNCHANGED <<buffer, alive, eof, subs, queue, wire, peer, reader, dialed, view>>
  PROVE  PipeInv'
  <1> USE DEF PipeInv
  <1>1. Windows'  BY WindowsStay
  <1>2. /\ server' \in [Conns -> Steps] /\ server'[c] = step
        /\ \A d \in Conns \ {c} : server'[d] = server[d]
    BY Served
  <1>3. Ends'  BY <1>2 DEF Ends
  <1>4. peer[c] = TRUE  BY OpenWhileServed
  <1>5. Good(server[c], <<>>, wire[c], TRUE, c \in subs, view.last, End(buffer))
    BY <1>4 DEF Pipes
  <1>6. Good(step, <<>>, wire[c], TRUE, c \in subs, view.last, End(buffer))
    BY <1>5 DEF Good
  <1>7. Good(server'[c], queue'[c], wire'[c], peer'[c], c \in subs', view.last, End(buffer))
    BY <1>2, <1>4, <1>6
  <1>8. Pipes'  BY <1>2, <1>7, OneConn
  <1> QED  BY <1>1, <1>3, <1>8

\* The thread sends the frame that ends the stream.
LEMMA EndsStream ==
  ASSUME PipeInv, NEW c \in Conns, server[c] \notin {"free", "awaiting"},
         queue[c] = <<>>, c \notin subs, NEW f \in Spans, f.kind # "delta",
         Serve(c, "awaiting"), Send(c, <<f>>),
         UNCHANGED <<buffer, alive, eof, subs, queue, peer, reader, dialed, view>>
  PROVE  PipeInv'
  <1> USE DEF PipeInv
  <1>1. Windows'  BY WindowsStay
  <1>2. /\ server' \in [Conns -> Steps] /\ server'[c] = "awaiting"
        /\ \A d \in Conns \ {c} : server'[d] = server[d]
    BY Served DEF Steps
  <1>3. <<f>> \in Seq(Spans)  OBVIOUS
  <1>4. /\ wire' \in [Conns -> Seq(Spans)] /\ wire'[c] = wire[c] \o <<f>>
        /\ \A d \in Conns \ {c} : wire'[d] = wire[d]
    BY <1>3, Sent
  <1>5. Ends'  BY <1>2, <1>4 DEF Ends
  <1>6. peer[c] = TRUE /\ wire[c] \in Seq(Spans)  BY OpenWhileServed, ConnTypes
  <1>7. Good(server[c], <<>>, wire[c], TRUE, c \in subs, view.last, End(buffer))
    BY <1>6 DEF Pipes
  <1>8. Good("awaiting", <<>>, wire[c] \o <<f>>, TRUE, FALSE, view.last, End(buffer))
    BY <1>6, <1>7, SaysLast
  <1>9. Good(server'[c], queue'[c], wire'[c], peer'[c], c \in subs', view.last, End(buffer))
    <2>1. (c \in subs') = FALSE /\ queue'[c] = <<>> /\ peer'[c] = TRUE  BY <1>6
    <2> QED  BY <1>2, <1>4, <1>8, <2>1
  <1>10. Pipes'  BY <1>2, <1>4, <1>9, OneConn
  <1> QED  BY <1>1, <1>5, <1>10

\* What a connection holds before it streams.
LEMMA NothingYet ==
  ASSUME PipeInv, NEW c \in Conns, server[c] # "streaming"
  PROVE  /\ queue[c] = <<>> /\ c \notin subs
         /\ server[c] \in {"request", "gated"} => wire[c] = <<>>
  BY DEF PipeInv, Pipes, Good

LEMMA GatePipe == ASSUME NEW c \in Conns PROVE PipeInv /\ AttachGate(c) => PipeInv'
  <1> SUFFICES ASSUME PipeInv, AttachGate(c) PROVE PipeInv'  OBVIOUS
  <1>1. /\ server[c] = "request" /\ queue[c] = <<>> /\ c \notin subs /\ wire[c] = <<>>
        /\ UNCHANGED <<buffer, alive, eof, subs, queue, peer, reader, dialed, view>>
    BY NothingYet DEF AttachGate, appVars
  <1>2. CASE Serve(c, "gated") /\ UNCHANGED wire  BY <1>1, <1>2, AsksOn DEF Steps
  <1>3. CASE Serve(c, "awaiting") /\ Send(c, <<Frame("refused")>>)
    <2>1. Frame("refused") \in Spans /\ Frame("refused").kind # "delta"  BY Framed
    <2> QED  BY <1>1, <1>3, <2>1, EndsStream
  <1> QED  BY <1>2, <1>3 DEF AttachGate

LEMMA ClosedPipe == ASSUME NEW c \in Conns PROVE PipeInv /\ DrainClosed(c) => PipeInv'
  <1> SUFFICES ASSUME PipeInv, DrainClosed(c) PROVE PipeInv'  OBVIOUS
  <1>1. /\ server[c] = "streaming" /\ queue[c] = <<>> /\ c \notin subs
        /\ UNCHANGED <<buffer, alive, eof, subs, queue, peer, reader, dialed, view>>
    BY DEF DrainClosed, appVars
  <1>2. CASE Serve(c, "classify") /\ UNCHANGED wire  BY <1>1, <1>2, AsksOn DEF Steps
  <1>3. CASE Serve(c, "awaiting") /\ Send(c, <<Frame("died")>>)
    <2>1. Frame("died") \in Spans /\ Frame("died").kind # "delta"  BY Framed
    <2> QED  BY <1>1, <1>3, <2>1, EndsStream
  <1> QED  BY <1>2, <1>3 DEF DrainClosed

LEMMA ClassifyPipe == ASSUME NEW c \in Conns PROVE PipeInv /\ Classify(c) => PipeInv'
  <1> SUFFICES ASSUME PipeInv, Classify(c) PROVE PipeInv'  OBVIOUS
  <1>1. /\ server[c] = "classify" /\ queue[c] = <<>> /\ c \notin subs
        /\ UNCHANGED <<buffer, alive, eof, subs, queue, peer, reader, dialed, view>>
    BY NothingYet DEF Classify, appVars
  <1>2. PICK kind \in {"overflow", "died"} : Send(c, <<Frame(kind)>>)  BY DEF Classify
  <1>3. Frame(kind) \in Spans /\ Frame(kind).kind # "delta"  BY Framed
  <1>4. Serve(c, "awaiting")  BY DEF Classify
  <1> QED  BY <1>1, <1>2, <1>3, <1>4, EndsStream

LEMMA SubscribePipe == ASSUME NEW c \in Conns PROVE PipeInv /\ Subscribe(c) => PipeInv'
  <1> SUFFICES ASSUME PipeInv, Subscribe(c) PROVE PipeInv'  OBVIOUS
  <1>1. /\ server[c] = "gated" /\ queue[c] = <<>> /\ c \notin subs /\ wire[c] = <<>>
        /\ UNCHANGED <<buffer, alive, eof, queue, peer, reader, dialed, view>>
    BY NothingYet DEF Subscribe, appVars
  <1>2. CASE eof /\ Serve(c, "awaiting") /\ Send(c, <<Frame("refused")>>) /\ UNCHANGED subs
    <2>1. Frame("refused") \in Spans /\ Frame("refused").kind # "delta"  BY Framed
    <2> QED  BY <1>1, <1>2, <2>1, EndsStream
  <1>3. CASE /\ ~eof /\ Serve(c, "streaming") /\ subs' = subs \cup {c}
             /\ Send(c, <<Frame("streaming"), Snapshot(buffer)>>)
    <2> DEFINE f == Frame("streaming")
               g == Snapshot(buffer)
    <2>0. PipeInv /\ Ends /\ Windows /\ Pipes  BY DEF PipeInv
    <2>1. /\ f \in Spans /\ f.kind = "streaming"
          /\ g \in Spans /\ g.kind = "snapshot" /\ g.to = End(buffer)
      BY <2>0, Framed
    <2>2. Send(c, <<f, g>>)  BY <1>3
    <2> HIDE DEF f, g
    <2>3. <<f, g>> \in Seq(Spans) /\ Len(<<f, g>>) = 2 /\ <<f, g>>[1] = f /\ <<f, g>>[2] = g
      BY <2>1
    <2>4. /\ wire' \in [Conns -> Seq(Spans)] /\ wire'[c] = <<>> \o <<f, g>>
          /\ \A d \in Conns \ {c} : wire'[d] = wire[d]
      BY <1>1, <2>0, <2>2, <2>3, Sent
    <2>5. wire'[c] = <<f, g>>  BY <2>3, <2>4, PipeMoves
    <2>6. /\ server' \in [Conns -> Steps] /\ server'[c] = "streaming"
          /\ \A d \in Conns \ {c} : server'[d] = server[d]
      BY <1>3, <2>0, Served DEF Steps
    <2>7. Windows'  BY <1>1, <2>0, WindowsStay
    <2>8. Ends'  BY <1>1, <1>3, <2>0, <2>4, <2>6 DEF Ends
    <2>9. peer[c] = TRUE  BY <1>1, <2>0, OpenWhileServed
    <2>10. Good("streaming", <<>>, <<f, g>>, TRUE, TRUE, view.last, End(buffer))
      <3>1. <<f, g>> \o <<>> = <<f, g>>  BY <2>3, ConcatEmptySeq
      <3>2. Chain(<<f, g>>, view.last)
        <4>1. \A k \in 1 .. 2 - 1 : k = 1  OBVIOUS
        <4>2. Link(f, g)  BY <2>1 DEF Link
        <4>3. <<f, g>>[1 + 1] = g  BY <2>3
        <4> QED  BY <2>1, <2>3, <4>1, <4>2, <4>3 DEF Chain
      <3>3. Reaches(<<f, g>>, view.last, End(buffer))
        <4>1. <<f, g>> # <<>>  OBVIOUS
        <4> QED  BY <2>1, <2>3, <4>1 DEF Reaches, Carries
      <3>4. \A k \in 1 .. 2 : <<f, g>>[k].kind \notin Last
        <4>1. \A k \in 1 .. 2 : k = 1 \/ k = 2  OBVIOUS
        <4> QED  BY <2>1, <2>3, <4>1 DEF Last
      <3>5. Len(<<>>) = 0  OBVIOUS
      <3> QED  BY <2>3, <3>1, <3>2, <3>3, <3>4, <3>5 DEF Good
    <2>11. Good(server'[c], queue'[c], wire'[c], peer'[c], c \in subs', view.last, End(buffer))
      <3>1. (c \in subs') = TRUE /\ queue'[c] = <<>> /\ peer'[c] = TRUE
        BY <1>1, <1>3, <2>9
      <3> QED  BY <2>5, <2>6, <2>10, <3>1
    <2>12. \A d \in Conns \ {c} : d \in subs' <=> d \in subs  BY <1>3
    <2>13. Pipes'  BY <1>1, <2>0, <2>4, <2>6, <2>11, <2>12, OneConn
    <2> QED  BY <2>7, <2>8, <2>13 DEF PipeInv
  <1> QED  BY <1>2, <1>3 DEF Subscribe

LEMMA DrainPipe == ASSUME NEW c \in Conns PROVE PipeInv /\ DrainChunk(c) => PipeInv'
  <1> SUFFICES ASSUME PipeInv, DrainChunk(c) PROVE PipeInv'  OBVIOUS
  <1> USE DEF PipeInv
  <1>1. /\ server[c] = "streaming" /\ queue[c] # <<>>
        /\ queue' = [queue EXCEPT ![c] = Tail(queue[c])]
        /\ Send(c, <<Head(queue[c])>>)
        /\ UNCHANGED <<buffer, alive, eof, server, subs, peer, reader, dialed, view>>
    BY DEF DrainChunk, appVars
  <1>2. queue[c] \in Seq(Spans) /\ wire[c] \in Seq(Spans)  BY ConnTypes
  <1>3. /\ Head(queue[c]) \in Spans /\ Tail(queue[c]) \in Seq(Spans)
        /\ Len(queue[c]) \in Nat /\ Len(Tail(queue[c])) = Len(queue[c]) - 1
    BY <1>1, <1>2, HeadTailProperties
  <1>4. <<Head(queue[c])>> \in Seq(Spans)  BY <1>3
  <1>5. /\ wire' \in [Conns -> Seq(Spans)] /\ wire'[c] = wire[c] \o <<Head(queue[c])>>
        /\ \A d \in Conns \ {c} : wire'[d] = wire[d]
    BY <1>1, <1>4, Sent
  <1>6. /\ queue \in [Conns -> Seq(Spans)]
        /\ \A d \in Conns : Len(queue[d]) <= SubCapacity
    BY DEF Ends
  <1>7. /\ queue' \in [Conns -> Seq(Spans)] /\ queue'[c] = Tail(queue[c])
        /\ \A d \in Conns \ {c} : queue'[d] = queue[d]
    BY <1>1, <1>3, <1>6
  <1>8. \A d \in Conns : Len(queue'[d]) <= SubCapacity
    <2>1. Len(queue'[c]) <= SubCapacity
      <3>1. SubCapacity \in Nat /\ Len(queue[c]) <= SubCapacity  BY <1>6, StreamAssumption
      <3> QED  BY <1>3, <1>7, <3>1
    <2> QED  BY <1>6, <1>7, <2>1
  <1>9. Windows'  BY <1>1, WindowsStay
  <1>10. Ends'  BY <1>1, <1>5, <1>7, <1>8 DEF Ends
  <1>11. peer[c] = TRUE  BY <1>1, OpenWhileServed
  <1>12. Good("streaming", queue[c], wire[c], TRUE, c \in subs, view.last, End(buffer))
    BY <1>1, <1>11 DEF Pipes
  <1>13. Good("streaming", queue'[c], wire'[c], TRUE, c \in subs, view.last, End(buffer))
    <2>1. Good("streaming", Tail(queue[c]), wire[c] \o <<Head(queue[c])>>, TRUE,
               c \in subs, view.last, End(buffer))
      BY <1>1, <1>2, <1>12, Drains
    <2> QED  BY <1>5, <1>7, <2>1
  <1>14. Good(server'[c], queue'[c], wire'[c], peer'[c], c \in subs', view.last, End(buffer))
    BY <1>1, <1>11, <1>13
  <1>15. Pipes'  BY <1>1, <1>5, <1>7, <1>14, OneConn
  <1> QED  BY <1>9, <1>10, <1>15

LEMMA EndPipe ==
  ASSUME NEW c \in Conns
  PROVE  PipeInv /\ (PeerGoneOrSilent(c) \/ ConnBreaks(c)) => PipeInv'
  <1> SUFFICES ASSUME PipeInv, PeerGoneOrSilent(c) \/ ConnBreaks(c) PROVE PipeInv'
    OBVIOUS
  <1> USE DEF PipeInv
  <1>1. /\ Serve(c, "free") /\ subs' = subs \ {c} /\ queue' = [queue EXCEPT ![c] = <<>>]
        /\ UNCHANGED <<buffer, alive, eof, wire, peer, reader, dialed, view>>
    BY DEF PeerGoneOrSilent, ConnBreaks, EndConn, appVars
  <1>2. /\ server' \in [Conns -> Steps] /\ server'[c] = "free"
        /\ \A d \in Conns \ {c} : server'[d] = server[d]
    BY <1>1, Served DEF Steps
  <1>3. <<>> \in Seq(Spans) /\ Len(<<>>) = 0 /\ SubCapacity \in Nat  BY StreamAssumption
  <1>4. queue \in [Conns -> Seq(Spans)] /\ \A d \in Conns : Len(queue[d]) <= SubCapacity
    BY DEF Ends
  <1>5. /\ queue' \in [Conns -> Seq(Spans)] /\ queue'[c] = <<>>
        /\ \A d \in Conns \ {c} : queue'[d] = queue[d]
    BY <1>1, <1>3, <1>4
  <1>6. \A d \in Conns : Len(queue'[d]) <= SubCapacity
    <2>1. Len(queue'[c]) <= SubCapacity  BY <1>3, <1>5
    <2> QED  BY <1>4, <1>5, <2>1
  <1>7. Windows'  BY <1>1, WindowsStay
  <1>8. Ends'  BY <1>1, <1>2, <1>5, <1>6 DEF Ends
  <1>9. Good(server[c], queue[c], wire[c], peer[c], c \in subs, view.last, End(buffer))
    BY DEF Pipes
  <1>10. Good("free", <<>>, wire[c], peer[c], FALSE, view.last, End(buffer))
    BY <1>9, ConnTypes, Quits
  <1>11. Good(server'[c], queue'[c], wire'[c], peer'[c], c \in subs', view.last, End(buffer))
    <2>1. (c \in subs') = FALSE  BY <1>1
    <2> QED  BY <1>1, <1>2, <1>5, <1>10, <2>1
  <1>12. \A d \in Conns \ {c} : d \in subs' <=> d \in subs  BY <1>1
  <1>13. Pipes'  BY <1>1, <1>2, <1>5, <1>11, <1>12, OneConn
  <1> QED  BY <1>7, <1>8, <1>13

LEMMA DialPipe == ASSUME NEW c \in Conns PROVE PipeInv /\ Dial(c) => PipeInv'
  <1> SUFFICES ASSUME PipeInv, Dial(c) PROVE PipeInv'  OBVIOUS
  <1> USE DEF PipeInv
  <1>1. /\ reader = "idle" /\ server[c] = "free" /\ reader' = "reading" /\ dialed' = c
        /\ Serve(c, "request") /\ peer' = [peer EXCEPT ![c] = TRUE] /\ ~peer[c]
        /\ UNCHANGED <<buffer, alive, eof, subs, queue, wire, view>>
    BY DEF Dial
  <1>2. /\ server' \in [Conns -> Steps] /\ server'[c] = "request"
        /\ \A d \in Conns \ {c} : server'[d] = server[d]
    BY <1>1, Served DEF Steps
  <1>3. peer \in [Conns -> BOOLEAN] /\ \A d \in Conns : ~peer[d]  BY <1>1 DEF Ends
  <1>4. /\ peer' \in [Conns -> BOOLEAN] /\ \A d \in Conns : peer'[d] <=> d = c
        /\ peer'[c] = TRUE /\ \A d \in Conns \ {c} : peer'[d] = peer[d]
    BY <1>1, <1>3
  <1>5. Windows'  BY <1>1, WindowsStay
  <1>6. Ends'  BY <1>1, <1>2, <1>4 DEF Ends
  <1>7. Good("free", queue[c], wire[c], peer[c], c \in subs, view.last, End(buffer))
    BY <1>1 DEF Pipes
  <1>8. Good("request", queue[c], wire[c], TRUE, c \in subs, view.last, End(buffer))
    BY <1>3, <1>7 DEF Good
  <1>9. Good(server'[c], queue'[c], wire'[c], peer'[c], c \in subs', view.last, End(buffer))
    BY <1>1, <1>2, <1>4, <1>8
  <1>10. Pipes'  BY <1>1, <1>2, <1>4, <1>9, OneConn
  <1> QED  BY <1>5, <1>6, <1>10

\* The app hangs up on a connection whose thread has nothing more to send.
LEMMA HangUpPipe ==
  ASSUME PipeInv, reader = "reading", server[dialed] \in {"free", "awaiting"},
         NEW next \in {"idle", "dead"}, HangUp(next),
         UNCHANGED <<buffer, alive, eof, server, subs, queue, view>>
  PROVE  PipeInv'
  <1> USE DEF PipeInv
  <1>1. PICK c \in Conns : dialed = c /\ \A d \in Conns : peer[d] <=> d = c  BY DEF Ends
  <1>2. /\ reader' = next /\ dialed' = NoConn
        /\ peer' = [peer EXCEPT ![c] = FALSE] /\ wire' = [wire EXCEPT ![c] = <<>>]
    BY <1>1 DEF HangUp
  <1>3. <<>> \in Seq(Spans) /\ Len(<<>>) = 0 /\ <<>> \o <<>> = <<>>  OBVIOUS
  <1>4. wire \in [Conns -> Seq(Spans)] /\ peer \in [Conns -> BOOLEAN]  BY DEF Ends
  <1>5. /\ wire' \in [Conns -> Seq(Spans)] /\ wire'[c] = <<>>
        /\ \A d \in Conns \ {c} : wire'[d] = wire[d]
    BY <1>2, <1>3, <1>4
  <1>6. /\ peer' \in [Conns -> BOOLEAN] /\ peer'[c] = FALSE
        /\ \A d \in Conns \ {c} : peer'[d] = peer[d]
    BY <1>2, <1>4
  <1>7. \A d \in Conns : ~peer'[d]  BY <1>1, <1>6
  <1>8. Windows'  BY WindowsStay
  <1>9. Ends'  BY <1>2, <1>5, <1>6, <1>7 DEF Ends
  <1>10. Good(server[c], queue[c], wire[c], peer[c], c \in subs, view.last, End(buffer))
    BY DEF Pipes
  <1>11. queue[c] = <<>> /\ (c \in subs) = FALSE  BY <1>1, <1>10 DEF Good
  <1>12. Good(server[c], <<>>, <<>>, FALSE, FALSE, view.last, End(buffer))
    BY <1>1, <1>3 DEF Good, Chain
  <1>13. Good(server'[c], queue'[c], wire'[c], peer'[c], c \in subs', view.last, End(buffer))
    BY <1>5, <1>6, <1>11, <1>12
  <1>14. Pipes'  BY <1>5, <1>6, <1>13, OneConn
  <1> QED  BY <1>8, <1>9, <1>14

LEMMA EofPipe == PipeInv /\ ReadEof => PipeInv'
  <1> SUFFICES ASSUME PipeInv, ReadEof PROVE PipeInv'  OBVIOUS
  <1>1. /\ reader = "reading" /\ server[dialed] = "free" /\ HangUp("idle")
        /\ UNCHANGED <<buffer, alive, eof, server, subs, queue, view>>
    BY DEF ReadEof, daemonVars
  <1> QED  BY <1>1, HangUpPipe

LEMMA CoreStaysPipe ==
  PipeInv /\ UNCHANGED <<buffer, alive, eof, server, subs, queue, wire, peer,
                         reader, dialed, view>> => PipeInv'
  <1> SUFFICES ASSUME PipeInv, UNCHANGED <<buffer, alive, eof, server, subs, queue, wire, peer,
                                           reader, dialed, view>>
               PROVE  PipeInv'
    OBVIOUS
  <1>1. Windows'  BY WindowsStay DEF PipeInv
  <1>2. Ends'  BY DEF PipeInv, Ends
  <1>3. Pipes'  BY DEF PipeInv, Pipes, End
  <1> QED  BY <1>1, <1>2, <1>3 DEF PipeInv

\* A connection the app does not have open is a chain for whatever it applied.
LEMMA ClosedIsGood ==
  ASSUME NEW step, NEW q, NEW w, NEW live, NEW last, NEW end, NEW next,
         Good(step, q, w, FALSE, live, last, end)
  PROVE  Good(step, q, w, FALSE, live, next, end)
  <1>1. q = <<>> /\ w = <<>> /\ ~live  BY DEF Good
  <1>2. <<>> \o <<>> = <<>> /\ Len(<<>>) = 0  OBVIOUS
  <1>3. Chain(<<>>, next)  BY <1>2 DEF Chain
  <1> QED  BY <1>1, <1>2, <1>3 DEF Good

\* What the app's reader has before it.
LEMMA AtHand ==
  ASSUME PipeInv, reader = "reading", wire[dialed] # <<>>
  PROVE  /\ dialed \in Conns /\ peer[dialed] = TRUE
         /\ \A d \in Conns \ {dialed} : peer[d] = FALSE
         /\ wire[dialed] \in Seq(Spans) /\ Head(wire[dialed]) \in Spans
         /\ Good(server[dialed], queue[dialed], wire[dialed], TRUE, dialed \in subs,
                 view.last, End(buffer))
         /\ Head(wire[dialed]).kind = "delta" => Contiguous(Head(wire[dialed]))
         /\ Head(wire[dialed]).kind \in Last => server[dialed] \in {"free", "awaiting"}
  <1> DEFINE w == wire[dialed]
             q == queue[dialed]
             p == w \o q
  <1> USE DEF PipeInv
  <1>1. /\ dialed \in Conns /\ peer[dialed] = TRUE
        /\ \A d \in Conns \ {dialed} : peer[d] = FALSE
    BY DEF Ends
  <1>2. w \in Seq(Spans) /\ q \in Seq(Spans)  BY <1>1, ConnTypes
  <1>3. Good(server[dialed], q, w, TRUE, dialed \in subs, view.last, End(buffer))
    BY <1>1 DEF Pipes
  <1>4. p # <<>> /\ p[1] = w[1]  BY <1>2, PipeMoves
  <1>5. Head(w) = w[1] /\ Head(w) \in Spans /\ 1 \in 1 .. Len(w)
    BY <1>2, HeadTailProperties, EmptySeq
  <1>6. ASSUME Head(w).kind = "delta" PROVE Contiguous(Head(w))
    <2>1. Chain(p, view.last)  BY <1>3 DEF Good
    <2> HIDE DEF p
    <2>2. view.last = p[1].from  BY <1>4, <1>5, <1>6, <2>1 DEF Chain
    <2> QED  BY <1>4, <1>5, <2>2 DEF Contiguous
  <1>7. ASSUME Head(w).kind \in Last PROVE server[dialed] \in {"free", "awaiting"}
    BY <1>3, <1>5, <1>7 DEF Good
  <1> QED  BY <1>1, <1>2, <1>3, <1>5, <1>6, <1>7

\* A frame is read, and its bytes go behind those of b.
LEMMA AppliesPipe ==
  ASSUME PipeInv, reader = "reading", wire[dialed] # <<>>, KeepReading,
         UNCHANGED <<buffer, alive, eof, server, subs, queue>>,
         NEW f, f = Head(wire[dialed]), f.kind \in Carries,
         NEW b, b.base \in Nat, Stretch(b.bytes, f.from), NEW g \in Nat,
         view' = [buf |-> Push(b, Run(f.from, f.to)), genBase |-> g, last |-> f.to]
  PROVE  PipeInv'
  <1> USE DEF PipeInv
  <1>1. PICK c : c = dialed  OBVIOUS
  <1>2. /\ c \in Conns /\ peer[c] = TRUE /\ \A d \in Conns \ {c} : peer[d] = FALSE
        /\ wire[c] \in Seq(Spans) /\ f \in Spans
        /\ Good(server[c], queue[c], wire[c], TRUE, c \in subs, view.last, End(buffer))
    BY <1>1, AtHand
  <1>3. /\ f.from \in 0 .. MaxBytes /\ f.to \in 0 .. MaxBytes /\ f.from <= f.to
        /\ f.from \in Nat /\ f.to \in Nat
    BY <1>2, StreamAssumption DEF Spans, Frames
  <1>4. /\ wire' = [wire EXCEPT ![c] = Tail(wire[c])]
        /\ UNCHANGED <<reader, dialed, peer>>
    BY <1>1 DEF KeepReading
  <1>5. wire \in [Conns -> Seq(Spans)] /\ Tail(wire[c]) \in Seq(Spans)
    BY <1>1, <1>2, HeadTailProperties DEF Ends
  <1>6. /\ wire' \in [Conns -> Seq(Spans)] /\ wire'[c] = Tail(wire[c])
        /\ \A d \in Conns \ {c} : wire'[d] = wire[d]
    BY <1>2, <1>4, <1>5
  <1>7. Windows'
    <2>1. PICK v : v = Push(b, Run(f.from, f.to))  OBVIOUS
    <2>2. /\ Stretch(v.bytes, f.to) /\ Len(v.bytes) <= RetainCap + RetainCap \div 2
          /\ v.base \in Nat
      BY <1>3, <2>1, PushIs
    <2>3. view' = [buf |-> v, genBase |-> g, last |-> f.to]  BY <2>1
    <2>4. view'.buf = v /\ view'.genBase = g /\ view'.last = f.to  BY <2>3
    <2>5. /\ view' = [buf |-> view'.buf, genBase |-> view'.genBase, last |-> view'.last]
          /\ view'.genBase \in Nat /\ view'.buf.base \in Nat
          /\ Len(view'.buf.bytes) <= RetainCap + RetainCap \div 2
          /\ view'.last \in 0 .. MaxBytes /\ Stretch(view'.buf.bytes, view'.last)
      BY <1>3, <2>2, <2>3, <2>4
    <2>6. End(buffer)' = End(buffer)  BY DEF End
    <2> QED  BY <2>5, <2>6 DEF Windows
  <1>8. Ends'  BY <1>4, <1>6 DEF Ends
  <1>9. Pipes'
    <2>1. End(buffer)' = End(buffer) /\ view'.last = f.to  BY DEF End
    <2>2. PICK e, l : e = End(buffer) /\ l = view.last  OBVIOUS
    <2> SUFFICES ASSUME NEW d \in Conns
                 PROVE  Good(server[d], queue[d], wire'[d], peer[d], d \in subs, f.to, e)
      BY <1>4, <2>1, <2>2 DEF Pipes
    <2>3. CASE d = c
      <3>1. Good(server[c], queue[c], wire[c], TRUE, c \in subs, l, e)  BY <1>2, <2>2
      <3>2. queue[c] \in Seq(Spans) /\ wire[c] # <<>> /\ Head(wire[c]) = f
        BY <1>1, <1>2, ConnTypes
      <3>3. Good(server[c], queue[c], Tail(wire[c]), TRUE, c \in subs, f.to, e)
        BY <1>2, <3>1, <3>2, Reads
      <3> QED  BY <1>2, <1>6, <2>3, <3>3
    <2>4. CASE d # c
      <3>1. peer[d] = FALSE /\ wire'[d] = wire[d]  BY <1>2, <1>6, <2>4
      <3>2. Good(server[d], queue[d], wire[d], FALSE, d \in subs, l, e)
        BY <2>2, <3>1 DEF Pipes
      <3>3. Good(server[d], queue[d], wire[d], FALSE, d \in subs, f.to, e)
        BY <3>2, ClosedIsGood
      <3> QED  BY <3>1, <3>3
    <2> QED  BY <2>3, <2>4
  <1> QED  BY <1>7, <1>8, <1>9

LEMMA ReadPipe == PipeInv /\ ReadFrame => PipeInv'
  <1> SUFFICES ASSUME PipeInv, ReadFrame PROVE PipeInv'  OBVIOUS
  <1>0. PICK f : f = Head(wire[dialed])  OBVIOUS
  <1>1. /\ reader = "reading" /\ wire[dialed] # <<>>
        /\ UNCHANGED <<buffer, alive, eof, server, subs, queue>>
    BY DEF ReadFrame, daemonVars
  <1>2. /\ dialed \in Conns /\ peer[dialed] = TRUE /\ f \in Spans
        /\ wire[dialed] \in Seq(Spans)
        /\ Good(server[dialed], queue[dialed], wire[dialed], TRUE, dialed \in subs,
                view.last, End(buffer))
        /\ f.kind = "delta" => Contiguous(f)
        /\ f.kind \in Last => server[dialed] \in {"free", "awaiting"}
    BY <1>0, <1>1, AtHand
  <1>3. f.from \in Nat /\ f.to \in Nat  BY <1>2, StreamAssumption DEF Spans, Frames
  <1>4. Windows /\ Ends /\ Pipes  BY DEF PipeInv
  <1>5. Len(<<>>) = 0 /\ Stretch(<<>>, f.from)  BY <1>3 DEF Stretch
  <1>6. CASE f.kind = "streaming" /\ KeepReading /\ UNCHANGED view
    <2>1. PICK c : c = dialed  OBVIOUS
    <2>2. /\ wire' = [wire EXCEPT ![c] = Tail(wire[c])]
          /\ UNCHANGED <<reader, dialed, peer>>
      BY <1>6, <2>1 DEF KeepReading
    <2>3. wire \in [Conns -> Seq(Spans)] /\ Tail(wire[c]) \in Seq(Spans)
      BY <1>1, <1>2, <1>4, <2>1, HeadTailProperties DEF Ends
    <2>4. /\ wire' \in [Conns -> Seq(Spans)] /\ wire'[c] = Tail(wire[c])
          /\ \A d \in Conns \ {c} : wire'[d] = wire[d]
      BY <1>2, <2>1, <2>2, <2>3
    <2>5. Windows'  BY <1>1, <1>4, <1>6, WindowsStay
    <2>6. Ends'  BY <1>1, <1>4, <2>2, <2>4 DEF Ends
    <2>7. queue[c] \in Seq(Spans)  BY <1>2, <1>4, <2>1, ConnTypes
    <2>8. Good(server[c], queue[c], Tail(wire[c]), TRUE, c \in subs, view.last, End(buffer))
      BY <1>0, <1>1, <1>2, <1>6, <2>1, <2>7, Reads
    <2>9. Good(server'[c], queue'[c], wire'[c], peer'[c], c \in subs', view.last, End(buffer))
      BY <1>1, <1>2, <2>1, <2>2, <2>4, <2>8
    <2>10. Pipes'  BY <1>1, <1>2, <1>4, <1>6, <2>1, <2>2, <2>4, <2>9, OneConn
    <2> QED  BY <2>5, <2>6, <2>10 DEF PipeInv
  <1>7. CASE f.kind = "snapshot" /\ KeepReading /\ ApplySnapshot(f)
    <2>1. PICK g : g = IF view.last = Unattached THEN 0 ELSE view.genBase + End(view.buf) + 1
      OBVIOUS
    <2>2. g \in Nat
      <3>1. view.buf.bytes \in Seq(Nat)
        <4>1. <<>> \in Seq(Nat)  OBVIOUS
        <4> QED  BY <1>4, <4>1 DEF Windows, Stretch
      <3>2. Len(view.buf.bytes) \in Nat  BY <3>1
      <3>3. End(view.buf) \in Nat /\ view.genBase \in Nat  BY <1>4, <3>2 DEF Windows, End
      <3> QED  BY <2>1, <3>3
    <2>3. view' = [buf |-> Push(EmptyBuffer, Run(f.from, f.to)), genBase |-> g, last |-> f.to]
      BY <1>7, <2>1 DEF ApplySnapshot
    <2>4. EmptyBuffer.base \in Nat /\ Stretch(EmptyBuffer.bytes, f.from)
      BY <1>5 DEF EmptyBuffer
    <2>5. f.kind \in Carries  BY <1>7 DEF Carries
    <2> QED  BY <1>0, <1>1, <1>7, <2>2, <2>3, <2>4, <2>5, AppliesPipe
  <1>8. CASE f.kind = "delta" /\ Contiguous(f) /\ KeepReading /\ ApplyDeltaFrame(f)
    <2>1. view = [buf |-> view.buf, genBase |-> view.genBase, last |-> view.last]
      BY <1>4 DEF Windows
    <2>2. PICK b, g : b = view.buf /\ g = view.genBase  OBVIOUS
    <2>3. view' = [buf |-> Push(b, Run(f.from, f.to)), genBase |-> g, last |-> f.to]
      <3>1. view' = [view EXCEPT !.buf = Push(b, Run(f.from, f.to)), !.last = f.to]
        BY <1>8, <2>2 DEF ApplyDeltaFrame
      <3> QED  BY <2>1, <2>2, <3>1
    <2>4. g \in Nat /\ b.base \in Nat  BY <1>4, <2>2 DEF Windows
    <2>5. Stretch(b.bytes, f.from)
      <3>1. CASE view.last = f.from
        <4>1. view.last # Unattached  BY <1>3, <3>1 DEF Unattached
        <4> QED  BY <1>4, <2>2, <3>1, <4>1 DEF Windows
      <3>2. CASE view.last = Unattached
        <4>1. Unattached \notin 0 .. MaxBytes  BY DEF Unattached
        <4> QED  BY <1>4, <1>5, <2>2, <3>2, <4>1 DEF Windows
      <3> QED  BY <1>8, <3>1, <3>2 DEF Contiguous
    <2>6. f.kind \in Carries  BY <1>8 DEF Carries
    <2> QED  BY <1>0, <1>1, <1>8, <2>3, <2>4, <2>5, <2>6, AppliesPipe
  <1>9. CASE f.kind = "delta" /\ ~Contiguous(f)  BY <1>2, <1>9
  <1>10. ASSUME NEW next \in {"idle", "dead"}, f.kind \in Last, HangUp(next), UNCHANGED view
         PROVE  PipeInv'
    BY <1>1, <1>2, <1>10, HangUpPipe
  <1> QED  BY <1>0, <1>6, <1>7, <1>8, <1>9, <1>10 DEF ReadFrame, Last

LEMMA FanoutPipe ==
  ASSUME NEW n \in 1 .. MaxChunk PROVE PipeInv /\ PushAndFanout(n) => PipeInv'
  <1> SUFFICES ASSUME PipeInv, PushAndFanout(n) PROVE PipeInv'  OBVIOUS
  <1> USE DEF PipeInv
  <1>1. PICK from, to : from = End(buffer) /\ to = from + n  OBVIOUS
  <1>2. PICK f : f = Chunk(from, to)  OBVIOUS
  <1>3. /\ ~eof /\ to <= MaxBytes /\ buffer' = Push(buffer, Run(from, to))
        /\ queue' = [c \in Conns |-> IF c \in subs /\ ~Full(c) THEN Append(queue[c], f)
                                                              ELSE queue[c]]
        /\ subs' = {c \in subs : ~Full(c)}
        /\ UNCHANGED <<alive, eof, server, wire, peer, reader, dialed, view>>
    BY <1>1, <1>2 DEF PushAndFanout, appVars
  <1>4. /\ MaxBytes \in Nat /\ SubCapacity \in Nat /\ n \in Nat
        /\ from \in 0 .. MaxBytes /\ from \in Nat
    BY <1>1, StreamAssumption DEF Windows
  <1>5. to \in Nat /\ to \in 0 .. MaxBytes /\ from <= to /\ to - from = n
    BY <1>1, <1>3, <1>4
  <1>6. f \in Spans /\ f.kind = "delta" /\ f.from = from /\ f.to = to
    BY <1>2, <1>4, <1>5 DEF Chunk, Spans, Frames
  <1>7. /\ Stretch(buffer'.bytes, to) /\ Len(buffer'.bytes) <= RetainCap + RetainCap \div 2
        /\ buffer'.base \in Nat /\ End(buffer') = to
    <2>1. buffer.base \in Nat /\ Stretch(buffer.bytes, from)  BY <1>1 DEF Windows
    <2>2. PICK v : v = Push(buffer, Run(from, to))  OBVIOUS
    <2>3. /\ Stretch(v.bytes, to) /\ Len(v.bytes) <= RetainCap + RetainCap \div 2
          /\ v.base \in Nat /\ End(v) = End(buffer) + (to - from)
      BY <1>4, <1>5, <2>1, <2>2, PushIs
    <2> QED  BY <1>1, <1>3, <1>5, <2>2, <2>3
  <1>8. Windows'
    <2>1. End(buffer)' = End(buffer')  BY DEF End
    <2> QED  BY <1>3, <1>5, <1>7, <2>1 DEF Windows
  <1>9. \A c \in Conns : queue[c] \in Seq(Spans) /\ Len(queue[c]) <= SubCapacity  BY DEF Ends
  <1>10. ASSUME NEW c \in Conns
         PROVE  /\ queue'[c] \in Seq(Spans) /\ Len(queue'[c]) <= SubCapacity
                /\ queue'[c] = IF c \in subs /\ ~Full(c) THEN Append(queue[c], f) ELSE queue[c]
    <2>1. queue'[c] = IF c \in subs /\ ~Full(c) THEN Append(queue[c], f) ELSE queue[c]
      BY <1>3
    <2>2. /\ queue[c] \in Seq(Spans) /\ Len(queue[c]) <= SubCapacity
          /\ Append(queue[c], f) \in Seq(Spans) /\ Len(Append(queue[c], f)) = Len(queue[c]) + 1
          /\ Len(queue[c]) \in Nat
      BY <1>6, <1>9, AppendProperties
    <2>3. ~Full(c) => Len(queue[c]) # SubCapacity  BY DEF Full
    <2> QED  BY <1>4, <2>1, <2>2, <2>3
  <1>11. queue' \in [Conns -> Seq(Spans)]
    <2>1. queue' = [c \in Conns |-> queue'[c]]  BY <1>3
    <2> QED  BY <1>10, <2>1
  <1>12. Ends'  BY <1>3, <1>10, <1>11 DEF Ends
  <1>13. Pipes'
    <2>1. End(buffer)' = to  BY <1>7 DEF End
    <2>2. PICK l : l = view.last  OBVIOUS
    <2> SUFFICES ASSUME NEW c \in Conns
                 PROVE  Good(server[c], queue'[c], wire[c], peer[c], c \in subs', l, to)
      BY <1>3, <2>1, <2>2 DEF Pipes
    <2>3. Good(server[c], queue[c], wire[c], peer[c], c \in subs, l, from)
      BY <1>1, <2>2 DEF Pipes
    <2>4. CASE c \in subs /\ ~Full(c)
      <3>1. (c \in subs') = TRUE /\ (c \in subs) = TRUE /\ queue'[c] = Append(queue[c], f)
        BY <1>3, <1>10, <2>4
      <3>2. Good(server[c], queue[c], wire[c], peer[c], TRUE, l, from)  BY <2>3, <3>1
      <3>3. Good(server[c], Append(queue[c], f), wire[c], peer[c], TRUE, l, f.to)
        BY <1>6, <3>2, ConnTypes, Queues
      <3> QED  BY <1>6, <3>1, <3>3
    <2>5. CASE ~(c \in subs /\ ~Full(c))
      <3>1. (c \in subs') = FALSE /\ queue'[c] = queue[c]  BY <1>3, <1>10, <2>5
      <3>2. Good(server[c], queue[c], wire[c], peer[c], FALSE, l, to)  BY <2>3 DEF Good
      <3> QED  BY <3>1, <3>2
    <2> QED  BY <2>4, <2>5
  <1> QED  BY <1>8, <1>12, <1>13

LEMMA StepPipe == PipeInv /\ [Next]_vars => PipeInv'
  <1> SUFFICES ASSUME PipeInv, [Next]_vars PROVE PipeInv'  OBVIOUS
  <1>1. ASSUME NEW n \in 1 .. MaxChunk, PushAndFanout(n) PROVE PipeInv'
    BY <1>1, FanoutPipe
  <1>2. CASE PaneExits  BY <1>2, ExitsPipe
  <1>3. CASE CloseSubscribers  BY <1>3, ClosesPipe
  <1>4. ASSUME NEW c \in Conns, ServerStep(c) \/ ConnBreaks(c) PROVE PipeInv'
    <2>1. CASE AttachGate(c)  BY <2>1, GatePipe
    <2>2. CASE Subscribe(c)  BY <2>2, SubscribePipe
    <2>3. CASE DrainChunk(c)  BY <2>3, DrainPipe
    <2>4. CASE DrainClosed(c)  BY <2>4, ClosedPipe
    <2>5. CASE Classify(c)  BY <2>5, ClassifyPipe
    <2>6. CASE PeerGoneOrSilent(c) \/ ConnBreaks(c)  BY <2>6, EndPipe
    <2> QED  BY <1>4, <2>1, <2>2, <2>3, <2>4, <2>5, <2>6 DEF ServerStep
  <1>5. CASE ReaderStep
    <2>1. ASSUME NEW c \in Conns, Dial(c) PROVE PipeInv'  BY <2>1, DialPipe
    <2> QED  BY <1>5, <2>1, ReadPipe, EofPipe DEF ReaderStep
  <1>6. CASE ReadOutputDelta \/ ApplyReply \/ Reload \/ UNCHANGED vars
    <2>1. UNCHANGED <<buffer, alive, eof, server, subs, queue, wire, peer, reader, dialed, view>>
      BY <1>6 DEF ReadOutputDelta, ApplyReply, Reload, vars, daemonVars, appVars
    <2> QED  BY <2>1, CoreStaysPipe
  <1> QED  BY <1>1, <1>2, <1>3, <1>4, <1>5, <1>6 DEF Next

\* What is in flight to the app is a chain, and what each side retains is the
\* end of what it was given, for any number of connections.
THEOREM PipeInvHolds == Spec => []PipeInv
  <1> QED  BY InitPipe, StepPipe, PTL DEF Spec

\* StreamBuf::apply never finds a gap in a live subscription: a slow subscriber
\* is cut off at its tail, and a snapshot is taken and registered at once.
THEOREM NoGapSeen == Spec => []NoGapInLiveSub
  <1>1. PipeInv => NoGapInLiveSub  BY AtHand DEF NoGapInLiveSub
  <1> QED  BY <1>1, PipeInvHolds, PTL

\* subscribe_to registers nothing after close_all, and a thread that leaves its
\* drain loop deregisters.
THEOREM SubscribersAreServed == Spec => []RegisteredIsServed
  <1>1. ASSUME PipeInv PROVE RegisteredIsServed
    <2> SUFFICES ASSUME NEW c \in subs PROVE ~eof /\ server[c] = "streaming"
      BY DEF RegisteredIsServed
    <2>1. c \in Conns /\ ~eof  BY <1>1 DEF PipeInv, Ends
    <2>2. Good(server[c], queue[c], wire[c], peer[c], c \in subs, view.last, End(buffer))
      BY <1>1, <2>1 DEF PipeInv, Pipes
    <2> QED  BY <2>1, <2>2 DEF Good
  <1> QED  BY <1>1, PipeInvHolds, PTL

\* Nothing is lost on the way: once a registered subscription is drained and its
\* frames are read, the app has applied all that the pane wrote, and what each
\* side retains is an unbroken stretch up to where it is.
NothingLost ==
  /\ \A c \in subs : queue[c] = <<>> /\ wire[c] = <<>> => view.last = End(buffer)
  /\ Stretch(buffer.bytes, End(buffer))
  /\ view.last # Unattached => Stretch(view.buf.bytes, view.last)

\* push_and_fanout, drain_subscriptions and StreamBuf::apply lose no byte
\* between the pane and a live subscription's window.
THEOREM NothingIsLost == Spec => []NothingLost
  <1>1. ASSUME PipeInv PROVE NothingLost
    <2>1. ASSUME NEW c \in subs, queue[c] = <<>>, wire[c] = <<>>
          PROVE  view.last = End(buffer)
      <3>1. c \in Conns  BY <1>1 DEF PipeInv, Ends
      <3>2. Good(server[c], <<>>, <<>>, peer[c], TRUE, view.last, End(buffer))
        <4>1. (c \in subs) = TRUE  OBVIOUS
        <4>2. Good(server[c], queue[c], wire[c], peer[c], c \in subs, view.last, End(buffer))
          BY <1>1, <3>1 DEF PipeInv, Pipes
        <4> QED  BY <2>1, <4>1, <4>2
      <3>3. <<>> \o <<>> = <<>>  OBVIOUS
      <3> QED  BY <3>2, <3>3 DEF Good, Reaches
    <2> QED  BY <1>1, <2>1 DEF NothingLost, PipeInv, Windows
  <1> QED  BY <1>1, PipeInvHolds, PTL

-----------------------------------------------------------------------------
(* Types: what the frontend holds.                                         *)

\* The cursor never stands inside a character that has not arrived.
LEMMA HeldBackFits ==
  ASSUME NEW bytes \in Seq(Nat) PROVE HeldBack(bytes) \in 0 .. Len(bytes)
  <1> DEFINE n == Len(bytes)
             leads == {i \in 1 .. n : i > n - 4 /\ ~IsCont(bytes[i])}
             last == CHOOSE i \in leads : \A j \in leads : j <= i
             have == n - last + 1
  <1>1. n \in Nat  OBVIOUS
  <1>2. HeldBack(bytes) = IF leads = {} THEN 0
                          ELSE IF have < CharEnd(bytes[last]) - bytes[last] THEN have ELSE 0
    BY Zenon DEF HeldBack
  <1>3. leads \subseteq 1 .. n /\ \A j \in leads : j > n - 4  OBVIOUS
  <1> HIDE DEF n, leads
  <1>4. ASSUME leads # {} PROVE \E i \in leads : \A j \in leads : j <= i
    <2>1. \A j \in leads : j = n \/ j = n - 1 \/ j = n - 2 \/ j = n - 3  BY <1>1, <1>3
    <2>2. CASE n \in leads  BY <1>1, <1>3, <2>2
    <2>3. CASE n \notin leads /\ n - 1 \in leads  BY <1>1, <1>3, <2>1, <2>3
    <2>4. CASE n \notin leads /\ n - 1 \notin leads /\ n - 2 \in leads
      BY <1>1, <1>3, <2>1, <2>4
    <2>5. CASE n \notin leads /\ n - 1 \notin leads /\ n - 2 \notin leads
      <3>1. \A j \in leads : j = n - 3  BY <2>1, <2>5
      <3> QED  BY <1>1, <1>4, <3>1
    <2> QED  BY <2>2, <2>3, <2>4, <2>5
  <1>5. leads # {} => last \in leads  BY <1>4
  <1> HIDE DEF last
  <1>6. ASSUME leads # {} PROVE have \in 0 .. n
    <2>1. last \in 1 .. n  BY <1>3, <1>5, <1>6
    <2> QED  BY <1>1, <2>1
  <1> HIDE DEF have
  <1>7. 0 \in 0 .. n  BY <1>1
  <1> QED  BY <1>2, <1>6, <1>7 DEF n

LEMMA DeltaIs ==
  ASSUME NEW b, NEW since \in Nat, b.base \in Nat, b.bytes \in Seq(Nat)
  PROVE  Delta(b, since).start \in Nat /\ Delta(b, since).bytes \in Seq(Nat)
  <1>1. Len(b.bytes) \in Nat /\ End(b) = b.base + Len(b.bytes)  BY DEF End
  <1>2. CASE since \in b.base .. End(b)
    <2>1. since - b.base + 1 \in Int /\ since - b.base + 1 >= 1  BY <1>1, <1>2
    <2>2. \A k \in since - b.base + 1 .. Len(b.bytes) : b.bytes[k] \in Nat
      <3>1. \A k \in 1 .. Len(b.bytes) : b.bytes[k] \in Nat  OBVIOUS
      <3> QED  BY <1>1, <2>1, <3>1
    <2>3. SubSeq(b.bytes, since - b.base + 1, Len(b.bytes)) \in Seq(Nat)
      BY <1>1, <2>1, <2>2, SubSeqProperties
    <2> QED  BY <1>2, <2>3 DEF Delta
  <1>3. CASE since \notin b.base .. End(b)  BY <1>3 DEF Delta
  <1> QED  BY <1>2, <1>3

LEMMA PayloadIs ==
  ASSUME NEW since, NEW d, d.start \in Nat, d.bytes \in Seq(Nat)
  PROVE  DeltaPayload(since, d).next \in Nat
  <1>1. DeltaPayload(since, d).next = d.start + (Len(d.bytes) - HeldBack(d.bytes))
    BY DEF DeltaPayload
  <1>2. HeldBack(d.bytes) \in 0 .. Len(d.bytes) /\ Len(d.bytes) \in Nat  BY HeldBackFits
  <1> QED  BY <1>1, <1>2

\* The cursor of the terminal and of the reply in flight.
Cursors ==
  /\ term.consumed \in Nat
  /\ reply = {} \/ \E payload : reply = {payload} /\ payload.next \in Nat
  /\ breaks \in 0 .. MaxBreaks /\ reloads \in 0 .. MaxReloads

LEMMA InitCursors == Init => Cursors
  BY StreamAssumption DEF Init, Cursors, EmptyTerminal

LEMMA StepCursors == PipeInv /\ Cursors /\ [Next]_vars => Cursors'
  <1> SUFFICES ASSUME PipeInv, Cursors, [Next]_vars PROVE Cursors'  OBVIOUS
  <1>1. CASE ReadOutputDelta
    <2>1. PICK d : d = ViewDelta(term.consumed)  OBVIOUS
    <2>2. /\ view.genBase \in Nat /\ view.buf.base \in Nat /\ view.buf.bytes \in Seq(Nat)
          /\ term.consumed \in Nat
      <3>1. <<>> \in Seq(Nat)  OBVIOUS
      <3> QED  BY <3>1 DEF PipeInv, Windows, Stretch, Cursors
    <2>3. d.start \in Nat /\ d.bytes \in Seq(Nat)
      <3>1. CASE term.consumed < view.genBase
        <4>1. d = [start |-> view.genBase, bytes |-> view.buf.bytes]
          BY <2>1, <3>1 DEF ViewDelta
        <4> QED  BY <2>2, <4>1
      <3>2. CASE ~(term.consumed < view.genBase)
        <4>1. PICK e : e = Delta(view.buf, term.consumed - view.genBase)  OBVIOUS
        <4>2. term.consumed - view.genBase \in Nat  BY <2>2, <3>2
        <4>3. e.start \in Nat /\ e.bytes \in Seq(Nat)  BY <2>2, <4>1, <4>2, DeltaIs
        <4>4. d = [start |-> view.genBase + e.start, bytes |-> e.bytes]
          BY <2>1, <3>2, <4>1 DEF ViewDelta
        <4> QED  BY <2>2, <4>3, <4>4
      <3> QED  BY <3>1, <3>2
    <2>4. DeltaPayload(term.consumed, d).next \in Nat  BY <2>3, PayloadIs
    <2>5. reply' = {DeltaPayload(term.consumed, d)} /\ UNCHANGED <<term, breaks, reloads>>
      BY <1>1, <2>1 DEF ReadOutputDelta
    <2> QED  BY <2>4, <2>5 DEF Cursors
  <1>2. CASE ApplyReply
    <2>1. PICK payload \in reply : term' = ApplyDelta(term, payload)  BY <1>2 DEF ApplyReply
    <2>2. payload.next \in Nat  BY <2>1 DEF Cursors
    <2>3. term'.consumed = payload.next  BY <2>1 DEF ApplyDelta
    <2> QED  BY <1>2, <2>2, <2>3 DEF ApplyReply, Cursors
  <1>3. CASE Reload
    BY <1>3, StreamAssumption DEF Reload, Cursors, EmptyTerminal
  <1>4. ASSUME NEW c \in Conns, ConnBreaks(c) PROVE Cursors'
    BY <1>4, StreamAssumption DEF ConnBreaks, EndConn, uiVars, Cursors
  <1>5. ASSUME UNCHANGED <<term, reply, breaks, reloads>> PROVE Cursors'
    BY <1>5 DEF Cursors
  <1>6. ASSUME NEW n \in 1 .. MaxChunk, PushAndFanout(n) PROVE Cursors'
    BY <1>5, <1>6 DEF PushAndFanout, uiVars
  <1>7. ASSUME NEW c \in Conns, ServerStep(c) PROVE Cursors'
    BY <1>5, <1>7 DEF ServerStep, AttachGate, Subscribe, DrainChunk, DrainClosed, Classify,
       PeerGoneOrSilent, EndConn, uiVars
  <1>8. CASE ReaderStep
    BY <1>5, <1>8 DEF ReaderStep, Dial, ReadFrame, ReadEof, uiVars
  <1>9. CASE PaneExits \/ CloseSubscribers \/ UNCHANGED vars
    BY <1>5, <1>9 DEF PaneExits, CloseSubscribers, vars, uiVars
  <1> QED  BY <1>1, <1>2, <1>3, <1>4, <1>6, <1>7, <1>8, <1>9 DEF Next

\* Every variable keeps its type, no queue exceeds its channel, and neither
\* buffer the cap with the slack that compaction leaves.
THEOREM StreamTypesHold == Spec => []StreamTypeOK
  <1>1. ASSUME PipeInv, Cursors PROVE StreamTypeOK
    <2>1. /\ MaxBytes \in Nat /\ buffer.base \in Nat /\ Len(buffer.bytes) \in Nat
          /\ End(buffer) \in 0 .. MaxBytes /\ End(buffer) = buffer.base + Len(buffer.bytes)
      BY <1>1, StreamAssumption DEF PipeInv, Windows, Stretch, End
    <2>2. buffer.base \in 0 .. MaxBytes  BY <2>1
    <2>3. Cardinality(reply) <= 1
      <3>1. CASE reply = {}  BY <3>1, FS_EmptySet
      <3>2. ASSUME NEW payload, reply = {payload} PROVE Cardinality(reply) <= 1
        <4>1. Cardinality({payload}) = 1  BY FS_Singleton
        <4> QED  BY <3>2, <4>1
      <3> QED  BY <1>1, <3>1, <3>2 DEF Cursors
    <2>4. ASSUME NEW c \in Conns
          PROVE  /\ queue[c] \in Seq(Frames) /\ Len(queue[c]) <= SubCapacity
                 /\ wire[c] \in Seq(Frames)
      <3>1. Spans \subseteq Frames  BY DEF Spans
      <3>2. /\ queue[c] \in Seq(Spans) /\ Len(queue[c]) <= SubCapacity
            /\ wire[c] \in Seq(Spans)
        BY <1>1 DEF PipeInv, Ends
      <3>3. \A s \in Seq(Spans) : s \in Seq(Frames)
        <4> SUFFICES ASSUME NEW s \in Seq(Spans) PROVE s \in Seq(Frames)  OBVIOUS
        <4>1. s \in [1 .. Len(s) -> Spans] /\ Len(s) \in Nat  OBVIOUS
        <4>2. s \in [1 .. Len(s) -> Frames]  BY <3>1, <4>1
        <4> QED  BY <4>1, <4>2
      <3> QED  BY <3>2, <3>3
    <2>5. view.last \in 0 .. MaxBytes \cup {Unattached}  BY <1>1 DEF PipeInv, Windows
    <2>6. reader \in {"idle", "reading", "dead"}  BY <1>1 DEF PipeInv, Ends
    <2> QED  BY <1>1, <2>2, <2>3, <2>4, <2>5, <2>6
             DEF StreamTypeOK, PipeInv, Windows, Ends, Steps, Cursors
  <1>2. Init => PipeInv /\ Cursors  BY InitPipe, InitCursors
  <1>3. PipeInv /\ Cursors /\ [Next]_vars => (PipeInv /\ Cursors)'
    BY StepPipe, StepCursors
  <1> QED  BY <1>1, <1>2, <1>3, PTL DEF Spec
-----------------------------------------------------------------------------
(* Characters.                                                             *)

\* Below a bound some character is the last to begin.
LEMMA LastLead ==
  ASSUME NEW lo \in Leads, NEW y \in Nat, lo <= y
  PROVE  \E m \in Leads : lo <= m /\ m <= y /\ \A x \in Leads : x <= y => x <= m
  <1> DEFINE R == OpToRel(<, Nat)
             T == {y - x : x \in {z \in Leads : z <= y}}
  <1>1. Leads \subseteq Nat  BY BufferAssumption
  <1>2. IsWellFoundedOn(R, Nat)  BY NatLessThanWellFounded
  <1> HIDE DEF R, T
  <1>3. T \subseteq Nat /\ T # {}  BY <1>1 DEF T
  <1>4. PICK t \in T : \A u \in T : <<u, t>> \notin R  BY <1>2, <1>3, WFMin
  <1>5. \A u \in T : ~(u < t)  BY <1>3, <1>4 DEF R, OpToRel
  <1>6. PICK m \in Leads : m <= y /\ t = y - m  BY DEF T
  <1>7. ASSUME NEW x \in Leads, x <= y PROVE x <= m
    <2>1. y - x \in T  BY <1>7 DEF T
    <2>2. ~(y - x < y - m)  BY <1>5, <1>6, <2>1
    <2> QED  BY <1>1, <2>2
  <1> QED  BY <1>6, <1>7

\* And after a place some character is the first to begin.
LEMMA FirstLead ==
  ASSUME NEW y \in Nat, NEW z \in Leads, y < z
  PROVE  \E m \in Leads : y < m /\ \A x \in Leads : y < x => m <= x
  <1> DEFINE R == OpToRel(<, Nat)
             T == {x \in Leads : y < x}
  <1>1. Leads \subseteq Nat  BY BufferAssumption
  <1>2. IsWellFoundedOn(R, Nat)  BY NatLessThanWellFounded
  <1> HIDE DEF R, T
  <1>3. T \subseteq Nat /\ T # {}  BY <1>1 DEF T
  <1>4. PICK m \in T : \A x \in T : <<x, m>> \notin R  BY <1>2, <1>3, WFMin
  <1>5. \A x \in T : ~(x < m)  BY <1>3, <1>4 DEF R, OpToRel
  <1>6. m \in Leads /\ y < m  BY DEF T
  <1>7. ASSUME NEW x \in Leads, y < x PROVE m <= x
    <2>1. x \in T  BY <1>7 DEF T
    <2> QED  BY <1>1, <1>5, <1>6, <2>1
  <1> QED  BY <1>6, <1>7

\* A character ends where the next begins.
LEMMA CharEndIs ==
  ASSUME NEW lead \in Leads, lead < MaxBytes
  PROVE  /\ CharEnd(lead) \in Leads /\ CharEnd(lead) \in lead + 1 .. lead + 4
         /\ \A x \in Leads : lead < x => CharEnd(lead) <= x
  <1> DEFINE EndsAt(e) == e \in Leads /\ \A x \in lead + 1 .. e - 1 : IsCont(x)
  <1>1. Leads \subseteq Nat /\ lead \in Nat  BY BufferAssumption
  <1>2. PICK z \in lead + 1 .. lead + 4 : z \in Leads  BY StreamAssumption
  <1>3. lead < z  BY <1>1, <1>2
  <1>4. PICK m \in Leads : lead < m /\ \A x \in Leads : lead < x => m <= x
    BY <1>1, <1>2, <1>3, FirstLead
  <1>5. m \in lead + 1 .. lead + 4 /\ EndsAt(m)
    <2>1. m <= z  BY <1>2, <1>3, <1>4
    <2>2. ASSUME NEW x \in lead + 1 .. m - 1 PROVE IsCont(x)
      <3>1. lead < x /\ ~(m <= x)  BY <1>1, <1>4
      <3> QED  BY <1>4, <3>1 DEF IsCont
    <2> QED  BY <1>1, <1>2, <1>4, <2>1, <2>2
  <1>6. CharEnd(lead) = CHOOSE e \in lead + 1 .. lead + 4 : EndsAt(e)  BY Zenon DEF CharEnd
  <1>7. CharEnd(lead) \in lead + 1 .. lead + 4 /\ EndsAt(CharEnd(lead))
    <2> HIDE DEF EndsAt
    <2> QED  BY <1>5, <1>6
  <1>8. CharEnd(lead) = m
    <2>1. m <= CharEnd(lead)  BY <1>1, <1>4, <1>7
    <2>2. ~(m \in lead + 1 .. CharEnd(lead) - 1)  BY <1>4, <1>7 DEF IsCont
    <2> QED  BY <1>1, <1>4, <1>5, <1>7, <2>1, <2>2
  <1> QED  BY <1>4, <1>5, <1>8

\* No four bytes in a row are continuation bytes.
LEMMA NextLead ==
  ASSUME NEW lo \in Leads, NEW y \in Nat, lo <= y, y < MaxBytes
  PROVE  \E e \in Leads : y < e /\ e <= y + 4
  <1>1. PICK m \in Leads : m <= y /\ \A x \in Leads : x <= y => x <= m  BY LastLead
  <1>2. Leads \subseteq Nat /\ MaxBytes \in Nat  BY BufferAssumption, StreamAssumption
  <1>3. m < MaxBytes  BY <1>1, <1>2
  <1>4. PICK e \in m + 1 .. m + 4 : e \in Leads  BY <1>3, StreamAssumption
  <1>5. y < e /\ e <= y + 4  BY <1>1, <1>2, <1>4
  <1> QED  BY <1>4, <1>5

\* Compaction stops where a character begins.
LEMMA CutOnLead ==
  ASSUME NEW bytes, NEW hi \in 0 .. MaxBytes, Stretch(bytes, hi), hi - Len(bytes) \in Leads,
         Len(bytes) > RetainCap + RetainCap \div 2
  PROVE  hi - Len(bytes) + Cut(bytes) \in Leads
  <1> DEFINE n == Len(bytes)
             over == n - RetainCap
             StopsAt(k) == k = 3 \/ over + k = Len(bytes) \/ ~IsCont(bytes[over + k + 1])
             First(k) == StopsAt(k) /\ \A j \in 0 .. k - 1 : ~StopsAt(j)
             k0 == CHOOSE k \in 0 .. 3 : First(k)
  <1>1. /\ RetainCap \in Nat /\ RetainCap >= 4 /\ MaxBytes \in Nat /\ hi \in Nat
        /\ bytes \in Seq(Nat) /\ n \in Nat /\ n <= hi
    BY BufferAssumption, StreamAssumption DEF Stretch
  <1>2. over \in Nat /\ over >= 1
    <2>1. RetainCap \div 2 \in Nat  BY <1>1
    <2> QED  BY <1>1, <2>1
  <1>3. \A i \in 1 .. n : bytes[i] = hi - n + i - 1  BY DEF Stretch
  <1>4. \A j \in 0 .. 3 : over + j + 1 \in 1 .. n /\ over + j # n  BY <1>1, <1>2
  <1>5. \A j \in 0 .. 3 : bytes[over + j + 1] = hi - n + over + j
    <2> SUFFICES ASSUME NEW j \in 0 .. 3 PROVE bytes[over + j + 1] = hi - n + over + j
      OBVIOUS
    <2>1. PICK i : i = over + j + 1  OBVIOUS
    <2>2. PICK m, o : m = n /\ o = over  OBVIOUS
    <2>3. i \in 1 .. n /\ i = o + j + 1  BY <1>4, <2>1, <2>2
    <2>4. bytes[i] = hi - m + i - 1  BY <1>3, <2>2, <2>3
    <2>5. m \in Nat /\ o \in Nat  BY <1>1, <1>2, <2>2
    <2>6. hi - m + i - 1 = hi - m + o + j  BY <1>1, <2>3, <2>5
    <2> QED  BY <2>1, <2>2, <2>4, <2>6
  <1>6. Cut(bytes) = over + k0  BY Zenon DEF Cut
  <1>7. \A j \in 0 .. 3 : StopsAt(j) <=> j = 3 \/ hi - n + over + j \in Leads
    BY <1>4, <1>5 DEF IsCont
  <1>8. PICK j \in 0 .. 3 : hi - n + over + j \in Leads
    <2>1. PICK y : y = hi - n + over - 1  OBVIOUS
    <2>2. y \in Nat /\ hi - n <= y /\ y < MaxBytes  BY <1>1, <1>2, <2>1
    <2>3. PICK e \in Leads : y < e /\ e <= y + 4  BY <2>2, NextLead
    <2>4. e \in Nat  BY BufferAssumption
    <2>5. e - (hi - n + over) \in 0 .. 3 /\ hi - n + over + (e - (hi - n + over)) = e
      BY <1>1, <1>2, <2>1, <2>3, <2>4
    <2> QED  BY <2>5
  <1> HIDE DEF n, over, StopsAt
  <1>9. \E k \in 0 .. 3 : First(k)
    <2>1. CASE StopsAt(0)
      <3>1. 0 \in 0 .. 3 /\ 0 .. 0 - 1 = {}  OBVIOUS
      <3> QED  BY <2>1, <3>1
    <2>2. CASE ~StopsAt(0) /\ StopsAt(1)
      <3>1. \A i \in 0 .. 1 - 1 : ~StopsAt(i)  BY <2>2
      <3> QED  BY <2>2, <3>1
    <2>3. CASE ~StopsAt(0) /\ ~StopsAt(1) /\ StopsAt(2)
      <3>1. \A i \in 0 .. 2 - 1 : i = 0 \/ i = 1  OBVIOUS
      <3>2. \A i \in 0 .. 2 - 1 : ~StopsAt(i)  BY <2>3, <3>1
      <3> QED  BY <2>3, <3>2
    <2>4. CASE ~StopsAt(0) /\ ~StopsAt(1) /\ ~StopsAt(2)
      <3>1. \A i \in 0 .. 3 - 1 : i = 0 \/ i = 1 \/ i = 2  OBVIOUS
      <3>2. \A i \in 0 .. 3 - 1 : ~StopsAt(i)  BY <2>4, <3>1
      <3>3. StopsAt(3)  BY <1>7
      <3> QED  BY <3>2, <3>3
    <2> QED  BY <2>1, <2>2, <2>3, <2>4
  <1>10. k0 \in 0 .. 3 /\ StopsAt(k0) /\ \A i \in 0 .. k0 - 1 : ~StopsAt(i)
    <2>1. k0 \in 0 .. 3 /\ First(k0)
      <3> HIDE DEF First
      <3> QED  BY <1>9
    <2> QED  BY <2>1
  <1> HIDE DEF k0
  <1>11. hi - n + over + k0 \in Leads
    <2>1. CASE k0 < j
      <3>1. k0 # 3  BY <2>1
      <3> QED  BY <1>7, <1>10, <3>1
    <2>2. CASE ~(k0 < j)
      <3>1. StopsAt(j)  BY <1>7, <1>8
      <3>2. ~(j \in 0 .. k0 - 1)  BY <1>10, <3>1
      <3>3. k0 = j  BY <1>10, <2>2, <3>2
      <3> QED  BY <1>8, <3>3
    <2> QED  BY <2>1, <2>2
  <1>12. hi - n + (over + k0) = hi - n + over + k0  BY <1>1, <1>2, <1>10
  <1> QED  BY <1>6, <1>11, <1>12 DEF n

\* What a buffer retains begins with a character, before a push and after it.
LEMMA PushOnLead ==
  ASSUME NEW b, NEW from \in Nat, NEW to \in 0 .. MaxBytes, from <= to,
         Stretch(b.bytes, from), from - Len(b.bytes) \in Leads
  PROVE  to - Len(Push(b, Run(from, to)).bytes) \in Leads
  <1> DEFINE n == Len(b.bytes)
             bytes == b.bytes \o Run(from, to)
             cut == IF Len(bytes) > RetainCap + RetainCap \div 2 THEN Cut(bytes) ELSE 0
             kept == SubSeq(bytes, cut + 1, Len(bytes))
  <1>0. to \in Nat  BY StreamAssumption
  <1>1. Stretch(Run(from, to), to) /\ Len(Run(from, to)) = to - from  BY <1>0, RunIs
  <1>2. Stretch(bytes, to) /\ Len(bytes) = n + (to - from)
    <2>1. to - (to - from) = from  BY <1>0
    <2> QED  BY <1>0, <1>1, <2>1, Joined
  <1>3. n \in Nat /\ bytes \in Seq(Nat) /\ Len(bytes) \in Nat  BY <1>2 DEF Stretch
  <1>4. Push(b, Run(from, to)).bytes = kept  BY DEF Push
  <1> HIDE DEF bytes, n
  <1>5. to - Len(bytes) \in Leads
    <2>1. to - Len(bytes) = from - n  BY <1>0, <1>2, <1>3
    <2> QED  BY <2>1 DEF n
  <1>6. cut \in 0 .. Len(bytes) /\ to - Len(bytes) + cut \in Leads
    <2>1. CASE Len(bytes) > RetainCap + RetainCap \div 2
      <3>1. cut = Cut(bytes)  BY <2>1
      <3>2. cut \in Len(bytes) - RetainCap .. Len(bytes)  BY <1>3, <2>1, <3>1, CutFits
      <3>3. to - Len(bytes) + Cut(bytes) \in Leads  BY <1>2, <1>5, <2>1, CutOnLead
      <3>4. RetainCap \in Nat /\ RetainCap \div 2 \in Nat
        <4>1. RetainCap \in Nat  BY BufferAssumption
        <4> QED  BY <4>1
      <3> HIDE DEF cut
      <3>5. cut \in 0 .. Len(bytes)  BY <1>3, <2>1, <3>2, <3>4
      <3> QED  BY <3>1, <3>3, <3>5
    <2>2. CASE ~(Len(bytes) > RetainCap + RetainCap \div 2)
      <3>1. cut = 0  BY <2>2
      <3>2. to - Len(bytes) + 0 = to - Len(bytes)  BY <1>0, <1>3
      <3> HIDE DEF cut
      <3> QED  BY <1>3, <1>5, <3>1, <3>2
    <2> QED  BY <2>1, <2>2
  <1> HIDE DEF cut
  <1>7. Len(kept) = Len(bytes) - cut  BY <1>0, <1>2, <1>6, CutShort
  <1> HIDE DEF kept
  <1>8. to - Len(kept) = to - Len(bytes) + cut  BY <1>0, <1>3, <1>6, <1>7
  <1> QED  BY <1>4, <1>6, <1>8

\* The bytes held back are those of a character that is not all there.
LEMMA HoldsAtLead ==
  ASSUME NEW bytes, NEW hi \in 0 .. MaxBytes, Stretch(bytes, hi), hi - Len(bytes) \in Leads
  PROVE  /\ hi - HeldBack(bytes) \in Leads
         /\ \A x \in Leads : x <= hi => x <= hi - HeldBack(bytes)
  <1> DEFINE n == Len(bytes)
             leads == {i \in 1 .. n : i > n - 4 /\ ~IsCont(bytes[i])}
             last == CHOOSE i \in leads : \A j \in leads : j <= i
             have == n - last + 1
  <1>1. /\ hi \in Nat /\ bytes \in Seq(Nat) /\ n \in Nat /\ n <= hi /\ MaxBytes \in Nat
        /\ Leads \subseteq Nat /\ hi <= MaxBytes
    BY BufferAssumption, StreamAssumption DEF Stretch
  <1>2. HeldBack(bytes) = IF leads = {} THEN 0
                          ELSE IF have < CharEnd(bytes[last]) - bytes[last] THEN have ELSE 0
    BY Zenon DEF HeldBack
  <1>3. \A i \in 1 .. n : bytes[i] = hi - n + i - 1  BY DEF Stretch
  <1>4. \A i \in 1 .. n : i \in leads <=> i > n - 4 /\ hi - n + i - 1 \in Leads
    BY <1>3 DEF IsCont
  <1>5. leads \subseteq 1 .. n  OBVIOUS
  <1> HIDE DEF leads, n
  <1>6. CASE n = 0
    <2>1. leads = {}  BY <1>5, <1>6
    <2>2. HeldBack(bytes) = 0 /\ hi - 0 = hi /\ hi - n = hi  BY <1>1, <1>2, <1>6, <2>1
    <2> QED  BY <2>2 DEF n
  <1>7. CASE n # 0
    <2>1. PICK c \in Leads : hi - n <= c /\ c <= hi - 1 /\ \A x \in Leads : x <= hi - 1 => x <= c
      <3>1. PICK y : y = hi - 1  OBVIOUS
      <3>2. y \in Nat /\ hi - n <= y  BY <1>1, <1>7, <3>1
      <3> QED  BY <3>1, <3>2, LastLead DEF n
    <2>2. c \in Nat /\ c < hi /\ c < MaxBytes  BY <1>1, <2>1
    <2>3. /\ CharEnd(c) \in Leads /\ CharEnd(c) \in c + 1 .. c + 4
          /\ \A x \in Leads : c < x => CharEnd(c) <= x
      BY <2>2, CharEndIs
    <2>4. PICK e : e = CharEnd(c)  OBVIOUS
    <2>5. e \in Nat /\ hi <= e /\ e <= c + 4
      <3>1. e \in Nat /\ c < e /\ e <= c + 4  BY <1>1, <2>2, <2>3, <2>4
      <3>2. ~(e <= hi - 1)  BY <2>1, <2>2, <2>3, <2>4, <3>1
      <3> QED  BY <1>1, <3>1, <3>2
    <2>6. PICK i : i = c - hi + n + 1  OBVIOUS
    <2>7. i \in 1 .. n /\ i > n - 4 /\ hi - n + i - 1 = c /\ n - i + 1 = hi - c
      BY <1>1, <2>1, <2>2, <2>5, <2>6
    <2>8. i \in leads /\ bytes[i] = c  BY <1>3, <1>4, <2>7
    <2>9. \A j \in leads : j <= i
      <3> SUFFICES ASSUME NEW j \in leads PROVE j <= i  OBVIOUS
      <3>1. j \in 1 .. n /\ hi - n + j - 1 \in Leads  BY <1>4, <1>5
      <3>2. hi - n + j - 1 <= hi - 1  BY <1>1, <3>1
      <3>3. hi - n + j - 1 <= c  BY <2>1, <3>1, <3>2
      <3> QED  BY <1>1, <2>2, <2>6, <3>1, <3>3
    <2>10. last = i
      <3>1. last \in leads /\ \A j \in leads : j <= last  BY <2>8, <2>9
      <3> HIDE DEF last
      <3>2. last \in 1 .. n /\ last <= i /\ i <= last  BY <1>5, <2>8, <2>9, <3>1
      <3> QED  BY <1>1, <2>7, <3>2
    <2>11. have = hi - c /\ bytes[last] = c  BY <2>7, <2>8, <2>10
    <2> HIDE DEF last, have
    <2>12. HeldBack(bytes) = IF hi - c < e - c THEN hi - c ELSE 0
      BY <1>2, <2>4, <2>8, <2>11
    <2>13. CASE hi = e
      <3>1. HeldBack(bytes) = 0 /\ hi - 0 = hi  BY <1>1, <2>2, <2>12, <2>13
      <3> QED  BY <2>3, <2>4, <2>13, <3>1
    <2>14. CASE hi < e
      <3>1. HeldBack(bytes) = hi - c /\ hi - (hi - c) = c  BY <1>1, <2>2, <2>5, <2>12, <2>14
      <3>2. ASSUME NEW x \in Leads, x <= hi PROVE x <= c
        <4>1. x # hi  BY <1>1, <2>2, <2>3, <2>4, <2>5, <2>14
        <4>2. x <= hi - 1  BY <1>1, <3>2, <4>1
        <4> QED  BY <2>1, <4>2
      <3> QED  BY <3>1, <3>2
    <2> QED  BY <1>1, <2>5, <2>13, <2>14
  <1> QED  BY <1>6, <1>7
-----------------------------------------------------------------------------
(* What a read of the app's buffer answers.                                *)

LEMMA StretchIsRun ==
  ASSUME NEW s, NEW hi \in Nat, Stretch(s, hi)
  PROVE  s = Run(hi - Len(s), hi)
  <1> DEFINE n == Len(s)
  <1>1. /\ s \in Seq(Nat) /\ n \in Nat /\ n <= hi
        /\ \A k \in 1 .. n : s[k] = hi - n + k - 1
    BY DEF Stretch
  <1>2. s = [k \in 1 .. n |-> s[k]]  BY <1>1
  <1> HIDE DEF n
  <1>3. hi - (hi - n) = n  BY <1>1
  <1>4. Run(hi - n, hi) = [k \in 1 .. n |-> hi - n + k - 1]  BY <1>3 DEF Run
  <1> QED  BY <1>1, <1>2, <1>4 DEF n

LEMMA RunsJoin ==
  ASSUME NEW lo \in Nat, NEW mid \in Nat, NEW hi \in Nat, lo <= mid, mid <= hi
  PROVE  Run(lo, mid) \o Run(mid, hi) = Run(lo, hi)
  <1>1. PICK s, t : s = Run(lo, mid) /\ t = Run(mid, hi)  OBVIOUS
  <1>2. Stretch(s, mid) /\ Len(s) = mid - lo  BY <1>1, RunIs
  <1>3. Stretch(t, hi) /\ Len(t) = hi - mid  BY <1>1, RunIs
  <1>4. hi - Len(t) = mid  BY <1>3
  <1>5. Stretch(s \o t, hi) /\ Len(s \o t) = Len(s) + Len(t)  BY <1>2, <1>3, <1>4, Joined
  <1>6. s \o t = Run(hi - Len(s \o t), hi)  BY <1>5, StretchIsRun
  <1>7. hi - Len(s \o t) = lo  BY <1>2, <1>3, <1>5
  <1> QED  BY <1>1, <1>6, <1>7

LEMMA RunEnds ==
  ASSUME NEW lo \in Nat, NEW hi \in Nat, lo <= hi
  PROVE  /\ Run(lo, hi) = <<>> <=> lo = hi
         /\ lo < hi => Run(lo, hi)[Len(Run(lo, hi))] + 1 = hi
  <1>1. PICK s : s = Run(lo, hi)  OBVIOUS
  <1>2. Stretch(s, hi) /\ Len(s) = hi - lo  BY <1>1, RunIs
  <1>3. s \in Seq(Nat) /\ \A k \in 1 .. Len(s) : s[k] = hi - Len(s) + k - 1
    BY <1>2 DEF Stretch
  <1>4. s = <<>> <=> lo = hi  BY <1>2, <1>3, EmptySeq
  <1>5. ASSUME lo < hi PROVE s[Len(s)] + 1 = hi
    <2>1. Len(s) \in 1 .. Len(s)  BY <1>2, <1>5
    <2>2. s[Len(s)] = hi - Len(s) + Len(s) - 1  BY <1>3, <2>1
    <2> QED  BY <1>2, <2>2
  <1> QED  BY <1>1, <1>4, <1>5

LEMMA RunPrefix ==
  ASSUME NEW s, NEW hi \in Nat, Stretch(s, hi), NEW cut \in 0 .. Len(s)
  PROVE  SubSeq(s, 1, cut) = Run(hi - Len(s), hi - Len(s) + cut)
  <1> DEFINE n == Len(s)
             u == SubSeq(s, 1, cut)
  <1>1. /\ s \in Seq(Nat) /\ n \in Nat /\ n <= hi /\ cut \in 0 .. n
        /\ \A k \in 1 .. n : s[k] = hi - n + k - 1
    BY DEF Stretch
  <1>2. u = [k \in 1 .. cut |-> s[k]]
    <2>1. u = [k \in 1 .. cut - 1 + 1 |-> s[1 + k - 1]]  BY <1>1
    <2>2. cut - 1 + 1 = cut /\ \A k \in 1 .. cut : 1 + k - 1 = k  BY <1>1
    <2> QED  BY <2>1, <2>2
  <1> HIDE DEF n, u
  <1>3. PICK lo, mid : lo = hi - n /\ mid = hi - n + cut  OBVIOUS
  <1>4. mid - lo = cut  BY <1>1, <1>3
  <1>5. Run(lo, mid) = [k \in 1 .. cut |-> lo + k - 1]  BY <1>4 DEF Run
  <1>6. \A k \in 1 .. cut : s[k] = lo + k - 1  BY <1>1, <1>3
  <1>7. u = Run(lo, mid)  BY <1>2, <1>5, <1>6
  <1> QED  BY <1>3, <1>7 DEF n, u

\* The end of the app's buffer, in the frontend's offsets.
Top == view.genBase + End(view.buf)

\* A cursor of the frontend stands at an offset of the pane's output: in the
\* app's buffer of this attach, or somewhere before it.
StandsAt(base, top, last, x, e) ==
  \/ x < base /\ e <= last
  \/ base <= x /\ x <= top /\ e = x + last - top

Stands(x, e) == StandsAt(view.genBase, Top, view.last, x, e)

\* Compaction leaves the first byte of a character in front, and the app never
\* has more than the pane wrote.
Leading ==
  /\ buffer.base \in Leads /\ view.last <= End(buffer)
  /\ view.last = Unattached => view.buf = EmptyBuffer /\ view.genBase = 0
  /\ view.last # Unattached => view.last - Len(view.buf.bytes) \in Leads

\* What is read of the app's buffer: the output from a to its end.
Slice(d, a, base, last, top) ==
  /\ d.start \in Nat /\ base <= d.start /\ Stretch(d.bytes, last)
  /\ a \in Leads /\ a = last - Len(d.bytes) /\ d.start + (last - a) = top

\* The answer that gives the output from a on, as bytes from d.start on: it
\* stops before the character that is not all there.
LEMMA AnswerOn ==
  ASSUME NEW g \in Nat, NEW t \in Nat, NEW l \in 0 .. MaxBytes, NEW since \in Nat,
         NEW a, NEW d, Slice(d, a, g, l, t),
         NEW p, p = DeltaPayload(since, d)
  PROVE  \E e \in Leads :
           /\ a <= e /\ p.data = Run(a, e) /\ p.next \in Nat /\ StandsAt(g, t, l, p.next, e)
           /\ \A x \in Leads : x <= l => x <= e
           /\ p.next = 0 => d.start = 0 /\ a = e
           /\ p.truncated <=> d.start # since
  <1>1. PICK bytes, n, h, start : /\ bytes = d.bytes /\ n = Len(bytes) /\ h = HeldBack(bytes)
                                  /\ start = d.start
    OBVIOUS
  <1>2. /\ l \in Nat /\ bytes \in Seq(Nat) /\ n \in Nat /\ a \in Nat /\ start \in Nat
        /\ Stretch(bytes, l) /\ a = l - n /\ h \in 0 .. n /\ a \in Leads
        /\ start + (l - a) = t /\ g <= start
    <2>0. /\ Stretch(bytes, l) /\ start \in Nat /\ a = l - n /\ a \in Leads
          /\ start + (l - a) = t /\ g <= start
      BY <1>1 DEF Slice
    <2>1. bytes \in Seq(Nat)  BY <2>0 DEF Stretch
    <2>2. h \in 0 .. n /\ n \in Nat  BY <1>1, <2>1, HeldBackFits
    <2>3. MaxBytes \in Nat /\ Leads \subseteq Nat  BY BufferAssumption, StreamAssumption
    <2>4. l \in Nat /\ a \in Nat  BY <2>0, <2>3
    <2> QED  BY <1>1, <2>0, <2>1, <2>2, <2>4
  <1>3. PICK e : e = l - h  OBVIOUS
  <1>4. e \in Leads /\ \A x \in Leads : x <= l => x <= e
    BY <1>1, <1>2, <1>3, HoldsAtLead
  <1>5. n - h \in 0 .. n /\ e = a + (n - h) /\ n - h = e - a /\ a <= e /\ e <= l /\ e \in Nat
    <2>1. /\ l \in Nat /\ n \in Nat /\ a \in Nat /\ a = l - n /\ h \in 0 .. n /\ e = l - h
      BY <1>2, <1>3
    <2>2. n - h \in 0 .. n  BY <2>1
    <2>3. e = a + (n - h) /\ n - h = e - a  BY <2>1
    <2>4. a <= e /\ e <= l /\ e \in Nat  BY <2>1
    <2> QED  BY <2>2, <2>3, <2>4
  <1>6. SubSeq(bytes, 1, n - h) = Run(a, e)
    <2>1. SubSeq(bytes, 1, n - h) = Run(l - n, l - n + (n - h))
      BY <1>1, <1>2, <1>5, RunPrefix
    <2> QED  BY <1>2, <1>5, <2>1
  <1>7. /\ p.next = start + (n - h) /\ p.data = SubSeq(bytes, 1, n - h)
        /\ p.truncated <=> start # since
    BY <1>1 DEF DeltaPayload
  <1>8. PICK x : x = start + (e - a)  OBVIOUS
  <1>9. /\ x \in Nat /\ (x = 0 => start = 0 /\ a = e)
        /\ g <= x /\ x <= t /\ e = x + l - t
    <2>1. /\ l \in Nat /\ a \in Nat /\ start \in Nat /\ e \in Nat /\ a <= e /\ e <= l
          /\ g <= start /\ t = start + (l - a) /\ x = start + (e - a)
      BY <1>1, <1>2, <1>5, <1>8
    <2>2. x \in Nat /\ (x = 0 => start = 0 /\ a = e)  BY <2>1
    <2>3. g <= x /\ x <= t  BY <2>1
    <2>4. e = x + l - t  BY <2>1
    <2> QED  BY <2>2, <2>3, <2>4
  <1>10. StandsAt(g, t, l, x, e)  BY <1>9 DEF StandsAt
  <1>11. p.next = x  BY <1>5, <1>7, <1>8
  <1> QED  BY <1>1, <1>4, <1>5, <1>6, <1>7, <1>9, <1>10, <1>11

\* A cursor that stands at a character, not before a buffer that has been cut.
Asked(since) ==
  /\ view.last # Unattached /\ since \in Nat /\ since <= Top
  /\ since >= view.genBase \/ view.buf.base = 0
  /\ since \in view.genBase + view.buf.base .. Top => since + view.last - Top \in Leads

\* A read begins where the cursor stands, or at the front of the buffer and
\* says so; it ends at the last whole character.
LEMMA ReadsWhole ==
  ASSUME Windows, Leading, NEW since, Asked(since),
         NEW p, p = DeltaPayload(since, ViewDelta(since))
  PROVE  \E a, e \in Leads :
           /\ a <= e /\ p.data = Run(a, e) /\ p.next \in Nat /\ Stands(p.next, e)
           /\ \A x \in Leads : x <= view.last => x <= e
           /\ p.next = 0 => a = e /\ since = 0
           /\ p.truncated \/ (since >= view.genBase /\ a = since + view.last - Top)
  <1>1. PICK g, b, s, n, l, t : /\ g = view.genBase /\ b = view.buf.base /\ s = view.buf.bytes
                                /\ n = Len(s) /\ l = view.last /\ t = Top
    OBVIOUS
  <1>2. /\ g \in Nat /\ b \in Nat /\ l \in 0 .. MaxBytes /\ Stretch(s, l) /\ MaxBytes \in Nat
        /\ Leads \subseteq Nat /\ since \in Nat
    BY <1>1, BufferAssumption, StreamAssumption DEF Windows, Asked
  <1>3. n \in Nat /\ n <= l /\ l \in Nat /\ s \in Seq(Nat)  BY <1>1, <1>2 DEF Stretch
  <1>4. t = g + (b + n) /\ End(view.buf) = b + n  BY <1>1 DEF Top, End
  <1>5. l - n \in Leads  BY <1>1 DEF Leading, Asked
  <1>6. since <= t /\ (since >= g \/ b = 0) /\ (since \in g + b .. t => since + l - t \in Leads)
    BY <1>1 DEF Asked
  <1>7. PICK d : d = ViewDelta(since)  OBVIOUS
  \* Each of the three answers of ViewDelta is the output from a on.
  <1>8. \E a \in Leads :
          /\ Slice(d, a, g, l, t)
          /\ d.start # since \/ (since >= g /\ a = since + l - t)
          /\ d.start = 0 => since = 0
    <2>1. PICK a : a = l - n  OBVIOUS
    <2>2. CASE since < g
      <3>1. ViewDelta(since) = [start |-> g, bytes |-> s]  BY <1>1, <2>2 DEF ViewDelta
      <3>2. d.start = g /\ d.bytes = s  BY <1>7, <3>1
      <3>3. b = 0 /\ g + (l - a) = t /\ g # since /\ g # 0 /\ g <= g
        BY <1>2, <1>3, <1>4, <1>6, <2>1, <2>2
      <3> QED  BY <1>1, <1>2, <1>5, <2>1, <3>2, <3>3 DEF Slice
    <2>3. CASE since >= g /\ since - g \notin b .. b + n
      <3>1. Delta(view.buf, since - g) = [start |-> b, bytes |-> s]
        BY <1>1, <1>4, <2>3 DEF Delta
      <3>2. ViewDelta(since) = [start |-> g + b, bytes |-> s]
        <4>1. ~(since < g)  BY <1>2, <2>3
        <4> QED  BY <1>1, <3>1, <4>1 DEF ViewDelta
      <3>3. d.start = g + b /\ d.bytes = s  BY <1>7, <3>2
      <3>4. g + b \in Nat /\ g <= g + b /\ g + b + (l - a) = t /\ g + b # since /\ g + b # 0
        BY <1>2, <1>3, <1>4, <1>6, <2>1, <2>3
      <3> QED  BY <1>1, <1>2, <1>5, <2>1, <3>3, <3>4 DEF Slice
    <2>4. CASE since >= g /\ since - g \in b .. b + n
      <3>1. PICK cut : cut = since - g - b  OBVIOUS
      <3>2. cut \in 0 .. n /\ since - g - b + 1 = cut + 1  BY <1>2, <1>3, <2>4, <3>1
      <3>3. PICK r : r = SubSeq(s, cut + 1, n)  OBVIOUS
      <3>4. Stretch(r, l) /\ Len(r) = n - cut  BY <1>1, <1>2, <1>3, <3>2, <3>3, CutShort
      <3>5. Delta(view.buf, since - g) = [start |-> since - g, bytes |-> r]
        BY <1>1, <1>4, <2>4, <3>2, <3>3 DEF Delta
      <3>6. ViewDelta(since) = [start |-> since, bytes |-> r]
        <4>1. g + (since - g) = since /\ ~(since < g)  BY <1>2, <2>4
        <4> QED  BY <1>1, <3>5, <4>1 DEF ViewDelta
      <3>7. d.start = since /\ d.bytes = r  BY <1>7, <3>6
      <3>8. PICK aa : aa = l - Len(r)  OBVIOUS
      <3>9. /\ aa = since + l - t /\ since \in g + b .. t /\ since + (l - aa) = t
            /\ g <= since
        <4>1. /\ g \in Nat /\ b \in Nat /\ n \in Nat /\ l \in Nat /\ t = g + (b + n)
              /\ cut = since - g - b /\ cut \in 0 .. n /\ aa = l - (n - cut) /\ since \in Nat
          BY <1>2, <1>3, <1>4, <3>1, <3>2, <3>4, <3>8
        <4>2. aa = since + l - t  BY <4>1
        <4>3. since \in g + b .. t  BY <4>1
        <4>4. since + (l - aa) = t  BY <4>1
        <4> QED  BY <2>4, <4>2, <4>3, <4>4
      <3>10. aa \in Leads  BY <1>6, <3>9
      <3> QED  BY <1>2, <2>4, <3>4, <3>7, <3>8, <3>9, <3>10 DEF Slice
    <2>5. since < g \/ since >= g  BY <1>2
    <2> QED  BY <2>2, <2>3, <2>4, <2>5
  <1>9. PICK a \in Leads :
          /\ Slice(d, a, g, l, t)
          /\ d.start # since \/ (since >= g /\ a = since + l - t)
          /\ d.start = 0 => since = 0
    BY <1>8
  <1>10. t \in Nat /\ p = DeltaPayload(since, d)  BY <1>2, <1>3, <1>4, <1>7
  <1>11. PICK e \in Leads :
           /\ a <= e /\ p.data = Run(a, e) /\ p.next \in Nat /\ StandsAt(g, t, l, p.next, e)
           /\ \A x \in Leads : x <= l => x <= e
           /\ p.next = 0 => d.start = 0 /\ a = e
           /\ p.truncated <=> d.start # since
    <2>1. /\ g \in Nat /\ t \in Nat /\ l \in 0 .. MaxBytes /\ since \in Nat
          /\ Slice(d, a, g, l, t)
      BY <1>2, <1>9, <1>10
    <2>2. p = DeltaPayload(since, d)  BY <1>10
    <2> QED  BY <2>1, <2>2, AnswerOn
  <1>12. p.truncated \/ (since >= g /\ a = since + l - t)  BY <1>9, <1>11
  <1>13. p.next = 0 => a = e /\ since = 0  BY <1>9, <1>11
  <1>14. Stands(p.next, e)  BY <1>1, <1>11 DEF Stands
  <1> QED  BY <1>1, <1>11, <1>12, <1>13, <1>14
-----------------------------------------------------------------------------
(* Frames: what a connection carries is of the pane's output, and a        *)
(* snapshot comes first, never behind what the app applied.                *)

Carried(w, q, last, end) ==
  /\ \A k \in 1 .. Len(q) : q[k].to <= end
  /\ \A k \in 1 .. Len(w) : w[k].to <= end
  /\ \A k \in 1 .. Len(w) : w[k].kind = "snapshot" =>
       w[k].from \in Leads /\ last <= w[k].to /\ \A j \in 1 .. k - 1 : w[j].kind = "streaming"

FrameInv ==
  /\ \A c \in Conns : Carried(wire[c], queue[c], view.last, End(buffer))
  /\ Leading

LEMMA CarriedNone ==
  ASSUME NEW last, NEW end PROVE Carried(<<>>, <<>>, last, end)
  <1>1. Len(<<>>) = 0  OBVIOUS
  <1> QED  BY <1>1 DEF Carried

LEMMA CarriedSend ==
  ASSUME NEW w \in Seq(Spans), NEW q, NEW last, NEW end, Carried(w, q, last, end),
         NEW f \in Spans, f.to <= end, f.kind # "snapshot"
  PROVE  Carried(w \o <<f>>, q, last, end)
  <1>1. PICK u, n : u = w \o <<f>> /\ n = Len(w)  OBVIOUS
  <1>2. /\ n \in Nat /\ Len(u) = n + 1 /\ u[n + 1] = f /\ \A k \in 1 .. n : u[k] = w[k]
    <2>1. <<f>> \in Seq(Spans) /\ Len(<<f>>) = 1 /\ <<f>>[1] = f  OBVIOUS
    <2>2. /\ Len(w \o <<f>>) = Len(w) + 1
          /\ \A k \in 1 .. Len(w) + 1 :
               (w \o <<f>>)[k] = IF k <= Len(w) THEN w[k] ELSE <<f>>[k - Len(w)]
      BY <2>1, ConcatProperties
    <2>3. n \in Nat /\ n + 1 - n = 1  BY <1>1
    <2> QED  BY <1>1, <2>1, <2>2, <2>3
  <1>3. /\ \A k \in 1 .. n : w[k].to <= end
        /\ \A k \in 1 .. n : w[k].kind = "snapshot" =>
             /\ w[k].from \in Leads /\ last <= w[k].to
             /\ \A j \in 1 .. k - 1 : w[j].kind = "streaming"
    BY <1>1 DEF Carried
  <1>4. \A k \in 1 .. n + 1 : k \in 1 .. n \/ k = n + 1  BY <1>2
  <1>5. \A k \in 1 .. n + 1 : u[k].to <= end  BY <1>2, <1>3, <1>4
  <1>6. ASSUME NEW k \in 1 .. n + 1, u[k].kind = "snapshot"
        PROVE  /\ u[k].from \in Leads /\ last <= u[k].to
               /\ \A j \in 1 .. k - 1 : u[j].kind = "streaming"
    <2>1. k \in 1 .. n  BY <1>2, <1>4, <1>6
    <2>2. u[k] = w[k] /\ \A j \in 1 .. k - 1 : j \in 1 .. n  BY <1>2, <2>1
    <2> QED  BY <1>2, <1>3, <1>6, <2>1, <2>2
  <1>7. \A k \in 1 .. Len(q) : q[k].to <= end  BY DEF Carried
  <1>8. Carried(u, q, last, end)  BY <1>2, <1>5, <1>6, <1>7 DEF Carried
  <1> QED  BY <1>1, <1>8

LEMMA CarriedDrain ==
  ASSUME NEW w \in Seq(Spans), NEW q \in Seq(Spans), NEW last, NEW end,
         Carried(w, q, last, end), q # <<>>, Head(q).kind = "delta"
  PROVE  Carried(w \o <<Head(q)>>, Tail(q), last, end)
  <1>1. /\ Head(q) \in Spans /\ Head(q) = q[1] /\ Len(q) \in Nat /\ Len(q) # 0
        /\ Len(Tail(q)) = Len(q) - 1 /\ \A k \in 1 .. Len(Tail(q)) : Tail(q)[k] = q[k + 1]
    BY HeadTailProperties, EmptySeq
  <1>2. \A k \in 1 .. Len(q) : q[k].to <= end  BY DEF Carried
  <1>3. Head(q).to <= end  BY <1>1, <1>2
  <1>4. Carried(w \o <<Head(q)>>, q, last, end)  BY <1>1, <1>3, CarriedSend
  <1>5. ASSUME NEW k \in 1 .. Len(Tail(q)) PROVE Tail(q)[k].to <= end
    <2>1. k + 1 \in 1 .. Len(q)  BY <1>1
    <2> QED  BY <1>1, <1>2, <2>1
  <1> QED  BY <1>4, <1>5 DEF Carried

LEMMA CarriedQueue ==
  ASSUME NEW w \in Seq(Spans), NEW q \in Seq(Spans), NEW last, NEW end \in Nat,
         Carried(w, q, last, end), NEW f \in Spans, end <= f.to, f.to \in Nat
  PROVE  Carried(w, q, last, f.to) /\ Carried(w, Append(q, f), last, f.to)
  <1>1. PICK to : to = f.to  OBVIOUS
  <1>2. ASSUME NEW g \in Spans, g.to <= end PROVE g.to <= to
    <2>1. g.to \in Nat  BY StreamAssumption DEF Spans, Frames
    <2> QED  BY <1>1, <1>2, <2>1
  <1>3. \A k \in 1 .. Len(q) : q[k].to <= to  BY <1>2 DEF Carried
  <1>4. \A k \in 1 .. Len(w) : w[k].to <= to  BY <1>2 DEF Carried
  <1>5. Carried(w, q, last, to)  BY <1>3, <1>4 DEF Carried
  <1>6. /\ Len(Append(q, f)) = Len(q) + 1 /\ Len(q) \in Nat
        /\ \A k \in 1 .. Len(q) : Append(q, f)[k] = q[k]
        /\ Append(q, f)[Len(q) + 1] = f
    BY AppendProperties
  <1>7. \A k \in 1 .. Len(Append(q, f)) : Append(q, f)[k].to <= to
    <2>1. \A k \in 1 .. Len(q) + 1 : k \in 1 .. Len(q) \/ k = Len(q) + 1  BY <1>6
    <2>2. f.to <= to  BY <1>1
    <2> QED  BY <1>3, <1>6, <2>1, <2>2
  <1>8. Carried(w, Append(q, f), last, to)  BY <1>5, <1>7 DEF Carried
  <1> QED  BY <1>1, <1>5, <1>8

LEMMA CarriedRead ==
  ASSUME NEW w \in Seq(Spans), NEW q, NEW last, NEW end, Carried(w, q, last, end), w # <<>>,
         NEW next, next = last \/ Head(w).kind \in Carries
  PROVE  Carried(Tail(w), q, next, end)
  <1>1. PICK u, n : u = Tail(w) /\ n = Len(w)  OBVIOUS
  <1>2. /\ Head(w) = w[1] /\ n \in Nat /\ n # 0 /\ Len(u) = n - 1
        /\ \A k \in 1 .. n - 1 : u[k] = w[k + 1]
    BY <1>1, HeadTailProperties, EmptySeq
  <1>3. /\ \A k \in 1 .. n : w[k].to <= end
        /\ \A k \in 1 .. n : w[k].kind = "snapshot" =>
             /\ w[k].from \in Leads /\ last <= w[k].to
             /\ \A j \in 1 .. k - 1 : w[j].kind = "streaming"
    BY <1>1 DEF Carried
  <1>4. \A k \in 1 .. n - 1 : k + 1 \in 1 .. n  BY <1>2
  <1>5. \A k \in 1 .. n - 1 : u[k].to <= end  BY <1>2, <1>3, <1>4
  <1>6. ASSUME NEW k \in 1 .. n - 1, u[k].kind = "snapshot"
        PROVE  /\ u[k].from \in Leads /\ next <= u[k].to
               /\ \A j \in 1 .. k - 1 : u[j].kind = "streaming"
    <2>1. /\ u[k] = w[k + 1] /\ w[k + 1].from \in Leads /\ last <= w[k + 1].to
          /\ \A j \in 1 .. k + 1 - 1 : w[j].kind = "streaming"
      BY <1>2, <1>3, <1>4, <1>6
    <2>2. 1 \in 1 .. k + 1 - 1 /\ \A j \in 1 .. k - 1 : j + 1 \in 1 .. k + 1 - 1 /\ j \in 1 .. n - 1
      BY <1>2
    <2>3. Head(w).kind = "streaming"  BY <1>2, <2>1, <2>2
    <2>4. next = last  BY <2>3 DEF Carries
    <2> QED  BY <1>2, <2>1, <2>2, <2>4
  <1>7. \A k \in 1 .. Len(q) : q[k].to <= end  BY DEF Carried
  <1>8. Carried(u, q, next, end)  BY <1>2, <1>5, <1>6, <1>7 DEF Carried
  <1> QED  BY <1>1, <1>8

LEMMA CarriedCut ==
  ASSUME NEW w, NEW q, NEW last, NEW end, Carried(w, q, last, end)
  PROVE  Carried(w, <<>>, last, end)
  <1>1. Len(<<>>) = 0  OBVIOUS
  <1> QED  BY <1>1 DEF Carried

LEMMA InitFrames == Init => FrameInv
  <1> SUFFICES ASSUME Init PROVE FrameInv  OBVIOUS
  <1>1. buffer.base = 0 /\ End(buffer) = 0 /\ buffer = EmptyBuffer
    BY DEF Init, EmptyBuffer, End
  <1>2. view.last = Unattached /\ view.buf = EmptyBuffer /\ view.genBase = 0  BY DEF Init
  <1>3. Leading  BY <1>1, <1>2, BufferAssumption DEF Leading, Unattached
  <1>4. \A c \in Conns : wire[c] = <<>> /\ queue[c] = <<>>  BY DEF Init
  <1>5. \A c \in Conns : Carried(wire[c], queue[c], view.last, End(buffer))
    BY <1>4, CarriedNone
  <1> QED  BY <1>3, <1>5 DEF FrameInv

\* The buffer and the view stay.
LEMMA FramesStay ==
  ASSUME FrameInv, UNCHANGED <<buffer, view>>,
         \A c \in Conns : Carried(wire'[c], queue'[c], view.last, End(buffer))
  PROVE  FrameInv'
  <1>1. End(buffer)' = End(buffer) /\ view'.last = view.last  BY DEF End
  <1>2. PICK l, e : l = view.last /\ e = End(buffer)  OBVIOUS
  <1>3. \A c \in Conns : Carried(wire'[c], queue'[c], l, e)  BY <1>2
  <1>4. (\A c \in Conns : Carried(wire[c], queue[c], view.last, End(buffer)))'
    BY <1>1, <1>2, <1>3
  <1>5. Leading'  BY <1>1 DEF FrameInv, Leading
  <1> QED  BY <1>4, <1>5 DEF FrameInv

\* A thread sends a frame that is not a snapshot, its queue stays.
LEMMA SendFrames ==
  ASSUME PipeInv, FrameInv, NEW c \in Conns, NEW f \in Spans, f.to = 0, f.kind # "snapshot",
         Send(c, <<f>>), UNCHANGED <<buffer, view, queue>>
  PROVE  FrameInv'
  <1>1. Ends /\ End(buffer) \in Nat  BY StreamAssumption DEF PipeInv, Windows
  <1>2. <<f>> \in Seq(Spans)  OBVIOUS
  <1>3. wire'[c] = wire[c] \o <<f>> /\ \A d \in Conns \ {c} : wire'[d] = wire[d]
    BY <1>1, <1>2, Sent
  <1> SUFFICES ASSUME NEW d \in Conns
               PROVE  Carried(wire'[d], queue'[d], view.last, End(buffer))
    BY FramesStay
  <1>4. Carried(wire[d], queue[d], view.last, End(buffer)) /\ wire[d] \in Seq(Spans)
    BY <1>1, ConnTypes DEF FrameInv
  <1>5. f.to <= End(buffer)  BY <1>1
  <1>6. Carried(wire[d] \o <<f>>, queue[d], view.last, End(buffer))
    BY <1>4, <1>5, CarriedSend
  <1> QED  BY <1>3, <1>4, <1>6

LEMMA ServerFrames ==
  ASSUME NEW c \in Conns PROVE PipeInv /\ FrameInv /\ (ServerStep(c) \/ ConnBreaks(c)) => FrameInv'
  <1> SUFFICES ASSUME PipeInv, FrameInv, ServerStep(c) \/ ConnBreaks(c) PROVE FrameInv'
    OBVIOUS
  <1>0. Ends /\ Windows  BY DEF PipeInv
  <1>1. ASSUME NEW kind \in {"refused", "died", "overflow"}, Send(c, <<Frame(kind)>>),
               UNCHANGED <<buffer, view, queue>>
        PROVE  FrameInv'
    <2>1. PICK f : f = Frame(kind)  OBVIOUS
    <2>2. f \in Spans /\ f.to = 0 /\ f.kind # "snapshot"
      <3>1. f \in Spans /\ f.kind = kind  BY <2>1, Framed
      <3>2. f.to = 0  BY <2>1 DEF Frame
      <3> QED  BY <3>1, <3>2
    <2>3. Send(c, <<f>>)  BY <1>1, <2>1
    <2> QED  BY <1>1, <2>2, <2>3, SendFrames
  <1>2. ASSUME UNCHANGED <<buffer, view, queue, wire>> PROVE FrameInv'
    <2>1. \A d \in Conns : Carried(wire[d], queue[d], view.last, End(buffer))  BY DEF FrameInv
    <2>2. \A d \in Conns : Carried(wire'[d], queue'[d], view.last, End(buffer))  BY <1>2, <2>1
    <2> QED  BY <1>2, <2>2, FramesStay
  <1>3. CASE AttachGate(c) \/ DrainClosed(c) \/ Classify(c)
    BY <1>1, <1>2, <1>3 DEF AttachGate, DrainClosed, Classify, appVars
  <1>4. CASE Subscribe(c)
    <2>1. UNCHANGED <<buffer, view, queue>>  BY <1>4 DEF Subscribe, appVars
    <2>2. CASE Send(c, <<Frame("refused")>>)  BY <1>1, <2>1, <2>2
    <2>3. CASE Send(c, <<Frame("streaming"), Snapshot(buffer)>>)
      <3>1. PICK f, g : f = Frame("streaming") /\ g = Snapshot(buffer)  OBVIOUS
      <3>2. /\ f \in Spans /\ f.kind = "streaming"
            /\ g \in Spans /\ g.kind = "snapshot" /\ g.to = End(buffer)
        BY <1>0, <3>1, Framed
      <3>3. f.to = 0 /\ g.from \in Leads /\ view.last <= g.to
        BY <3>1, <3>2 DEF Frame, Snapshot, FrameInv, Leading
      <3>4. /\ <<f, g>> \in Seq(Spans) /\ Len(<<f, g>>) = 2
            /\ <<f, g>>[1] = f /\ <<f, g>>[2] = g
        BY <3>2
      <3>5. queue[c] = <<>> /\ wire[c] = <<>>
        <4>1. server[c] = "gated"  BY <1>4 DEF Subscribe
        <4> QED  BY <4>1, NothingYet
      <3>6. wire'[c] = <<f, g>> /\ \A d \in Conns \ {c} : wire'[d] = wire[d]
        <4>1. Send(c, <<f, g>>)  BY <2>3, <3>1
        <4>2. /\ wire'[c] = wire[c] \o <<f, g>>
              /\ \A d \in Conns \ {c} : wire'[d] = wire[d]
          BY <1>0, <3>4, <4>1, Sent
        <4> QED  BY <3>4, <3>5, <4>2, PipeMoves
      <3>7. Carried(<<f, g>>, <<>>, view.last, End(buffer))
        <4>1. Len(<<>>) = 0 /\ \A k \in 1 .. 2 : k = 1 \/ k = 2  OBVIOUS
        <4>2. End(buffer) \in Nat  BY <1>0, StreamAssumption DEF Windows
        <4>3. \A k \in 1 .. 2 : <<f, g>>[k].to <= End(buffer)
          BY <3>2, <3>3, <3>4, <4>1, <4>2
        <4>4. ASSUME NEW k \in 1 .. 2, <<f, g>>[k].kind = "snapshot"
              PROVE  /\ <<f, g>>[k].from \in Leads /\ view.last <= <<f, g>>[k].to
                     /\ \A j \in 1 .. k - 1 : <<f, g>>[j].kind = "streaming"
          <5>1. k = 2  BY <3>2, <3>4, <4>1, <4>4
          <5>2. \A j \in 1 .. 2 - 1 : j = 1  OBVIOUS
          <5> QED  BY <3>2, <3>3, <3>4, <5>1, <5>2
        <4> QED  BY <3>4, <4>1, <4>3, <4>4 DEF Carried
      <3>8. \A d \in Conns : Carried(wire[d], queue[d], view.last, End(buffer))
        BY DEF FrameInv
      <3>9. \A d \in Conns : Carried(wire'[d], queue'[d], view.last, End(buffer))
        BY <2>1, <3>5, <3>6, <3>7, <3>8
      <3> QED  BY <2>1, <3>9, FramesStay
    <2> QED  BY <1>4, <2>2, <2>3 DEF Subscribe
  <1>5. CASE DrainChunk(c)
    <2>1. /\ server[c] = "streaming" /\ queue[c] # <<>>
          /\ queue' = [queue EXCEPT ![c] = Tail(queue[c])]
          /\ Send(c, <<Head(queue[c])>>) /\ UNCHANGED <<buffer, view>>
      BY <1>5 DEF DrainChunk, appVars
    <2>2. queue[c] \in Seq(Spans) /\ wire[c] \in Seq(Spans)  BY <1>0, ConnTypes
    <2>3. /\ Head(queue[c]) \in Spans /\ Head(queue[c]) = queue[c][1]
          /\ 1 \in 1 .. Len(queue[c])
      BY <2>1, <2>2, HeadTailProperties, EmptySeq
    <2>4. Head(queue[c]).kind = "delta"
      <3>1. Good(server[c], queue[c], wire[c], peer[c], c \in subs, view.last, End(buffer))
        BY DEF PipeInv, Pipes
      <3> QED  BY <2>3, <3>1 DEF Good
    <2>5. <<Head(queue[c])>> \in Seq(Spans)  BY <2>3
    <2>6. /\ wire'[c] = wire[c] \o <<Head(queue[c])>>
          /\ \A d \in Conns \ {c} : wire'[d] = wire[d]
      BY <1>0, <2>1, <2>5, Sent
    <2>7. queue'[c] = Tail(queue[c]) /\ \A d \in Conns \ {c} : queue'[d] = queue[d]
      BY <1>0, <2>1 DEF Ends
    <2>8. \A d \in Conns : Carried(wire[d], queue[d], view.last, End(buffer))  BY DEF FrameInv
    <2>9. Carried(wire'[c], queue'[c], view.last, End(buffer))
      BY <2>1, <2>2, <2>4, <2>6, <2>7, <2>8, CarriedDrain
    <2>10. \A d \in Conns : Carried(wire'[d], queue'[d], view.last, End(buffer))
      BY <2>6, <2>7, <2>8, <2>9
    <2> QED  BY <2>1, <2>10, FramesStay
  <1>6. CASE PeerGoneOrSilent(c) \/ ConnBreaks(c)
    <2>1. queue' = [queue EXCEPT ![c] = <<>>] /\ UNCHANGED <<buffer, wire, view>>
      BY <1>6 DEF PeerGoneOrSilent, ConnBreaks, EndConn, appVars
    <2>2. queue'[c] = <<>> /\ \A d \in Conns \ {c} : queue'[d] = queue[d]
      BY <1>0, <2>1 DEF Ends
    <2>3. \A d \in Conns : Carried(wire[d], queue[d], view.last, End(buffer))  BY DEF FrameInv
    <2>4. Carried(wire[c], <<>>, view.last, End(buffer))  BY <2>3, CarriedCut
    <2>5. \A d \in Conns : Carried(wire'[d], queue'[d], view.last, End(buffer))
      BY <2>1, <2>2, <2>3, <2>4
    <2> QED  BY <2>1, <2>5, FramesStay
  <1> QED  BY <1>3, <1>4, <1>5, <1>6 DEF ServerStep

LEMMA FanoutFrames ==
  ASSUME NEW n \in 1 .. MaxChunk PROVE PipeInv /\ FrameInv /\ PushAndFanout(n) => FrameInv'
  <1> SUFFICES ASSUME PipeInv, FrameInv, PushAndFanout(n) PROVE FrameInv'  OBVIOUS
  <1>0. Ends /\ Windows  BY DEF PipeInv
  <1>1. PICK from, to : from = End(buffer) /\ to = from + n  OBVIOUS
  <1>2. PICK f : f = Chunk(from, to)  OBVIOUS
  <1>3. /\ to <= MaxBytes /\ buffer' = Push(buffer, Run(from, to)) /\ UNCHANGED <<wire, view>>
        /\ queue' = [c \in Conns |-> IF c \in subs /\ ~Full(c) THEN Append(queue[c], f)
                                                              ELSE queue[c]]
    BY <1>1, <1>2 DEF PushAndFanout, appVars
  <1>4. /\ MaxBytes \in Nat /\ from \in Nat /\ to \in Nat /\ from <= to /\ to \in 0 .. MaxBytes
        /\ to - from = n /\ from \in 0 .. MaxBytes
    <2>1. MaxBytes \in Nat /\ MaxChunk \in Nat /\ from \in 0 .. MaxBytes
      BY <1>0, <1>1, StreamAssumption DEF Windows
    <2> QED  BY <1>1, <1>3, <2>1
  <1>5. f \in Spans /\ f.to = to
    BY <1>2, <1>4 DEF Chunk, Spans, Frames
  <1>6. PICK v : v = Push(buffer, Run(from, to))  OBVIOUS
  <1>7. buffer.base \in Nat /\ Stretch(buffer.bytes, from) /\ buffer.base \in Leads
    BY <1>0, <1>1 DEF Windows, FrameInv, Leading
  <1>8. Stretch(v.bytes, to) /\ v.base \in Nat /\ End(v) = to
    <2>1. /\ Stretch(v.bytes, to) /\ v.base \in Nat /\ End(v) = End(buffer) + (to - from)
      BY <1>4, <1>6, <1>7, PushIs
    <2> QED  BY <1>1, <1>4, <2>1
  <1>9. v.base \in Leads
    <2>1. from - Len(buffer.bytes) \in Leads
      <3>1. from = buffer.base + Len(buffer.bytes) /\ Len(buffer.bytes) \in Nat
        BY <1>1, <1>7 DEF End, Stretch
      <3>2. from - Len(buffer.bytes) = buffer.base  BY <1>7, <3>1
      <3> QED  BY <1>7, <3>2
    <2>2. to - Len(v.bytes) \in Leads  BY <1>4, <1>6, <1>7, <2>1, PushOnLead
    <2>3. to = v.base + Len(v.bytes) /\ Len(v.bytes) \in Nat  BY <1>8 DEF End, Stretch
    <2>4. to - Len(v.bytes) = v.base  BY <1>8, <2>3
    <2> QED  BY <2>2, <2>4
  <1>10. End(buffer)' = to /\ view'.last = view.last /\ buffer'.base = v.base
    BY <1>3, <1>6, <1>8 DEF End
  <1>11. Leading'
    <2>1. view.last <= from /\ view.last \in Int
      BY <1>0, <1>1 DEF FrameInv, Leading, Windows, Unattached
    <2>2. view.last <= to  BY <1>4, <2>1
    <2> QED  BY <1>3, <1>9, <1>10, <2>2 DEF FrameInv, Leading
  <1>12. PICK l : l = view.last  OBVIOUS
  <1>13. ASSUME NEW c \in Conns PROVE Carried(wire[c], queue'[c], l, to)
    <2>1. Carried(wire[c], queue[c], l, from)  BY <1>1, <1>12 DEF FrameInv
    <2>2. wire[c] \in Seq(Spans) /\ queue[c] \in Seq(Spans)  BY <1>0, ConnTypes
    <2>3. Carried(wire[c], queue[c], l, f.to) /\ Carried(wire[c], Append(queue[c], f), l, f.to)
      BY <1>4, <1>5, <2>1, <2>2, CarriedQueue
    <2>4. queue'[c] = Append(queue[c], f) \/ queue'[c] = queue[c]  BY <1>3
    <2> QED  BY <1>5, <2>3, <2>4
  <1>14. (\A c \in Conns : Carried(wire[c], queue[c], view.last, End(buffer)))'
    BY <1>3, <1>10, <1>12, <1>13
  <1> QED  BY <1>11, <1>14 DEF FrameInv

\* A cursor keeps its place in the output, whatever the app's reader does.
KeepsPlace ==
  view.last # Unattached =>
    view'.last # Unattached /\ \A x, e \in Nat : Stands(x, e) => Stands(x, e)'

LEMMA PlaceStays == UNCHANGED view => KeepsPlace
  BY DEF KeepsPlace, Stands, Top

\* A frame that is read and applied.
LEMMA AppliedFrames ==
  ASSUME PipeInv, FrameInv, reader = "reading", wire[dialed] # <<>>, KeepReading,
         UNCHANGED <<buffer, queue>>,
         NEW f, f = Head(wire[dialed]), f.kind \in Carries,
         NEW b, b.base \in Nat, Stretch(b.bytes, f.from), f.from - Len(b.bytes) \in Leads,
         NEW g, view' = [buf |-> Push(b, Run(f.from, f.to)), genBase |-> g, last |-> f.to]
  PROVE  FrameInv'
  <1>0. Ends /\ Windows  BY DEF PipeInv
  <1>1. PICK c : c = dialed  OBVIOUS
  <1>2. /\ c \in Conns /\ \A d \in Conns \ {c} : peer[d] = FALSE
        /\ wire[c] \in Seq(Spans) /\ f \in Spans /\ f = Head(wire[c])
    BY <1>1, AtHand
  <1>3. /\ f.from \in Nat /\ f.to \in Nat /\ f.to \in 0 .. MaxBytes /\ f.from <= f.to
    BY <1>2, StreamAssumption DEF Spans, Frames
  <1>4. PICK to, v : to = f.to /\ v = Push(b, Run(f.from, f.to))  OBVIOUS
  <1>5. view'.last = to /\ view'.buf = v  BY <1>4
  <1>6. to - Len(v.bytes) \in Leads  BY <1>3, <1>4, PushOnLead
  <1>7. to <= End(buffer)
    <2>1. f = wire[c][1] /\ 1 \in 1 .. Len(wire[c])  BY <1>1, <1>2, HeadTailProperties, EmptySeq
    <2>2. Carried(wire[c], queue[c], view.last, End(buffer))  BY <1>2 DEF FrameInv
    <2> QED  BY <1>4, <2>1, <2>2 DEF Carried
  <1>8. End(buffer)' = End(buffer)  BY DEF End
  <1>9. Leading'
    <2>1. to # Unattached  BY <1>3, <1>4 DEF Unattached
    <2> QED  BY <1>5, <1>6, <1>7, <1>8, <2>1 DEF FrameInv, Leading
  <1>10. PICK e : e = End(buffer)  OBVIOUS
  <1>11. wire' = [wire EXCEPT ![c] = Tail(wire[c])]  BY <1>1 DEF KeepReading
  <1>12. wire'[c] = Tail(wire[c]) /\ \A d \in Conns \ {c} : wire'[d] = wire[d]
    BY <1>0, <1>2, <1>11 DEF Ends
  <1>13. ASSUME NEW d \in Conns PROVE Carried(wire'[d], queue[d], to, e)
    <2>1. Carried(wire[d], queue[d], view.last, e)  BY <1>10 DEF FrameInv
    <2>2. CASE d = c
      <3>1. wire[d] # <<>> /\ Head(wire[d]).kind \in Carries /\ wire[d] \in Seq(Spans)
        BY <1>1, <1>2, <2>2
      <3>2. Carried(Tail(wire[d]), queue[d], to, e)  BY <2>1, <3>1, CarriedRead
      <3> QED  BY <1>12, <2>2, <3>2
    <2>3. CASE d # c
      <3>1. Good(server[d], queue[d], wire[d], peer[d], d \in subs, view.last, End(buffer))
        BY DEF PipeInv, Pipes
      <3>2. wire[d] = <<>> /\ queue[d] = <<>>  BY <1>2, <2>3, <3>1 DEF Good
      <3> QED  BY <1>12, <2>3, <3>2, CarriedNone
    <2> QED  BY <2>2, <2>3
  <1>14. (\A d \in Conns : Carried(wire[d], queue[d], view.last, End(buffer)))'
    BY <1>5, <1>8, <1>10, <1>13
  <1> QED  BY <1>9, <1>14 DEF FrameInv

\* A delta begins where the app is.
LEMMA DeltaNext ==
  ASSUME PipeInv, reader = "reading", wire[dialed] # <<>>, Head(wire[dialed]).kind = "delta"
  PROVE  view.last = Head(wire[dialed]).from
  <1>1. /\ dialed \in Conns
        /\ Good(server[dialed], queue[dialed], wire[dialed], TRUE, dialed \in subs,
                view.last, End(buffer))
    BY AtHand
  <1>2. wire[dialed] \in Seq(Spans) /\ queue[dialed] \in Seq(Spans)
    BY <1>1, ConnTypes DEF PipeInv
  <1>3. PICK p : p = wire[dialed] \o queue[dialed]  OBVIOUS
  <1>4. p # <<>> /\ p[1] = wire[dialed][1]  BY <1>2, <1>3, PipeMoves
  <1>5. Chain(p, view.last)  BY <1>1, <1>3 DEF Good
  <1>6. p[1] = Head(wire[dialed])  BY <1>2, <1>4
  <1> QED  BY <1>4, <1>5, <1>6 DEF Chain

LEMMA ReadFrames == PipeInv /\ FrameInv /\ ReadFrame => FrameInv' /\ KeepsPlace
  <1> SUFFICES ASSUME PipeInv, FrameInv, ReadFrame PROVE FrameInv' /\ KeepsPlace  OBVIOUS
  <1>0. Ends /\ Windows  BY DEF PipeInv
  <1>1. PICK f, c : f = Head(wire[dialed]) /\ c = dialed  OBVIOUS
  <1>2. reader = "reading" /\ wire[c] # <<>> /\ UNCHANGED <<buffer, queue>>
    BY <1>1 DEF ReadFrame, daemonVars
  <1>3. /\ c \in Conns /\ f \in Spans /\ wire[c] \in Seq(Spans) /\ f = wire[c][1]
        /\ 1 \in 1 .. Len(wire[c]) /\ f = Head(wire[c])
    BY <1>1, <1>2, AtHand, HeadTailProperties, EmptySeq
  <1>4. f.from \in Nat /\ f.to \in Nat /\ f.from <= f.to
    BY <1>3, StreamAssumption DEF Spans, Frames
  <1>5. wire \in [Conns -> Seq(Spans)]  BY <1>0 DEF Ends
  <1>6. \A d \in Conns : Carried(wire[d], queue[d], view.last, End(buffer))  BY DEF FrameInv
  <1>7. PICK g, l, n, t : g = view.genBase /\ l = view.last /\ n = End(view.buf) /\ t = Top
    OBVIOUS
  <1>8. g \in Nat /\ n \in Nat /\ t = g + n
    <2>1. view.buf.bytes \in Seq(Nat)
      <3>1. <<>> \in Seq(Nat)  OBVIOUS
      <3> QED  BY <1>0, <3>1 DEF Windows, Stretch
    <2>2. Len(view.buf.bytes) \in Nat  BY <2>1
    <2> QED  BY <1>0, <1>7, <2>2 DEF Windows, End, Top
  <1>9. CASE f.kind = "streaming" /\ KeepReading /\ UNCHANGED view
    <2>1. wire' = [wire EXCEPT ![c] = Tail(wire[c])]  BY <1>1, <1>9 DEF KeepReading
    <2>2. Carried(Tail(wire[c]), queue[c], view.last, End(buffer))
      BY <1>2, <1>3, <1>6, CarriedRead
    <2>3. \A d \in Conns : Carried(wire'[d], queue'[d], view.last, End(buffer))
      BY <1>2, <1>3, <1>5, <1>6, <2>1, <2>2
    <2> QED  BY <1>2, <1>9, <2>3, FramesStay, PlaceStays
  <1>10. CASE f.kind = "snapshot" /\ KeepReading /\ ApplySnapshot(f)
    <2>1. PICK h : h = IF view.last = Unattached THEN 0 ELSE view.genBase + End(view.buf) + 1
      OBVIOUS
    <2>2. view' = [buf |-> Push(EmptyBuffer, Run(f.from, f.to)), genBase |-> h, last |-> f.to]
      BY <1>10, <2>1 DEF ApplySnapshot
    <2>3. f.from \in Leads /\ view.last <= f.to
      <3>1. \A k \in 1 .. Len(wire[c]) : wire[c][k].kind = "snapshot" =>
              wire[c][k].from \in Leads /\ view.last <= wire[c][k].to
        BY <1>3, <1>6 DEF Carried
      <3> QED  BY <1>3, <1>10, <3>1
    <2>4. /\ EmptyBuffer.base \in Nat /\ Stretch(EmptyBuffer.bytes, f.from)
          /\ f.from - Len(EmptyBuffer.bytes) \in Leads
      <3>1. Len(<<>>) = 0 /\ f.from - 0 = f.from  BY <1>4
      <3>2. Stretch(<<>>, f.from)  BY <1>4, <3>1 DEF Stretch
      <3> QED  BY <2>3, <3>1, <3>2 DEF EmptyBuffer
    <2>5. f.kind \in Carries  BY <1>10 DEF Carries
    <2>6. FrameInv'  BY <1>1, <1>2, <1>10, <2>2, <2>4, <2>5, AppliedFrames
    <2>7. ASSUME view.last # Unattached
          PROVE  view'.last # Unattached /\ \A x, e \in Nat : Stands(x, e) => Stands(x, e)'
      <3>1. h = t + 1  BY <1>7, <1>8, <2>1, <2>7
      <3>2. PICK to : to = f.to  OBVIOUS
      <3>3. view'.genBase = h /\ view'.last = to  BY <2>2, <3>2
      <3>4. l <= to /\ to \in Nat /\ l \in Nat
        BY <1>0, <1>4, <1>7, <2>3, <2>7, <3>2, StreamAssumption DEF Windows
      <3>5. PICK t1 : t1 = Top'  OBVIOUS
      <3>6. ASSUME NEW x \in Nat, NEW e \in Nat, Stands(x, e) PROVE Stands(x, e)'
        <4>1. (x < g /\ e <= l) \/ (g <= x /\ x <= t /\ e = x + l - t)
          BY <1>7, <3>6 DEF Stands, StandsAt
        <4>2. x < h /\ e <= to  BY <1>8, <3>1, <3>4, <4>1
        <4>3. StandsAt(h, t1, to, x, e)  BY <4>2 DEF StandsAt
        <4> QED  BY <3>3, <3>5, <4>3 DEF Stands
      <3>7. to # Unattached  BY <3>4 DEF Unattached
      <3> QED  BY <3>3, <3>6, <3>7
    <2> QED  BY <2>6, <2>7 DEF KeepsPlace
  <1>11. CASE f.kind = "delta" /\ KeepReading /\ ApplyDeltaFrame(f)
    <2>1. l = f.from /\ view.last # Unattached
      <3>1. l = f.from  BY <1>1, <1>2, <1>7, <1>11, DeltaNext
      <3> QED  BY <1>4, <1>7, <3>1 DEF Unattached
    <2>2. PICK b : b = view.buf  OBVIOUS
    <2>3. view' = [buf |-> Push(b, Run(f.from, f.to)), genBase |-> g, last |-> f.to]
      <3>1. view = [buf |-> view.buf, genBase |-> view.genBase, last |-> view.last]
        BY <1>0 DEF Windows
      <3>2. view' = [view EXCEPT !.buf = Push(b, Run(f.from, f.to)), !.last = f.to]
        BY <1>11, <2>2 DEF ApplyDeltaFrame
      <3> QED  BY <1>7, <2>2, <3>1, <3>2
    <2>4. b.base \in Nat /\ Stretch(b.bytes, f.from) /\ f.from - Len(b.bytes) \in Leads
      BY <1>0, <1>7, <2>1, <2>2 DEF Windows, FrameInv, Leading
    <2>5. f.kind \in Carries  BY <1>11 DEF Carries
    <2>6. FrameInv'  BY <1>1, <1>2, <1>11, <2>3, <2>4, <2>5, AppliedFrames
    <2>7. PICK from, to, v : from = f.from /\ to = f.to /\ v = Push(b, Run(f.from, f.to))
      OBVIOUS
    <2>8. End(v) = n + (to - from)
      <3>1. End(v) = End(b) + (f.to - f.from)  BY <1>4, <2>4, <2>7, PushIs
      <3> QED  BY <1>7, <2>2, <2>7, <3>1
    <2>9. view'.genBase = g /\ view'.last = to /\ Top' = g + (n + (to - from))
      BY <2>3, <2>7, <2>8 DEF Top, End
    <2>10. from \in Nat /\ to \in Nat /\ from <= to /\ l = from  BY <1>4, <2>1, <2>7
    <2>11. PICK t1 : t1 = Top'  OBVIOUS
    <2>12. ASSUME NEW x \in Nat, NEW e \in Nat, Stands(x, e) PROVE Stands(x, e)'
      <3>1. (x < g /\ e <= l) \/ (g <= x /\ x <= t /\ e = x + l - t)
        BY <1>7, <2>12 DEF Stands, StandsAt
      <3>2. t1 = t + (to - from)  BY <1>8, <2>9, <2>10, <2>11
      <3>3. (x < g /\ e <= to) \/ (g <= x /\ x <= t1 /\ e = x + to - t1)
        BY <1>8, <2>10, <3>1, <3>2
      <3>4. StandsAt(g, t1, to, x, e)  BY <3>3 DEF StandsAt
      <3> QED  BY <2>9, <2>11, <3>4 DEF Stands
    <2>13. to # Unattached  BY <2>10 DEF Unattached
    <2> QED  BY <2>6, <2>9, <2>12, <2>13 DEF KeepsPlace
  <1>12. ASSUME NEW next, HangUp(next), UNCHANGED view PROVE FrameInv' /\ KeepsPlace
    <2>1. wire' = [wire EXCEPT ![c] = <<>>]  BY <1>1, <1>12 DEF HangUp
    <2>2. ASSUME NEW w, NEW q, NEW last, NEW end, Carried(w, q, last, end)
          PROVE  Carried(<<>>, q, last, end)
      <3>1. Len(<<>>) = 0  OBVIOUS
      <3> QED  BY <2>2, <3>1 DEF Carried
    <2>3. Carried(<<>>, queue[c], view.last, End(buffer))  BY <1>3, <1>6, <2>2
    <2>4. \A d \in Conns : Carried(wire'[d], queue'[d], view.last, End(buffer))
      BY <1>2, <1>3, <1>5, <1>6, <2>1, <2>3
    <2> QED  BY <1>2, <1>12, <2>4, FramesStay, PlaceStays
  <1> QED  BY <1>1, <1>9, <1>10, <1>11, <1>12 DEF ReadFrame

\* A dial and a hang-up leave what is carried, or drop it.
LEMMA ReaderFrames == PipeInv /\ FrameInv /\ ReaderStep => FrameInv' /\ KeepsPlace
  <1> SUFFICES ASSUME PipeInv, FrameInv, ReaderStep PROVE FrameInv' /\ KeepsPlace  OBVIOUS
  <1>0. Ends  BY DEF PipeInv
  <1>1. \A d \in Conns : Carried(wire[d], queue[d], view.last, End(buffer))  BY DEF FrameInv
  <1>2. ASSUME NEW c \in Conns, Dial(c) PROVE FrameInv' /\ KeepsPlace
    <2>1. UNCHANGED <<buffer, view, queue, wire>>  BY <1>2 DEF Dial
    <2>2. \A d \in Conns : Carried(wire'[d], queue'[d], view.last, End(buffer))  BY <1>1, <2>1
    <2> QED  BY <2>1, <2>2, FramesStay, PlaceStays
  <1>3. CASE ReadEof
    <2>1. PICK c : c = dialed  OBVIOUS
    <2>2. /\ UNCHANGED <<buffer, view, queue>> /\ wire[c] = <<>>
          /\ wire' = [wire EXCEPT ![c] = <<>>]
      BY <1>3, <2>1 DEF ReadEof, daemonVars, HangUp
    <2>3. wire \in [Conns -> Seq(Spans)]  BY <1>0 DEF Ends
    <2>4. \A d \in Conns : wire'[d] = wire[d]  BY <2>2, <2>3
    <2>5. \A d \in Conns : Carried(wire'[d], queue'[d], view.last, End(buffer))
      BY <1>1, <2>2, <2>4
    <2> QED  BY <2>2, <2>5, FramesStay, PlaceStays
  <1> QED  BY <1>2, <1>3, ReadFrames DEF ReaderStep

LEMMA StepFrames == PipeInv /\ FrameInv /\ [Next]_vars => FrameInv' /\ KeepsPlace
  <1> SUFFICES ASSUME PipeInv, FrameInv, [Next]_vars PROVE FrameInv' /\ KeepsPlace  OBVIOUS
  <1>1. ASSUME UNCHANGED <<buffer, view, queue, wire>> PROVE FrameInv' /\ KeepsPlace
    <2>1. \A d \in Conns : Carried(wire[d], queue[d], view.last, End(buffer))  BY DEF FrameInv
    <2>2. \A d \in Conns : Carried(wire'[d], queue'[d], view.last, End(buffer))  BY <1>1, <2>1
    <2> QED  BY <1>1, <2>2, FramesStay, PlaceStays
  <1>2. ASSUME NEW n \in 1 .. MaxChunk, PushAndFanout(n) PROVE FrameInv' /\ KeepsPlace
    <2>1. UNCHANGED view  BY <1>2 DEF PushAndFanout, appVars
    <2> QED  BY <1>2, <2>1, FanoutFrames, PlaceStays
  <1>3. ASSUME NEW c \in Conns, ServerStep(c) \/ ConnBreaks(c) PROVE FrameInv' /\ KeepsPlace
    <2>1. UNCHANGED view
      BY <1>3 DEF ServerStep, AttachGate, Subscribe, DrainChunk, DrainClosed, Classify,
         PeerGoneOrSilent, ConnBreaks, EndConn, appVars
    <2> QED  BY <1>3, <2>1, ServerFrames, PlaceStays
  <1>4. CASE PaneExits \/ CloseSubscribers \/ ReadOutputDelta \/ ApplyReply \/ Reload
             \/ UNCHANGED vars
    BY <1>1, <1>4 DEF PaneExits, CloseSubscribers, ReadOutputDelta, ApplyReply, Reload, vars,
       daemonVars, connVars, appVars
  <1> QED  BY <1>2, <1>3, <1>4, ReaderFrames DEF Next
-----------------------------------------------------------------------------
(* The terminal: its cursor stands where its screen ends, and the reply in *)
(* flight takes it on.                                                     *)

\* A screen of whole characters up to e.
ShowsTo(screen, e) == screen = <<>> \/ \E lo \in Leads : lo < e /\ screen = Run(lo, e)

TermInv ==
  \/ term = EmptyTerminal
  \/ /\ view.last # Unattached /\ term.consumed \in Nat /\ term.consumed > 0
     /\ \E e \in Leads : Stands(term.consumed, e) /\ ShowsTo(term.screen, e)

\* The answer that takes the terminal on from a to e.
Answers(p, a, e) ==
  /\ a <= e /\ p.data = Run(a, e) /\ p.next \in Nat /\ Stands(p.next, e)
  /\ p.next = 0 => a = e /\ term = EmptyTerminal
  /\ \/ term = EmptyTerminal
     \/ \E e0 \in Leads : e0 <= e /\ ShowsTo(term.screen, e0) /\ (p.truncated \/ a = e0)

ReplyInv ==
  \A p \in reply :
    \/ p.next = 0 /\ p.data = <<>> /\ term = EmptyTerminal
    \/ view.last # Unattached /\ \E a, e \in Leads : Answers(p, a, e)

ShowInv == TermInv /\ ReplyInv

\* A cursor is before the end of what the app has.
LEMMA StandsBefore ==
  ASSUME Windows, view.last # Unattached, NEW x \in Nat, NEW e \in Nat, Stands(x, e)
  PROVE  x <= Top /\ e <= view.last /\ Top \in Nat /\ view.last \in Nat
  <1>1. PICK g, l, n, t : g = view.genBase /\ l = view.last /\ n = End(view.buf) /\ t = Top
    OBVIOUS
  <1>2. g \in Nat /\ n \in Nat /\ t = g + n /\ l \in Nat
    <2>1. Stretch(view.buf.bytes, view.last) /\ view.last \in 0 .. MaxBytes  BY DEF Windows
    <2>2. Len(view.buf.bytes) \in Nat  BY <2>1 DEF Stretch
    <2>3. view.genBase \in Nat /\ view.buf.base \in Nat  BY DEF Windows
    <2>4. n = view.buf.base + Len(view.buf.bytes)  BY <1>1 DEF End
    <2>5. n \in Nat  BY <2>2, <2>3, <2>4
    <2>6. t = g + n  BY <1>1 DEF Top
    <2>7. l \in Nat  BY <1>1, <2>1, StreamAssumption
    <2> QED  BY <1>1, <2>3, <2>5, <2>6, <2>7
  <1>3. (x < g /\ e <= l) \/ (g <= x /\ x <= t /\ e = x + l - t)
    BY <1>1 DEF Stands, StandsAt
  <1>4. x <= t /\ e <= l  BY <1>2, <1>3
  <1> QED  BY <1>1, <1>2, <1>4

LEMMA InitShow == Init => ShowInv
  BY DEF Init, ShowInv, TermInv, ReplyInv

\* The terminal and the reply stay while the app's reader goes on.
LEMMA ShowStays ==
  ASSUME ShowInv, KeepsPlace, UNCHANGED <<term, reply>> PROVE ShowInv'
  <1>0. Leads \subseteq Nat  BY BufferAssumption
  <1>1. TermInv'
    <2>1. CASE term = EmptyTerminal  BY <2>1 DEF TermInv
    <2>2. CASE term # EmptyTerminal
      <3>1. PICK e \in Leads : Stands(term.consumed, e) /\ ShowsTo(term.screen, e)
        BY <2>2 DEF ShowInv, TermInv
      <3>2. view.last # Unattached /\ term.consumed \in Nat /\ term.consumed > 0
        BY <2>2 DEF ShowInv, TermInv
      <3>3. PICK x : x = term.consumed  OBVIOUS
      <3>4. view'.last # Unattached /\ Stands(x, e)'  BY <1>0, <3>1, <3>2, <3>3 DEF KeepsPlace
      <3>5. ShowsTo(term'.screen, e) /\ term'.consumed = x /\ x \in Nat /\ x > 0
        BY <3>1, <3>2, <3>3
      <3>6. Stands(term.consumed, e)'  BY <3>4, <3>5 DEF Stands
      <3>7. ShowsTo(term.screen, e)'  BY <3>5 DEF ShowsTo
      <3> QED  BY <3>4, <3>5, <3>6, <3>7 DEF TermInv
    <2> QED  BY <2>1, <2>2
  <1>2. ReplyInv'
    <2> SUFFICES ASSUME NEW p \in reply
                 PROVE  \/ p.next = 0 /\ p.data = <<>> /\ term' = EmptyTerminal
                        \/ view'.last # Unattached /\ \E a, e \in Leads : Answers(p, a, e)'
      BY DEF ReplyInv
    <2>1. CASE p.next = 0 /\ p.data = <<>> /\ term = EmptyTerminal  BY <2>1
    <2>2. ASSUME view.last # Unattached, NEW a \in Leads, NEW e \in Leads, Answers(p, a, e)
          PROVE  view'.last # Unattached /\ Answers(p, a, e)'
      <3>1. view'.last # Unattached /\ Stands(p.next, e)'
        BY <1>0, <2>2 DEF KeepsPlace, Answers
      <3>2. /\ a <= e /\ p.data = Run(a, e) /\ p.next \in Nat
            /\ p.next = 0 => a = e /\ term = EmptyTerminal
            /\ \/ term = EmptyTerminal
               \/ \E e0 \in Leads : e0 <= e /\ ShowsTo(term.screen, e0) /\ (p.truncated \/ a = e0)
        BY <2>2 DEF Answers
      <3> QED  BY <3>1, <3>2 DEF Answers
    <2> QED  BY <2>1, <2>2 DEF ShowInv, ReplyInv
  <1> QED  BY <1>1, <1>2 DEF ShowInv

\* The hypothesis of the refinement, on a read: no cursor of an earlier attach
\* meets a buffer that compaction has cut.  ReplayedOnce is false where one does.
CleanRead == ReadOutputDelta => term.consumed >= view.genBase \/ view.buf.base = 0

LEMMA ReadShows ==
  PipeInv /\ FrameInv /\ ShowInv /\ ReadOutputDelta /\ CleanRead => ShowInv'
  <1> SUFFICES ASSUME PipeInv, FrameInv, ShowInv, ReadOutputDelta, CleanRead PROVE ShowInv'
    OBVIOUS
  <1>0. Windows /\ Leading /\ Leads \subseteq Nat
    BY BufferAssumption DEF PipeInv, FrameInv
  <1>1. PICK x : x = term.consumed  OBVIOUS
  <1>2. PICK p : p = DeltaPayload(x, ViewDelta(x))  OBVIOUS
  <1>3. reply' = {p} /\ UNCHANGED <<view, term>>
    BY <1>1, <1>2 DEF ReadOutputDelta, appVars
  <1>4. TermInv'  BY <1>3 DEF ShowInv, TermInv, Stands, Top
  <1>5. x \in Nat /\ (x = 0 => term = EmptyTerminal)
    BY <1>1 DEF ShowInv, TermInv, EmptyTerminal
  <1>6. x >= view.genBase \/ view.buf.base = 0  BY <1>1 DEF CleanRead
  <1>7. ASSUME view.last = Unattached
        PROVE  p.next = 0 /\ p.data = <<>> /\ term = EmptyTerminal
    <2>1. view.buf = EmptyBuffer /\ view.genBase = 0  BY <1>0, <1>7 DEF Leading
    <2>2. term = EmptyTerminal /\ x = 0  BY <1>1, <1>7 DEF ShowInv, TermInv, EmptyTerminal
    <2>3. ViewDelta(0) = [start |-> 0, bytes |-> SubSeq(<<>>, 1, 0)]
      <3>1. Len(<<>>) = 0 /\ 0 - 0 + 1 = 1 /\ 0 - 0 = 0 /\ 0 + 0 = 0  OBVIOUS
      <3>2. End(EmptyBuffer) = 0  BY <3>1 DEF End, EmptyBuffer
      <3>3. Delta(EmptyBuffer, 0) = [start |-> 0, bytes |-> SubSeq(<<>>, 1, 0)]
        BY <3>1, <3>2 DEF Delta, EmptyBuffer
      <3> QED  BY <2>1, <3>1, <3>3 DEF ViewDelta
    <2>4. SubSeq(<<>>, 1, 0) = <<>>  OBVIOUS
    <2>5. PICK d : d = ViewDelta(0)  OBVIOUS
    <2>6. d.start = 0 /\ d.bytes = <<>>  BY <2>3, <2>4, <2>5
    <2>7. HeldBack(<<>>) = 0
      <3>1. PICK s : s = <<>>  OBVIOUS
      <3>2. s \in Seq(Nat) /\ Len(s) = 0  BY <3>1
      <3>3. HeldBack(s) \in 0 .. Len(s)  BY <3>2, HeldBackFits
      <3>4. HeldBack(s) = 0  BY <3>2, <3>3
      <3> QED  BY <3>1, <3>4
    <2>8. Len(<<>>) = 0 /\ 0 - 0 = 0 /\ 0 + 0 = 0  OBVIOUS
    <2>9. p = DeltaPayload(x, d)  BY <1>2, <2>2, <2>5
    <2>10. p.next = 0 /\ p.data = <<>>  BY <2>4, <2>6, <2>7, <2>8, <2>9 DEF DeltaPayload
    <2> QED  BY <2>2, <2>10
  <1>8. ASSUME view.last # Unattached PROVE \E a, e \in Leads : Answers(p, a, e)
    <2>1. PICK g, b, l, n, t : /\ g = view.genBase /\ b = view.buf.base /\ l = view.last
                               /\ n = Len(view.buf.bytes) /\ t = Top
      OBVIOUS
    <2>2. /\ g \in Nat /\ b \in Nat /\ l \in Nat /\ n \in Nat /\ n <= l /\ t = g + (b + n)
          /\ l - n \in Leads
      <3>1. Stretch(view.buf.bytes, view.last) /\ view.last \in 0 .. MaxBytes
        BY <1>0, <1>8 DEF Windows
      <3>2. n \in Nat /\ n <= l  BY <2>1, <3>1 DEF Stretch
      <3>3. g \in Nat /\ b \in Nat /\ l \in Nat
        BY <1>0, <2>1, <3>1, StreamAssumption DEF Windows
      <3> QED  BY <1>0, <1>8, <2>1, <3>2, <3>3 DEF Leading, Top, End
    \* Where the cursor stands: nowhere yet, or at e0.
    <2>3. /\ x <= t /\ (x \in g + b .. t => x + l - t \in Leads)
          /\ \/ term = EmptyTerminal
             \/ \E e0 \in Leads : Stands(x, e0) /\ ShowsTo(term.screen, e0)
      <3>1. CASE term = EmptyTerminal
        <4>1. x = 0  BY <1>1, <3>1 DEF EmptyTerminal
        <4>2. x <= t  BY <2>2, <4>1
        <4>3. ASSUME x \in g + b .. t PROVE x + l - t \in Leads
          <5>1. t = n  BY <2>2, <4>1, <4>3
          <5>2. x + l - t = l - n  BY <2>2, <4>1, <5>1
          <5> QED  BY <2>2, <5>2
        <4> QED  BY <3>1, <4>2, <4>3
      <3>2. CASE term # EmptyTerminal
        <4>1. PICK e0 \in Leads : Stands(x, e0) /\ ShowsTo(term.screen, e0)
          BY <1>1, <3>2 DEF ShowInv, TermInv
        <4>2. e0 \in Nat  BY <1>0
        <4>3. x <= t  BY <1>0, <1>5, <1>8, <2>1, <4>1, <4>2, StandsBefore
        <4>4. (x < g /\ e0 <= l) \/ (g <= x /\ x <= t /\ e0 = x + l - t)
          BY <2>1, <4>1 DEF Stands, StandsAt
        <4>5. ASSUME x \in g + b .. t PROVE x + l - t \in Leads
          <5>1. ~(x < g)  BY <1>5, <2>2, <4>5
          <5> QED  BY <4>4, <5>1
        <4> QED  BY <4>1, <4>3, <4>5
      <3> QED  BY <3>1, <3>2
    <2>4. Asked(x)  BY <1>5, <1>6, <1>8, <2>1, <2>3 DEF Asked
    <2>5. PICK a, e \in Leads :
            /\ a <= e /\ p.data = Run(a, e) /\ p.next \in Nat /\ Stands(p.next, e)
            /\ \A y \in Leads : y <= view.last => y <= e
            /\ p.next = 0 => a = e /\ x = 0
            /\ p.truncated \/ (x >= view.genBase /\ a = x + view.last - Top)
      BY <1>0, <1>2, <2>4, ReadsWhole
    <2>6. ASSUME term # EmptyTerminal
          PROVE  \E e0 \in Leads : e0 <= e /\ ShowsTo(term.screen, e0) /\ (p.truncated \/ a = e0)
      <3>1. PICK e0 \in Leads : Stands(x, e0) /\ ShowsTo(term.screen, e0)  BY <2>3, <2>6
      <3>2. e0 \in Nat  BY <1>0
      <3>3. e0 <= view.last  BY <1>0, <1>5, <1>8, <3>1, <3>2, StandsBefore
      <3>4. e0 <= e  BY <2>5, <3>3
      <3>5. p.truncated \/ a = e0
        <4>1. (x < g /\ e0 <= l) \/ (g <= x /\ x <= t /\ e0 = x + l - t)
          BY <2>1, <3>1 DEF Stands, StandsAt
        <4>2. p.truncated \/ (x >= g /\ a = x + l - t)  BY <2>1, <2>5
        <4> QED  BY <1>5, <2>2, <4>1, <4>2
      <3> QED  BY <3>1, <3>4, <3>5
    <2>7. Answers(p, a, e)  BY <1>5, <2>5, <2>6 DEF Answers
    <2> QED  BY <2>7
  <1>9. ReplyInv'
    <2>1. ASSUME NEW a \in Leads, NEW e \in Leads, Answers(p, a, e) PROVE Answers(p, a, e)'
      BY <1>3, <2>1 DEF Answers, Stands, Top
    <2> QED  BY <1>3, <1>7, <1>8, <2>1 DEF ReplyInv
  <1> QED  BY <1>4, <1>9 DEF ShowInv
-----------------------------------------------------------------------------
(* What the terminal shows.                                                *)

LEMMA ShowsOn ==
  ASSUME NEW a \in Leads, NEW e \in Leads, a <= e, NEW s, ShowsTo(s, a)
  PROVE  ShowsTo(s \o Run(a, e), e)
  <1>0. Leads \subseteq Nat  BY BufferAssumption
  <1>1. Run(a, e) \in Seq(Nat) /\ (Run(a, e) = <<>> <=> a = e)
    BY <1>0, RunIs, RunEnds DEF Stretch
  <1>2. CASE s = <<>>
    <2>1. s \o Run(a, e) = Run(a, e)  BY <1>1, <1>2
    <2>2. a < e \/ a = e  BY <1>0
    <2> QED  BY <1>1, <2>1, <2>2 DEF ShowsTo
  <1>3. ASSUME NEW lo \in Leads, lo < a, s = Run(lo, a) PROVE ShowsTo(s \o Run(a, e), e)
    <2>1. lo \in Nat /\ a \in Nat /\ e \in Nat /\ lo <= a /\ lo < e  BY <1>0, <1>3
    <2>2. s \o Run(a, e) = Run(lo, e)  BY <1>3, <2>1, RunsJoin
    <2> QED  BY <2>1, <2>2 DEF ShowsTo
  <1> QED  BY <1>2, <1>3 DEF ShowsTo

\* The end that is shown.
LEMMA EndShown ==
  ASSUME NEW e \in Leads, ShowsTo(term.screen, e)
  PROVE  View!ShownEnd = IF term.screen = <<>> THEN 0 ELSE e
  <1>0. Leads \subseteq Nat  BY BufferAssumption
  <1>1. CASE term.screen = <<>>  BY <1>1 DEF View!ShownEnd
  <1>2. ASSUME NEW lo \in Leads, lo < e, term.screen = Run(lo, e)
        PROVE  View!ShownEnd = IF term.screen = <<>> THEN 0 ELSE e
    <2>1. PICK s : s = term.screen  OBVIOUS
    <2>2. lo \in Nat /\ e \in Nat /\ lo <= e /\ lo # e  BY <1>0, <1>2
    <2>3. s # <<>> /\ s[Len(s)] + 1 = e  BY <1>2, <2>1, <2>2, RunEnds
    <2> QED  BY <2>1, <2>3 DEF View!ShownEnd
  <1> QED  BY <1>1, <1>2 DEF ShowsTo

\* A terminal that is cleared, or had nothing, and shows the output from a on.
LEMMA Repaints ==
  ASSUME NEW a \in Leads, NEW e \in Leads, a <= e, term'.screen = Run(a, e),
         View!ShownEnd <= e, e <= End(buffer), UNCHANGED buffer
  PROVE  View!ViewNext
  <1>0. Leads \subseteq Nat  BY BufferAssumption
  <1>1. End(buffer)' = End(buffer)  BY DEF End
  <1>2. CASE a = e
    <2>1. term'.screen = <<>>  BY <1>0, <1>2, RunEnds
    <2> QED  BY <1>1, <2>1 DEF View!ViewNext, View!Blank
  <1>3. CASE a # e
    <2>1. a < e  BY <1>0, <1>3
    <2>2. View!Stretch(a, e) = Run(a, e)  BY DEF View!Stretch, Run
    <2>3. View!Repaint  BY <1>1, <2>1, <2>2 DEF View!Repaint
    <2> QED  BY <2>3 DEF View!ViewNext
  <1> QED  BY <1>2, <1>3

\* A terminal that shows the output up to e0 and is given what comes after.
LEMMA Extends ==
  ASSUME NEW e0 \in Leads, NEW e \in Leads, e0 <= e, ShowsTo(term.screen, e0),
         term'.screen = term.screen \o Run(e0, e), e <= End(buffer), UNCHANGED buffer
  PROVE  View!ViewNext \/ UNCHANGED View!viewVars
  <1>0. Leads \subseteq Nat  BY BufferAssumption
  <1>1. End(buffer)' = End(buffer)  BY DEF End
  <1>2. Run(e0, e) \in Seq(Nat) /\ (Run(e0, e) = <<>> <=> e0 = e)
    BY <1>0, RunIs, RunEnds DEF Stretch
  <1>3. CASE term.screen = <<>>
    <2>1. term'.screen = Run(e0, e)  BY <1>2, <1>3
    <2>2. View!ShownEnd = 0 /\ 0 <= e  BY <1>0, <1>3, EndShown
    <2>3. View!ShownEnd <= e  BY <2>2
    <2> QED  BY <2>1, <2>3, Repaints
  <1>4. CASE term.screen # <<>> /\ e0 = e
    <2>1. term.screen \in Seq(Nat)
      <3>1. PICK lo \in Leads : lo < e0 /\ term.screen = Run(lo, e0)  BY <1>4 DEF ShowsTo
      <3> QED  BY <1>0, <3>1, RunIs DEF Stretch
    <2>2. term'.screen = term.screen  BY <1>2, <1>4, <2>1
    <2> QED  BY <1>1, <2>2 DEF View!viewVars
  <1>5. CASE term.screen # <<>> /\ e0 # e
    <2>1. View!ShownEnd = e0 /\ e0 < e  BY <1>0, <1>5, EndShown
    <2>2. View!Stretch(e0, e) = Run(e0, e)  BY DEF View!Stretch, Run
    <2>3. View!Extend  BY <1>1, <1>5, <2>1, <2>2 DEF View!Extend
    <2> QED  BY <2>3 DEF View!ViewNext
  <1> QED  BY <1>3, <1>4, <1>5

\* The answer takes the terminal on: what it shows stays one stretch.
LEMMA ReplyShows ==
  PipeInv /\ FrameInv /\ ShowInv /\ ApplyReply
    => ShowInv' /\ (View!ViewNext \/ UNCHANGED View!viewVars)
  <1> SUFFICES ASSUME PipeInv, FrameInv, ShowInv, ApplyReply
               PROVE  ShowInv' /\ (View!ViewNext \/ UNCHANGED View!viewVars)
    OBVIOUS
  <1>0. Windows /\ Leading /\ Leads \subseteq Nat
    BY BufferAssumption DEF PipeInv, FrameInv
  <1>1. PICK p \in reply : term' = ApplyDelta(term, p)  BY DEF ApplyReply
  <1>2. reply' = {} /\ UNCHANGED <<view, buffer>>  BY DEF ApplyReply, daemonVars, appVars
  <1>3. ReplyInv'  BY <1>2 DEF ReplyInv
  <1>4. PICK old : old = IF p.truncated /\ term.consumed > 0 THEN <<>> ELSE term.screen
    OBVIOUS
  <1>5. term' = [consumed |-> p.next, screen |-> old \o p.data]
    BY <1>1, <1>4 DEF ApplyDelta
  <1>6. TermInv  BY DEF ShowInv
  <1>7. ASSUME p.next = 0, p.data = <<>>, term = EmptyTerminal
        PROVE  term' = EmptyTerminal
    <2>1. old = <<>>  BY <1>4, <1>7 DEF EmptyTerminal
    <2>2. old \o p.data = <<>>  BY <1>7, <2>1
    <2> QED  BY <1>5, <1>7, <2>2 DEF EmptyTerminal
  <1>8. ASSUME term = EmptyTerminal, term' = EmptyTerminal
        PROVE  ShowInv' /\ (View!ViewNext \/ UNCHANGED View!viewVars)
    <2>1. TermInv'  BY <1>8 DEF TermInv
    <2>2. End(buffer)' = End(buffer)  BY <1>2 DEF End
    <2>3. UNCHANGED View!viewVars  BY <1>8, <2>2 DEF View!viewVars
    <2> QED  BY <1>3, <2>1, <2>3 DEF ShowInv
  <1>9. ASSUME view.last # Unattached, NEW a \in Leads, NEW e \in Leads, Answers(p, a, e)
        PROVE  ShowInv' /\ (View!ViewNext \/ UNCHANGED View!viewVars)
    <2>1. /\ a <= e /\ p.data = Run(a, e) /\ p.next \in Nat /\ Stands(p.next, e)
          /\ p.next = 0 => a = e /\ term = EmptyTerminal
          /\ \/ term = EmptyTerminal
             \/ \E e0 \in Leads : e0 <= e /\ ShowsTo(term.screen, e0) /\ (p.truncated \/ a = e0)
      BY <1>9 DEF Answers
    <2>2. a \in Nat /\ e \in Nat  BY <1>0
    <2>3. PICK x : x = p.next  OBVIOUS
    <2>4. e <= view.last /\ view.last \in Nat
      BY <1>0, <1>9, <2>1, <2>2, <2>3, StandsBefore
    <2>5. e <= End(buffer)
      <3>1. PICK l, n : l = view.last /\ n = End(buffer)  OBVIOUS
      <3>2. l <= n  BY <1>0, <3>1 DEF Leading
      <3>3. n \in Nat
        <4>1. End(buffer) \in 0 .. MaxBytes /\ MaxBytes \in Nat
          BY <1>0, StreamAssumption DEF Windows
        <4> QED  BY <3>1, <4>1
      <3>4. e <= l /\ l \in Nat  BY <2>4, <3>1
      <3>5. e <= n  BY <2>2, <3>2, <3>3, <3>4
      <3> QED  BY <3>1, <3>5
    <2>6. term'.screen = old \o Run(a, e) /\ term'.consumed = x  BY <1>5, <2>1, <2>3
    <2>7. Run(a, e) \in Seq(Nat)  BY <2>1, <2>2, RunIs DEF Stretch
    <2>8. old = <<>> => term'.screen = Run(a, e)  BY <2>6, <2>7
    <2>9. ASSUME ShowsTo(old, a) PROVE ShowInv'
      <3>1. ShowsTo(old \o Run(a, e), e)  BY <2>1, <2>9, ShowsOn
      <3>2. CASE x = 0
        <4>1. a = e /\ term = EmptyTerminal  BY <2>1, <2>3, <3>2
        <4>2. p.data = <<>>  BY <2>1, <2>2, <4>1, RunEnds
        <4>3. term' = EmptyTerminal  BY <1>7, <2>3, <3>2, <4>1, <4>2
        <4> QED  BY <1>8, <4>1, <4>3
      <3>3. CASE x # 0
        <4>1. x \in Nat /\ x > 0  BY <2>1, <2>3, <3>3
        <4>2. Stands(x, e)'  BY <1>2, <2>1, <2>3 DEF Stands, Top
        <4>3. Stands(term.consumed, e)'  BY <2>6, <4>2 DEF Stands
        <4>4. ShowsTo(term.screen, e)'  BY <2>6, <3>1 DEF ShowsTo
        <4>5. TermInv'  BY <1>2, <1>9, <2>6, <4>1, <4>3, <4>4 DEF TermInv
        <4> QED  BY <1>3, <4>5 DEF ShowInv
      <3> QED  BY <3>2, <3>3
    <2>10. CASE term = EmptyTerminal
      <3>1. old = <<>> /\ term.screen = <<>>  BY <1>4, <2>10 DEF EmptyTerminal
      <3>2. ShowsTo(old, a) /\ ShowsTo(term.screen, e)  BY <3>1 DEF ShowsTo
      <3>3. View!ShownEnd = 0  BY <3>1, <3>2, EndShown
      <3>4. View!ShownEnd <= e  BY <2>2, <3>3
      <3>5. View!ViewNext  BY <1>2, <2>1, <2>5, <2>8, <3>1, <3>4, Repaints
      <3> QED  BY <2>9, <3>2, <3>5
    <2>11. ASSUME term # EmptyTerminal, NEW e0 \in Leads, e0 <= e, ShowsTo(term.screen, e0),
                  p.truncated \/ a = e0
           PROVE  ShowInv' /\ (View!ViewNext \/ UNCHANGED View!viewVars)
      <3>1. CASE p.truncated
        <4>1. old = <<>>  BY <1>4, <1>6, <2>11, <3>1 DEF TermInv
        <4>2. ShowsTo(old, a)  BY <4>1 DEF ShowsTo
        <4>3. View!ShownEnd = IF term.screen = <<>> THEN 0 ELSE e0  BY <2>11, EndShown
        <4>4. View!ShownEnd <= e
          <5>1. 0 <= e  BY <2>2
          <5> QED  BY <2>11, <4>3, <5>1
        <4>5. View!ViewNext  BY <1>2, <2>1, <2>5, <2>8, <4>1, <4>4, Repaints
        <4> QED  BY <2>9, <4>2, <4>5
      <3>2. CASE ~p.truncated
        <4>1. a = e0 /\ old = term.screen  BY <1>4, <2>11, <3>2
        <4>2. ShowsTo(old, a)  BY <2>11, <4>1
        <4>3. term'.screen = term.screen \o Run(e0, e)  BY <2>6, <4>1
        <4>4. View!ViewNext \/ UNCHANGED View!viewVars
          BY <1>2, <2>5, <2>11, <4>3, Extends
        <4> QED  BY <2>9, <4>2, <4>4
      <3> QED  BY <3>1, <3>2
    <2> QED  BY <2>1, <2>10, <2>11
  <1> QED  BY <1>1, <1>7, <1>8, <1>9 DEF ShowInv, ReplyInv

LEMMA InitView == Init => View!ViewInit
  <1>1. Len(<<>>) = 0 /\ 0 + 0 = 0  OBVIOUS
  <1> QED  BY <1>1 DEF Init, View!ViewInit, End, EmptyBuffer, EmptyTerminal

LEMMA StepShows ==
  PipeInv /\ FrameInv /\ ShowInv /\ [Next]_vars /\ [CleanRead]_vars
    => ShowInv' /\ (View!ViewNext \/ UNCHANGED View!viewVars)
  <1> SUFFICES ASSUME PipeInv, FrameInv, ShowInv, [Next]_vars, [CleanRead]_vars
               PROVE  ShowInv' /\ (View!ViewNext \/ UNCHANGED View!viewVars)
    OBVIOUS
  <1>0. KeepsPlace  BY StepFrames
  \* A step of the app's reader or of nobody the terminal knows.
  <1>1. ASSUME UNCHANGED <<term, reply, buffer>>
        PROVE  ShowInv' /\ (View!ViewNext \/ UNCHANGED View!viewVars)
    <2>1. UNCHANGED End(buffer)  BY <1>1 DEF End
    <2> QED  BY <1>0, <1>1, <2>1, ShowStays DEF View!viewVars
  <1>2. ASSUME NEW n \in 1 .. MaxChunk, PushAndFanout(n)
        PROVE  ShowInv' /\ (View!ViewNext \/ UNCHANGED View!viewVars)
    <2>1. UNCHANGED <<term, reply>>  BY <1>2 DEF PushAndFanout, uiVars
    <2>2. PICK from, to : from = End(buffer) /\ to = from + n  OBVIOUS
    <2>3. buffer' = Push(buffer, Run(from, to))  BY <1>2, <2>2 DEF PushAndFanout
    <2>4. /\ n \in Nat /\ n > 0 /\ from \in Nat /\ buffer.base \in Nat
          /\ Stretch(buffer.bytes, from)
      BY <2>2, StreamAssumption DEF PipeInv, Windows
    <2>5. to \in Nat /\ from <= to /\ to - from = n  BY <2>2, <2>4
    <2>6. PICK v : v = Push(buffer, Run(from, to))  OBVIOUS
    <2>7. End(v) = End(buffer) + (to - from)  BY <2>4, <2>5, <2>6, PushIs
    <2>8. End(buffer)' = from + n  BY <2>2, <2>3, <2>5, <2>6, <2>7 DEF End
    <2>9. from + n > from  BY <2>4
    <2>10. View!Write  BY <2>1, <2>2, <2>8, <2>9 DEF View!Write
    <2> QED  BY <1>0, <2>1, <2>10, ShowStays DEF View!ViewNext
  <1>3. ASSUME NEW c \in Conns, ServerStep(c) \/ ConnBreaks(c)
        PROVE  ShowInv' /\ (View!ViewNext \/ UNCHANGED View!viewVars)
    <2>1. UNCHANGED <<term, reply, buffer>>
      BY <1>3 DEF ServerStep, AttachGate, Subscribe, DrainChunk, DrainClosed, Classify,
         PeerGoneOrSilent, ConnBreaks, EndConn, uiVars
    <2> QED  BY <1>1, <2>1
  <1>4. CASE ReaderStep
    <2>1. UNCHANGED <<term, reply, buffer>>
      BY <1>4 DEF ReaderStep, Dial, ReadFrame, ReadEof, daemonVars, uiVars
    <2> QED  BY <1>1, <2>1
  <1>5. CASE ReadOutputDelta
    <2>1. CleanRead \/ UNCHANGED vars  OBVIOUS
    <2>2. CASE UNCHANGED vars
      <3>1. UNCHANGED <<term, reply, buffer>>  BY <2>2 DEF vars, daemonVars, uiVars
      <3> QED  BY <1>1, <3>1
    <2>3. CASE CleanRead
      <3>1. ShowInv'  BY <1>5, <2>3, ReadShows
      <3>2. UNCHANGED <<term, buffer>>  BY <1>5 DEF ReadOutputDelta, daemonVars
      <3>3. UNCHANGED End(buffer)  BY <3>2 DEF End
      <3> QED  BY <3>1, <3>2, <3>3 DEF View!viewVars
    <2> QED  BY <2>1, <2>2, <2>3
  <1>6. CASE ApplyReply  BY <1>6, ReplyShows
  <1>7. CASE Reload
    <2>1. term' = EmptyTerminal /\ reply' = {} /\ UNCHANGED buffer
      BY <1>7 DEF Reload, daemonVars
    <2>2. ShowInv'  BY <2>1 DEF ShowInv, TermInv, ReplyInv
    <2>3. UNCHANGED End(buffer)  BY <2>1 DEF End
    <2>4. View!Blank  BY <2>1, <2>3 DEF View!Blank, EmptyTerminal
    <2> QED  BY <2>2, <2>4 DEF View!ViewNext
  <1>8. CASE PaneExits \/ CloseSubscribers \/ UNCHANGED vars
    <2>1. UNCHANGED <<term, reply, buffer>>
      BY <1>8 DEF PaneExits, CloseSubscribers, vars, daemonVars, uiVars
    <2> QED  BY <1>1, <2>1
  <1> QED  BY <1>2, <1>3, <1>4, <1>5, <1>6, <1>7, <1>8 DEF Next

\* As long as no read carries a cursor of an earlier attach to a buffer that
\* compaction has cut (ViewDelta then answers with the wrong offset), the path
\* from the PTY to the terminal implements OutputView: through overflows,
\* reconnects, compaction and reloads the screen is one unbroken stretch of the
\* pane's output in whole characters, and its end never goes back.
THEOREM ScreenIsUnbroken == Spec /\ [][CleanRead]_vars => ShowsUnbrokenOutput
  <1>1. Init => PipeInv /\ FrameInv /\ ShowInv /\ View!ViewInit
    BY InitPipe, InitFrames, InitShow, InitView
  <1>2. PipeInv /\ FrameInv /\ ShowInv /\ [Next]_vars /\ [CleanRead]_vars
          => /\ PipeInv' /\ FrameInv' /\ ShowInv'
             /\ [View!ViewNext]_View!viewVars
    BY StepPipe, StepFrames, StepShows
  <1> QED  BY <1>1, <1>2, PTL DEF Spec, ShowsUnbrokenOutput, View!ViewSpec

LEMMA ShowsOnce == ShowInv => ReplayedOnce
  <1> SUFFICES ASSUME ShowInv PROVE ReplayedOnce  OBVIOUS
  <1>1. PICK s : s = term.screen  OBVIOUS
  <1>2. CASE term = EmptyTerminal
    <2>1. DOMAIN s = {}  BY <1>1, <1>2 DEF EmptyTerminal
    <2> QED  BY <1>1, <2>1 DEF ReplayedOnce
  <1>3. ASSUME NEW e \in Leads, ShowsTo(s, e) PROVE ReplayedOnce
    <2>1. CASE s = <<>>
      <3>1. DOMAIN s = {}  BY <2>1
      <3> QED  BY <1>1, <3>1 DEF ReplayedOnce
    <2>2. ASSUME NEW lo \in Leads, s = Run(lo, e) PROVE ReplayedOnce
      <3>1. lo \in Nat  BY BufferAssumption
      <3>2. \A k \in DOMAIN s : k \in Int /\ s[k] = lo + k - 1  BY <2>2 DEF Run
      <3>3. ASSUME NEW i \in DOMAIN s, NEW j \in DOMAIN s, s[i] = s[j] PROVE i = j
        <4>1. i \in Int /\ j \in Int /\ lo + i - 1 = lo + j - 1  BY <3>2, <3>3
        <4> QED  BY <3>1, <4>1
      <3> QED  BY <1>1, <3>3 DEF ReplayedOnce
    <2> QED  BY <1>3, <2>1, <2>2 DEF ShowsTo
  <1>4. term = EmptyTerminal \/ \E e \in Leads : ShowsTo(s, e)
    BY <1>1 DEF ShowInv, TermInv
  <1> QED  BY <1>2, <1>3, <1>4

\* "Exactly one full replay" (StreamBuf.gen_base) holds of every behaviour
\* without that sequence: no byte of the output is on the screen twice.
THEOREM OnlyThatReplays == Spec /\ [][CleanRead]_vars => []ReplayedOnce
  <1>1. Init => PipeInv /\ FrameInv /\ ShowInv  BY InitPipe, InitFrames, InitShow
  <1>2. PipeInv /\ FrameInv /\ ShowInv /\ [Next]_vars /\ [CleanRead]_vars
          => PipeInv' /\ FrameInv' /\ ShowInv'
    BY StepPipe, StepFrames, StepShows
  <1> QED  BY <1>1, <1>2, ShowsOnce, PTL DEF Spec
=============================================================================
