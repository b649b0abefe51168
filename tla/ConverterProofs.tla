-------------------------- MODULE ConverterProofs --------------------------
(***************************************************************************)
(* That the validator accepts what the server is asked for, that what it   *)
(* lets pass is stored whole, and that no frame is larger than its slot:   *)
(* for every size of a byte, of a frame and of a history.                  *)
(***************************************************************************)
EXTENDS DataConverter, NumberLemmas, SequenceTheorems

-----------------------------------------------------------------------------
(* One sequence after the other.                                           *)

\* FlattenSeq goes through the sequences from the front.
Flattens(flat, S, s) ==
  /\ flat \in [0..Len(s) -> Seq(S)]
  /\ flat[0] = <<>>
  /\ \A i \in 1..Len(s) : flat[i] = flat[i - 1] \o s[i]
  /\ FlattenSeq(s) = flat[Len(s)]

LEMMA FlattenRecursion ==
  ASSUME NEW S, NEW s \in Seq(Seq(S))
  PROVE  \E flat : Flattens(flat, S, s)
<1> DEFINE n == Len(s)
           Lists == Seq(S)
           step == [p \in Lists \X Nat |-> IF p[2] \in 1..n THEN p[1] \o s[p[2]] ELSE p[1]]
           F(g) == [i \in 1..Len(s) |-> IF i = 1 THEN s[i] ELSE g[i - 1] \o s[i]]
           flatten == CHOOSE g : g = F(g)
<1>1. n \in Nat /\ <<>> \in Lists /\ \A i \in 1..n : s[i] \in Lists
  OBVIOUS
<1>2. \A k \in Lists, i \in 1..n : k \o s[i] \in Lists
  BY <1>1
<1>3. step \in [Lists \X Nat -> Lists] /\ \A k \in Lists, i \in 1..n : step[<<k, i>>] = k \o s[i]
  <2>1. \A p \in Lists \X Nat : (IF p[2] \in 1..n THEN p[1] \o s[p[2]] ELSE p[1]) \in Lists
    <3> HIDE DEF n, Lists
    <3> QED BY <1>2
  <2>2. step \in [Lists \X Nat -> Lists]
    <3> HIDE DEF n, Lists
    <3> QED BY <2>1
  <2>3. ASSUME NEW k \in Lists, NEW i \in 1..n PROVE step[<<k, i>>] = k \o s[i]
    <3>1. <<k, i>> \in Lists \X Nat
      BY <1>1
    <3> HIDE DEF n, Lists
    <3> QED BY <3>1
  <2> QED BY <2>2, <2>3
<1>4. PICK f \in [0..n -> Lists] : f[0] = <<>> /\ \A i \in 1..n : f[i] = step[<<f[i - 1], i>>]
  <2>1. IsStep(step, Lists)
    BY <1>3 DEF IsStep
  <2> HIDE DEF step, Lists, n
  <2>2. \E f : IsRecursion(f, Lists, <<>>, step, n)
    BY <1>1, <2>1, RecursionDefines
  <2> QED BY <2>2 DEF IsRecursion
<1>5. \A i \in 1..n : i - 1 \in 0..n /\ i # 0
  BY <1>1
<1>6. \A i \in 1..n : f[i] = f[i - 1] \o s[i]
  <2> HIDE DEF n, Lists, step
  <2> QED BY <1>3, <1>4, <1>5
<1>0. 1 \in 1..n => f[1] = s[1]
  <2> HIDE DEF n, Lists, step
  <2> SUFFICES ASSUME 1 \in 1..n PROVE f[1] = s[1]
    OBVIOUS
  <2>1. f[1] = f[0] \o s[1] /\ f[0] = <<>>
    <3>1. f[1] = f[1 - 1] \o s[1]
      BY <1>6
    <3>2. 1 - 1 = 0
      OBVIOUS
    <3> QED BY <1>4, <3>1, <3>2
  <2>2. <<>> \o s[1] = s[1]
    BY <1>1 DEF Lists
  <2> QED BY <2>1, <2>2
<1>7. CASE n = 0
  <2>1. FlattenSeq(s) = <<>>
    BY <1>7 DEF FlattenSeq
  <2>2. Flattens(f, S, s)
    BY <1>4, <1>6, <1>7, <2>1 DEF Flattens
  <2> QED BY <2>2
<1>8. CASE n # 0
  <2> DEFINE h == [i \in 1..n |-> f[i]]
  <2>1. h = F(h)
    <3>1. ASSUME NEW i \in 1..n PROVE h[i] = IF i = 1 THEN s[i] ELSE h[i - 1] \o s[i]
      <4>1. CASE i = 1
        BY <1>0, <4>1
      <4>2. CASE i # 1
        <5>1. i - 1 \in 1..n
          BY <1>1, <4>2
        <5> QED BY <1>6, <4>2, <5>1
      <4> QED BY <4>1, <4>2
    <3> HIDE DEF h
    <3>2. h = [i \in 1..n |-> h[i]]
      BY DEF h
    <3> QED BY <3>1, <3>2
  <2>2. flatten = F(flatten)
    <3> HIDE DEF F
    <3> QED BY <2>1
  <2>3. FlattenSeq(s) = flatten[n]
    BY <1>8 DEF FlattenSeq
  <2> HIDE DEF flatten, h
  <2>4. \A i \in 1..n : flatten[i] = IF i = 1 THEN s[i] ELSE flatten[i - 1] \o s[i]
    BY <2>2
  <2> DEFINE T == {i \in 0..n : i = 0 \/ flatten[i] = f[i]}
  <2>5. ASSUME NEW i \in 1..n, i - 1 \in T PROVE i \in T
    <3>1. i \in 0..n /\ i # 0
      BY <1>1
    <3>2. CASE i = 1
      BY <1>0, <2>4, <3>1, <3>2
    <3>3. CASE i # 1
      <4>1. flatten[i - 1] = f[i - 1]
        BY <2>5, <3>1, <3>3
      <4> QED BY <1>6, <2>4, <3>1, <3>3, <4>1
    <3> QED BY <3>2, <3>3
  <2>6. 0..n \subseteq T
    <3>1. 0 \in T
      BY <1>1
    <3> HIDE DEF T, n
    <3> QED BY <1>1, <2>5, <3>1, UptoInduction
  <2>7. flatten[n] = f[n]
    BY <1>1, <1>8, <2>6
  <2>8. Flattens(f, S, s)
    BY <1>4, <1>6, <2>3, <2>7 DEF Flattens
  <2> QED BY <2>8
<1> QED BY <1>7, <1>8

\* A concatenation: its length, and where its elements are from.
LEMMA ConcatIs ==
  ASSUME NEW S, NEW a \in Seq(S), NEW b \in Seq(S)
  PROVE  /\ a \o b \in Seq(S)
         /\ Len(a \o b) = Len(a) + Len(b)
         /\ \A k \in 1..Len(a) : (a \o b)[k] = a[k]
         /\ \A k \in 1..Len(b) : (a \o b)[Len(a) + k] = b[k]
<1>1. a \o b \in Seq(S) /\ Len(a \o b) = Len(a) + Len(b)
  OBVIOUS
<1>2. \A k \in 1..Len(a) : (a \o b)[k] = a[k]
  OBVIOUS
<1>3. ASSUME NEW k \in 1..Len(b) PROVE (a \o b)[Len(a) + k] = b[k]
  OBVIOUS
<1> QED BY <1>1, <1>2, <1>3

\* Flattening one sequence more.
LEMMA FlattenAppend ==
  ASSUME NEW S, NEW s \in Seq(Seq(S)), NEW x \in Seq(S)
  PROVE  FlattenSeq(Append(s, x)) = FlattenSeq(s) \o x
<1> DEFINE n == Len(s)
           t == Append(s, x)
<1>1. /\ n \in Nat /\ t \in Seq(Seq(S)) /\ Len(t) = n + 1
      /\ \A i \in 1..n : t[i] = s[i]
      /\ t[n + 1] = x
  <2>1. \A i \in 1..n : t[i] = s[i]
    OBVIOUS
  <2> QED BY <2>1
<1> HIDE DEF t
<1>2. PICK f : Flattens(f, S, s)
  BY FlattenRecursion
<1>3. PICK g : Flattens(g, S, t)
  BY <1>1, FlattenRecursion
<1>4. /\ f[0] = <<>> /\ \A i \in 1..n : f[i] = f[i - 1] \o s[i]
      /\ FlattenSeq(s) = f[n]
  BY <1>2 DEF Flattens
<1>5. /\ g[0] = <<>> /\ \A i \in 1..(n + 1) : g[i] = g[i - 1] \o t[i]
      /\ FlattenSeq(t) = g[n + 1]
  BY <1>1, <1>3 DEF Flattens
<1> HIDE DEF n
<1> DEFINE T == {i \in 0..n : g[i] = f[i]}
<1>6. 0 \in T
  BY <1>1, <1>4, <1>5
<1>7. ASSUME NEW i \in 1..n, i - 1 \in T PROVE i \in T
  <2>1. i \in 1..(n + 1) /\ i \in 0..n
    BY <1>1
  <2> QED BY <1>1, <1>4, <1>5, <1>7, <2>1
<1>8. 0..n \subseteq T
  <2> HIDE DEF T
  <2> QED BY <1>1, <1>6, <1>7, UptoInduction
<1>9. n \in 0..n /\ n + 1 \in 1..(n + 1) /\ n + 1 - 1 = n
  BY <1>1
<1>10. g[n] = f[n]
  BY <1>8, <1>9
<1>11. g[n + 1] = g[n] \o t[n + 1]
  <2>1. PICK i \in 1..(n + 1) : i = n + 1 /\ i - 1 = n
    BY <1>9
  <2>2. g[i] = g[i - 1] \o t[i]
    BY <1>5
  <2> QED BY <2>1, <2>2
<1> QED BY <1>1, <1>4, <1>5, <1>10, <1>11 DEF t

LEMMA FlattenEmpty == FlattenSeq(<<>>) = <<>>
BY DEF FlattenSeq

\* Less is a prefix of more.
LEMMA FlattenPrefix ==
  ASSUME NEW S, NEW s \in Seq(Seq(S)), NEW flat, Flattens(flat, S, s),
         NEW i \in 0..Len(s), NEW j \in 0..Len(s), i <= j
  PROVE  /\ Len(flat[i]) <= Len(flat[j])
         /\ \A k \in 1..Len(flat[i]) : flat[j][k] = flat[i][k]
<1> DEFINE n == Len(s)
           Begins(m) == Len(flat[i]) <= Len(flat[m]) /\ \A k \in 1..Len(flat[i]) : flat[m][k] = flat[i][k]
           T == {m \in 0..n : i <= m => Begins(m)}
<1>1. n \in Nat /\ \A m \in 0..n : flat[m] \in Seq(S) /\ Len(flat[m]) \in Nat
  <2>1. flat \in [0..n -> Seq(S)]
    BY DEF Flattens
  <2> HIDE DEF n
  <2>2. \A m \in 0..n : flat[m] \in Seq(S)
    BY <2>1
  <2> QED BY <2>2 DEF n
<1>2. \A m \in 1..n : flat[m] = flat[m - 1] \o s[m] /\ s[m] \in Seq(S) /\ m - 1 \in 0..n
  <2>1. \A m \in 1..n : flat[m] = flat[m - 1] \o s[m]
    BY DEF Flattens
  <2>2. \A m \in 1..n : s[m] \in Seq(S) /\ m - 1 \in 0..n
    OBVIOUS
  <2> QED BY <2>1, <2>2
<1> HIDE DEF n
<1>3. Begins(i)
  BY <1>1 DEF n
<1>4. 0 \in T
  <2>1. i <= 0 => i = 0
    BY <1>1 DEF n
  <2> QED BY <1>1, <1>3, <2>1
<1>5. ASSUME NEW m \in 1..n, m - 1 \in T PROVE m \in T
  <2> SUFFICES ASSUME i <= m PROVE Begins(m)
    BY <1>1
  <2>1. CASE i = m
    BY <1>3, <2>1
  <2>2. CASE i # m
    <3>1. i <= m - 1
      BY <1>1, <2>2 DEF n
    <3>2. Begins(m - 1)
      BY <1>5, <3>1
    <3> DEFINE p == flat[m - 1]
    <3>3. p \in Seq(S) /\ s[m] \in Seq(S) /\ flat[m] = p \o s[m] /\ i \in 0..n
      BY <1>1, <1>2 DEF n
    <3> HIDE DEF p
    <3>4. /\ Len(flat[m]) = Len(p) + Len(s[m]) /\ Len(s[m]) \in Nat /\ Len(p) \in Nat
          /\ \A k \in 1..Len(p) : flat[m][k] = p[k]
      BY <3>3, ConcatIs
    <3>5. Len(flat[i]) \in Nat /\ Len(flat[i]) <= Len(p) /\ \A k \in 1..Len(flat[i]) : p[k] = flat[i][k]
      BY <1>1, <3>2, <3>3 DEF p
    <3> QED BY <3>4, <3>5
  <2> QED BY <2>1, <2>2
<1>6. 0..n \subseteq T
  <2> HIDE DEF T
  <2> QED BY <1>1, <1>4, <1>5, UptoInduction
<1> QED BY <1>6 DEF n

-----------------------------------------------------------------------------
(* The loop that cuts a message.                                           *)

\* Where it stands, and one round of it.
Cuts(message) == [start : 0..Len(message), frames : Seq(Seq(Bytes))]
FrameEnd(message, weight, start) == start + FrameLength(LedCount(message, start, weight))
FrameFits(message, weight, start) ==
  start + BytesInHeader < Len(message) /\ FrameEnd(message, weight, start) <= Len(message)
Round(message, weight, now) ==
  IF FrameFits(message, weight, now.start)
    THEN [start |-> FrameEnd(message, weight, now.start),
          frames |-> Append(now.frames, SubSeq(message, now.start + 1, FrameEnd(message, weight, now.start)))]
    ELSE now

\* A frame that fits is a part of the message.
LEMMA FrameFitsIs ==
  ASSUME NEW message \in Seq(Bytes), NEW weight \in Nat, NEW start \in 0..Len(message),
         FrameFits(message, weight, start)
  PROVE  LET end == FrameEnd(message, weight, start)
             count == LedCount(message, start, weight)
             frame == SubSeq(message, start + 1, end)
         IN /\ count \in Nat
            /\ end \in 0..Len(message) /\ start + 2 <= end
            /\ frame \in Seq(Bytes) /\ Len(frame) = end - start /\ Len(frame) = FrameLength(count)
            /\ \A k \in 1..Len(frame) : frame[k] = message[start + k]
            /\ count = frame[1] * weight + frame[2]
<1> DEFINE end == FrameEnd(message, weight, start)
           count == LedCount(message, start, weight)
           frame == SubSeq(message, start + 1, end)
<1>1. start + 2 < Len(message) /\ start \in Nat /\ Len(message) \in Nat
  BY DEF FrameFits, BytesInHeader
<1>2. message[start + 1] \in Nat /\ message[start + 2] \in Nat
  <2>1. start + 1 \in 1..Len(message) /\ start + 2 \in 1..Len(message)
    BY <1>1
  <2>2. message[start + 1] \in Bytes /\ message[start + 2] \in Bytes
    BY <2>1
  <2>3. Bytes \subseteq Nat
    BY DEF Bytes
  <2> QED BY <2>2, <2>3
<1>3. count \in Nat
  <2>1. \A a, b, c \in Nat : a * b + c \in Nat
    OBVIOUS
  <2> QED BY <1>2, <2>1 DEF LedCount
<1>4. FrameLength(count) \in Nat /\ FrameLength(count) >= 2
  <2>1. \A a, b \in Nat : 2 + a * b \in Nat /\ 2 + a * b >= 2
    <3>1. \A a, b \in Nat : a * b \in Nat
      OBVIOUS
    <3>2. \A a \in Nat : 2 + a \in Nat /\ 2 + a >= 2
      OBVIOUS
    <3> QED BY <3>1, <3>2
  <2> QED BY <1>3, <2>1, DataAssumption DEF FrameLength, BytesInHeader
<1>5. end = start + FrameLength(count) /\ end <= Len(message)
  BY DEF FrameFits, FrameEnd
<1> HIDE DEF end, count
<1>6. end \in 0..Len(message) /\ start + 2 <= end /\ end - start = FrameLength(count)
  BY <1>1, <1>4, <1>5
<1>7. /\ frame \in Seq(Bytes) /\ Len(frame) = end - start
      /\ \A k \in 1..Len(frame) : frame[k] = message[start + k]
  <2>1. \A k \in (start + 1)..end : message[k] \in Bytes
    BY <1>1, <1>6
  <2>2. frame \in Seq(Bytes) /\ Len(frame) = end - start
    BY <1>1, <1>6, <2>1
  <2>3. \A k \in 1..(end - start) : frame[k] = message[start + k]
    BY <1>1, <1>6
  <2> QED BY <2>2, <2>3
<1>8. count = frame[1] * weight + frame[2]
  <2>1. 1 \in 1..Len(frame) /\ 2 \in 1..Len(frame)
    BY <1>1, <1>6, <1>7
  <2>2. frame[1] = message[start + 1] /\ frame[2] = message[start + 2]
    BY <1>7, <2>1
  <2> QED BY <2>2 DEF count, LedCount
<1> QED BY <1>3, <1>6, <1>7, <1>8 DEF end, count

\* A round goes on from where the loop stands.
LEMMA RoundType ==
  ASSUME NEW message \in Seq(Bytes), NEW weight \in Nat, NEW now \in Cuts(message)
  PROVE  Round(message, weight, now) \in Cuts(message)
<1>1. now.start \in 0..Len(message) /\ now.frames \in Seq(Seq(Bytes))
  BY DEF Cuts
<1>2. CASE FrameFits(message, weight, now.start)
  <2> DEFINE end == FrameEnd(message, weight, now.start)
             frame == SubSeq(message, now.start + 1, end)
  <2>1. end \in 0..Len(message) /\ frame \in Seq(Bytes)
    BY <1>1, <1>2, FrameFitsIs
  <2>2. Round(message, weight, now) = [start |-> end, frames |-> Append(now.frames, frame)]
    BY <1>2 DEF Round
  <2> HIDE DEF end, frame
  <2>3. Append(now.frames, frame) \in Seq(Seq(Bytes))
    BY <1>1, <2>1
  <2> QED BY <2>1, <2>2, <2>3 DEF Cuts
<1>3. CASE ~FrameFits(message, weight, now.start)
  BY <1>3 DEF Round
<1> QED BY <1>2, <1>3

\* CutFrames makes HistoryFrames rounds from the front of the message.
CutsBy(loop, message, weight) ==
  /\ loop \in [0..HistoryFrames -> Cuts(message)]
  /\ loop[0] = [start |-> 0, frames |-> <<>>]
  /\ \A n \in 1..HistoryFrames : loop[n] = Round(message, weight, loop[n - 1])
  /\ CutFrames(message, weight) = loop[HistoryFrames]

LEMMA CutRecursion ==
  ASSUME NEW message \in Seq(Bytes), NEW weight \in Nat
  PROVE  \E loop : CutsBy(loop, message, weight)
<1> DEFINE S == Cuts(message)
           base == [start |-> 0, frames |-> <<>>]
           H == HistoryFrames
           step == [p \in S \X Nat |-> Round(message, weight, p[1])]
           Body(now) ==
             LET end == now.start + FrameLength(LedCount(message, now.start, weight))
             IN IF now.start + BytesInHeader >= Len(message) \/ end > Len(message) THEN now
                ELSE [start |-> end,
                      frames |-> Append(now.frames, SubSeq(message, now.start + 1, end))]
           F(g) == [n \in 0..HistoryFrames |->
                      IF n = 0 THEN [start |-> 0, frames |-> <<>>]
                      ELSE LET now == g[n - 1]
                               end == now.start + FrameLength(LedCount(message, now.start, weight))
                           IN IF now.start + BytesInHeader >= Len(message) \/ end > Len(message) THEN now
                              ELSE [start |-> end,
                                    frames |-> Append(now.frames, SubSeq(message, now.start + 1, end))]]
           cut == CHOOSE g : g = F(g)
<1>1. H \in Nat /\ Len(message) \in Nat /\ base \in S
  <2>1. base.start \in 0..Len(message) /\ base.frames \in Seq(Seq(Bytes))
    OBVIOUS
  <2> QED BY <2>1, DataAssumption DEF Cuts
<1>2. \A now \in S : Round(message, weight, now) \in S
  BY RoundType
<1>3. \A now \in S : Body(now) = Round(message, weight, now)
  <2> TAKE now \in S
  <2> DEFINE length == FrameLength(LedCount(message, now.start, weight))
  <2>1. now.start \in 0..Len(message)
    BY DEF Cuts
  <2>2. CASE now.start + BytesInHeader >= Len(message)
    <3>1. ~(now.start + BytesInHeader < Len(message))
      BY <1>1, <2>1, <2>2 DEF BytesInHeader
    <3> QED BY <2>2, <3>1 DEF Round, FrameFits
  <2>3. CASE ~(now.start + BytesInHeader >= Len(message))
    <3>1. now.start + BytesInHeader < Len(message)
      BY <1>1, <2>1, <2>3 DEF BytesInHeader
    <3>2. length \in Nat
      <4>1. now.start + 1 \in 1..Len(message) /\ now.start + 2 \in 1..Len(message)
        BY <1>1, <2>1, <3>1 DEF BytesInHeader
      <4>2. message[now.start + 1] \in Nat /\ message[now.start + 2] \in Nat
        <5>1. message[now.start + 1] \in Bytes /\ message[now.start + 2] \in Bytes
          BY <4>1
        <5> QED BY <5>1 DEF Bytes
      <4>3. \A a, b, c \in Nat : a * b + c \in Nat
        OBVIOUS
      <4>4. LedCount(message, now.start, weight) \in Nat
        BY <4>2, <4>3 DEF LedCount
      <4>5. \A a, b \in Nat : 2 + a * b \in Nat
        <5>1. \A a, b \in Nat : a * b \in Nat
          OBVIOUS
        <5> QED BY <5>1
      <4> QED BY <4>4, <4>5, DataAssumption DEF FrameLength, BytesInHeader
    <3>3. now.start + length > Len(message) <=> ~(now.start + length <= Len(message))
      <4> HIDE DEF length
      <4> QED BY <1>1, <2>1, <3>2
    <3> QED BY <2>3, <3>1, <3>3 DEF Round, FrameFits, FrameEnd
  <2> QED BY <2>2, <2>3
<1>4. step \in [S \X Nat -> S] /\ \A now \in S, n \in Nat : step[<<now, n>>] = Round(message, weight, now)
  <2> HIDE DEF S
  <2> QED BY <1>2
<1>5. PICK f \in [0..H -> S] : f[0] = base /\ \A n \in 1..H : f[n] = step[<<f[n - 1], n>>]
  <2>1. IsStep(step, S)
    BY <1>4 DEF IsStep
  <2> HIDE DEF step, S, H, base
  <2>2. \E f : IsRecursion(f, S, base, step, H)
    BY <1>1, <2>1, RecursionDefines
  <2> QED BY <2>2 DEF IsRecursion
<1>6. \A n \in 1..H : n \in Nat /\ n \in 0..H /\ n - 1 \in 0..H /\ n # 0
  BY <1>1
<1>7. \A n \in 1..H : f[n] = Round(message, weight, f[n - 1]) /\ f[n] = Body(f[n - 1])
  <2> HIDE DEF S, H, step, Body
  <2> QED BY <1>3, <1>4, <1>5, <1>6
<1>8. f = F(f)
  <2>1. f = [n \in 0..H |-> IF n = 0 THEN base ELSE Body(f[n - 1])]
    <3> HIDE DEF S, H, step, Body, base
    <3>1. \A n \in 0..H : f[n] = IF n = 0 THEN base ELSE Body(f[n - 1])
      BY <1>1, <1>5, <1>7
    <3> QED BY <3>1
  <2> QED BY <2>1
<1>9. cut = F(cut)
  <2> HIDE DEF F
  <2> QED BY <1>8
<1>10. CutFrames(message, weight) = cut[HistoryFrames]
  BY DEF CutFrames
<1>11. \A n \in 0..H : cut[n] = IF n = 0 THEN base ELSE Body(cut[n - 1])
  <2> HIDE DEF cut
  <2> QED BY <1>9
<1> HIDE DEF cut, F, Body, base, S, step
<1> DEFINE T == {n \in 0..H : cut[n] = f[n]}
<1>12. 0 \in T
  BY <1>1, <1>5, <1>11
<1>13. ASSUME NEW n \in 1..H, n - 1 \in T PROVE n \in T
  BY <1>6, <1>7, <1>11, <1>13
<1>14. 0..H \subseteq T
  <2> HIDE DEF T
  <2> QED BY <1>1, <1>12, <1>13, UptoInduction
<1>15. cut[H] = f[H]
  BY <1>1, <1>14
<1>16. CutsBy(f, message, weight)
  BY <1>5, <1>7, <1>10, <1>15 DEF CutsBy, S, base
<1> QED BY <1>16

\* What was cut off: the message up to where the loop stands, in frames as long as
\* they state.
AsLongAsStated(frame, weight) ==
  Len(frame) >= 2 /\ Len(frame) = FrameLength(frame[1] * weight + frame[2])
IsCut(now, message, weight) ==
  /\ now \in Cuts(message)
  /\ FlattenSeq(now.frames) = SubSeq(message, 1, now.start)
  /\ \A i \in 1..Len(now.frames) : AsLongAsStated(now.frames[i], weight)

LEMMA RoundCuts ==
  ASSUME NEW message \in Seq(Bytes), NEW weight \in Nat, NEW now, IsCut(now, message, weight)
  PROVE  /\ IsCut(Round(message, weight, now), message, weight)
         /\ Len(Round(message, weight, now).frames) <= Len(now.frames) + 1
<1> DEFINE next == Round(message, weight, now)
<1>1. /\ now \in Cuts(message) /\ now.start \in 0..Len(message) /\ now.frames \in Seq(Seq(Bytes))
      /\ Len(now.frames) \in Nat
  BY DEF IsCut, Cuts
<1>2. next \in Cuts(message)
  BY <1>1, RoundType
<1>3. CASE FrameFits(message, weight, now.start)
  <2> DEFINE start == now.start
             list == now.frames
             end == FrameEnd(message, weight, start)
             frame == SubSeq(message, start + 1, end)
             count == LedCount(message, start, weight)
  <2>1. /\ end \in 0..Len(message) /\ start + 2 <= end
        /\ frame \in Seq(Bytes) /\ Len(frame) = end - start /\ Len(frame) = FrameLength(count)
        /\ \A k \in 1..Len(frame) : frame[k] = message[start + k]
        /\ count = frame[1] * weight + frame[2]
    BY <1>1, <1>3, FrameFitsIs
  <2>2. next.start = end /\ next.frames = Append(list, frame)
    BY <1>3 DEF Round
  <2>3. AsLongAsStated(frame, weight)
    <3>1. Len(frame) >= 2
      BY <1>1, <2>1
    <3> QED BY <2>1, <3>1 DEF AsLongAsStated
  <2>4. FlattenSeq(list) = SubSeq(message, 1, start)
    BY DEF IsCut
  <2> HIDE DEF start, list, end, frame, count, next
  <2>5. FlattenSeq(next.frames) = FlattenSeq(list) \o frame
    BY <1>1, <2>1, <2>2, FlattenAppend DEF list
  <2>6. SubSeq(message, 1, start) \o frame = SubSeq(message, 1, end)
    <3> DEFINE a == SubSeq(message, 1, start)
               b == SubSeq(message, 1, end)
    <3>1. start \in 0..Len(message) /\ Len(message) \in Nat /\ start <= end
      BY <1>1, <2>1 DEF start
    <3>2. /\ a \in Seq(Bytes) /\ Len(a) = start
          /\ \A k \in 1..start : a[k] = message[k]
      BY <3>1
    <3>3. /\ b \in Seq(Bytes) /\ Len(b) = end
          /\ \A k \in 1..end : b[k] = message[k]
      BY <2>1, <3>1
    <3> HIDE DEF a, b
    <3>4. PICK c : c = a \o frame
      OBVIOUS
    <3>5. /\ c \in Seq(Bytes) /\ Len(c) = Len(a) + Len(frame)
          /\ \A k \in 1..Len(a) : c[k] = a[k]
          /\ \A k \in 1..Len(frame) : c[Len(a) + k] = frame[k]
      <4>1. a \in Seq(Bytes) /\ frame \in Seq(Bytes)
        BY <2>1, <3>2
      <4> QED BY <3>4, <4>1, ConcatIs
    <3>6. ASSUME NEW k \in 1..end PROVE c[k] = b[k]
      <4>1. CASE k <= start
        <5>1. k \in 1..start /\ k \in 1..Len(a)
          BY <2>1, <3>1, <3>2, <4>1
        <5> QED BY <3>2, <3>3, <3>5, <5>1
      <4>2. CASE k > start
        <5>1. PICK j \in 1..Len(frame) : start + j = k
          <6>1. k - start \in 1..Len(frame) /\ start + (k - start) = k
            BY <2>1, <3>1, <4>2
          <6> QED BY <6>1
        <5>2. c[start + j] = frame[j] /\ frame[j] = message[start + j]
          BY <2>1, <3>2, <3>5
        <5> QED BY <3>3, <5>1, <5>2
      <4> QED BY <2>1, <3>1, <4>1, <4>2
    <3>7. Len(c) = end
      <4>1. Len(frame) = end - start /\ start \in Nat /\ end \in Nat
        BY <2>1, <3>1
      <4> QED BY <3>2, <3>5, <4>1
    <3>8. c = b
      BY <3>3, <3>5, <3>6, <3>7, SeqEqual
    <3> QED BY <3>4, <3>8 DEF a, b
  <2>7. /\ Len(next.frames) = Len(list) + 1
        /\ \A i \in 1..Len(list) : next.frames[i] = list[i]
        /\ next.frames[Len(list) + 1] = frame
    BY <1>1, <2>1, <2>2 DEF list
  <2>8. \A i \in 1..Len(next.frames) : AsLongAsStated(next.frames[i], weight)
    <3> TAKE i \in 1..Len(next.frames)
    <3>1. i \in 1..Len(list) \/ i = Len(list) + 1
      BY <1>1, <2>7 DEF list
    <3>2. \A j \in 1..Len(list) : AsLongAsStated(list[j], weight)
      BY DEF IsCut, list
    <3> QED BY <2>3, <2>7, <3>1, <3>2
  <2>9. FlattenSeq(next.frames) = SubSeq(message, 1, next.start)
    BY <2>2, <2>4, <2>5, <2>6
  <2>10. Len(next.frames) <= Len(now.frames) + 1
    BY <1>1, <2>7 DEF list
  <2>11. IsCut(next, message, weight)
    BY <1>2, <2>8, <2>9 DEF IsCut
  <2> QED BY <2>10, <2>11 DEF next
<1>4. CASE ~FrameFits(message, weight, now.start)
  <2>1. next = now
    BY <1>4 DEF Round
  <2> HIDE DEF next
  <2>2. Len(next.frames) <= Len(now.frames) + 1
    BY <1>1, <2>1
  <2> QED BY <2>1, <2>2 DEF next
<1> QED BY <1>3, <1>4

LEMMA LoopCuts ==
  ASSUME NEW message \in Seq(Bytes), NEW weight \in Nat, NEW loop, CutsBy(loop, message, weight)
  PROVE  \A n \in 0..HistoryFrames :
           IsCut(loop[n], message, weight) /\ Len(loop[n].frames) <= n
<1> DEFINE H == HistoryFrames
           T == {n \in 0..H : IsCut(loop[n], message, weight) /\ Len(loop[n].frames) <= n}
<1>1. H \in Nat
  BY DataAssumption
<1>2. /\ loop[0] \in Cuts(message) /\ loop[0].start = 0 /\ loop[0].frames = <<>>
      /\ \A n \in 1..H : loop[n] = Round(message, weight, loop[n - 1])
  <2>1. loop \in [0..H -> Cuts(message)] /\ 0 \in 0..H
    BY <1>1 DEF CutsBy
  <2>2. loop[0] \in Cuts(message)
    BY <2>1
  <2> QED BY <2>2 DEF CutsBy
<1>3. 0 \in T
  <2>1. SubSeq(message, 1, 0) = <<>>
    OBVIOUS
  <2>2. FlattenSeq(loop[0].frames) = SubSeq(message, 1, loop[0].start)
    BY <1>2, <2>1, FlattenEmpty
  <2>3. Len(loop[0].frames) = 0
    BY <1>2
  <2>4. \A i \in 1..Len(loop[0].frames) : AsLongAsStated(loop[0].frames[i], weight)
    BY <2>3
  <2>5. IsCut(loop[0], message, weight)
    BY <1>2, <2>2, <2>4 DEF IsCut
  <2> QED BY <1>1, <2>3, <2>5
<1>4. ASSUME NEW n \in 1..H, n - 1 \in T PROVE n \in T
  <2>1. IsCut(loop[n - 1], message, weight) /\ Len(loop[n - 1].frames) <= n - 1
    BY <1>4
  <2>2. /\ IsCut(loop[n], message, weight)
        /\ Len(loop[n].frames) <= Len(loop[n - 1].frames) + 1
    BY <1>2, <2>1, RoundCuts
  <2>3. Len(loop[n].frames) \in Nat /\ Len(loop[n - 1].frames) \in Nat
    BY <2>1, <2>2 DEF IsCut, Cuts
  <2>4. n \in 0..H /\ Len(loop[n].frames) <= n
    BY <1>1, <2>1, <2>2, <2>3
  <2> QED BY <2>2, <2>4
<1>5. 0..H \subseteq T
  <2> HIDE DEF T
  <2> QED BY <1>1, <1>3, <1>4, UptoInduction
<1> QED BY <1>5
\* A round that cuts off a frame, and one that does not.
LEMMA RoundIs ==
  ASSUME NEW message, NEW weight, NEW now
  PROVE  LET next == Round(message, weight, now)
             end == FrameEnd(message, weight, now.start)
         IN IF FrameFits(message, weight, now.start)
              THEN next.start = end /\ next.frames = Append(now.frames, SubSeq(message, now.start + 1, end))
              ELSE next = now
<1> DEFINE end == FrameEnd(message, weight, now.start)
           list == Append(now.frames, SubSeq(message, now.start + 1, end))
<1>1. ASSUME FrameFits(message, weight, now.start)
      PROVE  Round(message, weight, now) = [start |-> end, frames |-> list]
  BY <1>1 DEF Round
<1>2. ASSUME ~FrameFits(message, weight, now.start)
      PROVE  Round(message, weight, now) = now
  BY <1>2 DEF Round
<1>3. [start |-> end, frames |-> list].start = end /\ [start |-> end, frames |-> list].frames = list
  <2> HIDE DEF end, list
  <2> QED OBVIOUS
<1> QED BY <1>1, <1>2, <1>3

\* The loop keeps what it has cut off, and a round adds at most one frame.
LEMMA LoopGrows ==
  ASSUME NEW message \in Seq(Bytes), NEW weight \in Nat, NEW loop, CutsBy(loop, message, weight),
         NEW n \in 0..HistoryFrames, NEW m \in 0..HistoryFrames, n <= m
  PROVE  LET now == loop[n].frames
             later == loop[m].frames
         IN /\ Len(now) <= Len(later) /\ Len(later) <= Len(now) + (m - n)
            /\ \A i \in 1..Len(now) : later[i] = now[i]
<1> DEFINE H == HistoryFrames
           list(k) == loop[k].frames
           Grown(k) == /\ Len(list(n)) <= Len(list(k)) /\ Len(list(k)) <= Len(list(n)) + (k - n)
                       /\ \A i \in 1..Len(list(n)) : list(k)[i] = list(n)[i]
           T == {k \in 0..H : n <= k => Grown(k)}
<1>1. H \in Nat /\ n \in 0..H /\ m \in 0..H
  BY DataAssumption
<1>2. \A k \in 0..H : loop[k] \in Cuts(message) /\ list(k) \in Seq(Seq(Bytes)) /\ Len(list(k)) \in Nat
  <2>1. loop \in [0..H -> Cuts(message)]
    BY DEF CutsBy
  <2> TAKE k \in 0..H
  <2>2. loop[k] \in Cuts(message)
    BY <2>1
  <2> QED BY <2>2 DEF Cuts
<1>3. \A k \in 1..H : loop[k] = Round(message, weight, loop[k - 1])
  BY DEF CutsBy
<1>4. Grown(n)
  BY <1>1, <1>2
<1>5. 0 \in T
  <2>1. n <= 0 => n = 0
    BY <1>1
  <2>2. n <= 0 => Grown(0)
    BY <1>4, <2>1
  <2> QED BY <1>1, <2>2
<1>6. ASSUME NEW k \in 1..H, k - 1 \in T PROVE k \in T
  <2> SUFFICES ASSUME n <= k PROVE Grown(k)
    BY <1>1
  <2>1. CASE n = k
    BY <1>4, <2>1
  <2>2. CASE n # k
    <3>1. n <= k - 1 /\ k - 1 \in 0..H /\ k \in Nat
      BY <1>1, <2>2
    <3>2. Grown(k - 1)
      BY <1>6, <3>1
    <3>3. list(k) = list(k - 1) \/ \E frame : list(k) = Append(list(k - 1), frame)
      <4>1. loop[k] = Round(message, weight, loop[k - 1])
        BY <1>3
      <4> DEFINE now == loop[k - 1]
                 part == SubSeq(message, now.start + 1, FrameEnd(message, weight, now.start))
      <4>2. \/ Round(message, weight, now) = now
            \/ Round(message, weight, now).frames = Append(now.frames, part)
        BY RoundIs
      <4>3. list(k) = now.frames \/ list(k) = Append(now.frames, part)
        BY <4>1, <4>2
      <4> HIDE DEF part
      <4> QED BY <4>3
    <3>4. PICK now : now = list(k - 1)
      OBVIOUS
    <3>5. now \in Seq(Seq(Bytes)) /\ Len(now) \in Nat /\ Len(list(n)) \in Nat
      BY <1>1, <1>2, <3>1, <3>4
    <3>6. /\ Len(list(n)) <= Len(now) /\ Len(now) <= Len(list(n)) + (k - 1 - n)
          /\ \A i \in 1..Len(list(n)) : now[i] = list(n)[i]
      BY <3>2, <3>4
    <3>7. Len(now) + 1 <= Len(list(n)) + (k - n)
      BY <1>1, <3>1, <3>5, <3>6
    <3> HIDE DEF list
    <3>8. CASE list(k) = now
      BY <1>1, <3>1, <3>5, <3>6, <3>7, <3>8
    <3>9. ASSUME NEW frame, list(k) = Append(now, frame) PROVE Grown(k)
      <4>1. Len(list(k)) = Len(now) + 1 /\ \A i \in 1..Len(now) : list(k)[i] = now[i]
        BY <3>5, <3>9
      <4>2. \A i \in 1..Len(list(n)) : i \in 1..Len(now)
        BY <3>5, <3>6
      <4> QED BY <3>5, <3>6, <3>7, <4>1, <4>2
    <3> QED BY <3>3, <3>4, <3>8, <3>9
  <2> QED BY <2>1, <2>2
<1>7. 0..H \subseteq T
  <2> HIDE DEF T
  <2> QED BY <1>1, <1>5, <1>6, UptoInduction
<1>8. Grown(m)
  BY <1>1, <1>7
<1> QED BY <1>8

\* A loop that comes to HistoryFrames frames cuts one off in each round.
LEMMA FullLoop ==
  ASSUME NEW message \in Seq(Bytes), NEW weight \in Nat, NEW loop, CutsBy(loop, message, weight),
         Len(loop[HistoryFrames].frames) = HistoryFrames
  PROVE  \A n \in 1..HistoryFrames :
           LET now == loop[n - 1]
               frame == SubSeq(message, now.start + 1, FrameEnd(message, weight, now.start))
           IN /\ now \in Cuts(message)
              /\ FrameFits(message, weight, now.start)
              /\ loop[HistoryFrames].frames[n] = frame
<1> DEFINE H == HistoryFrames
<1>1. H \in Nat /\ H \in 0..H /\ 0 \in 0..H
  BY DataAssumption
<1>2. Len(loop[0].frames) = 0
  <2>1. loop[0].frames = <<>>
    BY DEF CutsBy
  <2> QED BY <2>1
<1>3. ASSUME NEW n \in 0..H PROVE Len(loop[n].frames) = n
  <2>1. 0 <= n /\ n <= H /\ n \in Nat
    BY <1>1
  <2>2. Len(loop[n].frames) <= Len(loop[0].frames) + (n - 0)
    BY <1>1, <2>1, LoopGrows
  <2>3. Len(loop[H].frames) <= Len(loop[n].frames) + (H - n)
    BY <1>1, <2>1, LoopGrows
  <2>4. Len(loop[n].frames) \in Nat
    <3>1. loop \in [0..H -> Cuts(message)]
      BY DEF CutsBy
    <3>2. loop[n] \in Cuts(message)
      BY <3>1
    <3> QED BY <3>2 DEF Cuts
  <2> QED BY <1>1, <1>2, <2>1, <2>2, <2>3, <2>4
<1> TAKE n \in 1..H
<1> DEFINE now == loop[n - 1]
           frame == SubSeq(message, now.start + 1, FrameEnd(message, weight, now.start))
<1>4. n - 1 \in 0..H /\ n \in 0..H /\ n \in Nat /\ n - 1 # n
  BY <1>1
<1>5. now \in Cuts(message)
  <2>1. loop \in [0..H -> Cuts(message)]
    BY DEF CutsBy
  <2> QED BY <1>4, <2>1
<1>6. loop[n] = Round(message, weight, now)
  BY DEF CutsBy
<1>7. FrameFits(message, weight, now.start)
  <2>1. Len(loop[n].frames) # Len(now.frames)
    BY <1>3, <1>4
  <2> QED BY <1>6, <2>1 DEF Round
<1>8. loop[H].frames[n] = loop[n].frames[n]
  <2>1. n <= H /\ n \in 1..Len(loop[n].frames)
    BY <1>1, <1>3, <1>4
  <2>2. \A i \in 1..Len(loop[n].frames) : loop[H].frames[i] = loop[n].frames[i]
    BY <1>1, <1>4, <2>1, LoopGrows
  <2> QED BY <2>1, <2>2
<1>9. loop[n].frames[n] = frame
  <2>1. loop[n].frames = Append(now.frames, frame)
    BY <1>6, <1>7, RoundIs
  <2>2. now.frames \in Seq(Seq(Bytes)) /\ Len(now.frames) + 1 = n
    <3>1. now.frames \in Seq(Seq(Bytes))
      BY <1>5 DEF Cuts
    <3>2. Len(now.frames) = n - 1
      BY <1>3, <1>4
    <3> QED BY <1>4, <3>1, <3>2
  <2> HIDE DEF now, frame
  <2>3. Append(now.frames, frame)[Len(now.frames) + 1] = frame
    BY <2>2
  <2> QED BY <2>1, <2>2, <2>3
<1> QED BY <1>5, <1>7, <1>8, <1>9
-----------------------------------------------------------------------------
(* Frames and their sizes.                                                 *)

\* More LEDs make a frame longer.
LEMMA LengthsKeepOrder ==
  ASSUME NEW m \in Nat, NEW n \in Nat
  PROVE  /\ FrameLength(n) \in Nat /\ FrameLength(n) >= 2 /\ (n > 0 => FrameLength(n) > 2)
         /\ m <= n <=> FrameLength(m) <= FrameLength(n)
<1> DEFINE b == BytesPerLed
<1>1. b \in Nat /\ b >= 1
  BY DataAssumption
<1>2. n * b \in Nat /\ m * b \in Nat /\ (n > 0 => n * b > 0)
  <2>1. \A x, y \in Nat : x * y \in Nat
    OBVIOUS
  <2>2. \A x, y \in Nat : x > 0 /\ y > 0 => x * y > 0
    OBVIOUS
  <2> QED BY <1>1, <2>1, <2>2
<1>3. m <= n <=> m * b <= n * b
  <2> HIDE DEF b
  <2>1. \A x, y, z \in Nat : x <= y => x * z <= y * z
    OBVIOUS
  <2>2. \A x, y, z \in Nat : x < y /\ z >= 1 => x * z < y * z
    OBVIOUS
  <2>3. CASE m <= n
    BY <1>1, <2>1, <2>3
  <2>4. CASE ~(m <= n)
    <3>1. n < m
      BY <2>4
    <3>2. n * b < m * b
      BY <1>1, <2>2, <3>1
    <3> QED BY <1>2, <2>4, <3>2
  <2> QED BY <2>3, <2>4
<1>4. FrameLength(n) = 2 + n * b /\ FrameLength(m) = 2 + m * b
  BY DEF FrameLength, BytesInHeader
<1> HIDE DEF b
<1>5. \A x, y \in Nat : 2 + x <= 2 + y <=> x <= y
  OBVIOUS
<1>6. \A x \in Nat : 2 + x \in Nat /\ 2 + x >= 2 /\ (x > 0 => 2 + x > 2)
  OBVIOUS
<1>7. FrameLength(n) \in Nat /\ FrameLength(n) >= 2 /\ (n > 0 => FrameLength(n) > 2)
  BY <1>2, <1>4, <1>6
<1>8. m <= n <=> FrameLength(m) <= FrameLength(n)
  BY <1>2, <1>3, <1>4, <1>5
<1> QED BY <1>7, <1>8

\* What the header of a frame states.
LEMMA StatedCount ==
  ASSUME NEW frame \in Seq(Bytes), Len(frame) >= 2, NEW weight \in Nat
  PROVE  /\ frame[1] \in Bytes /\ frame[2] \in Bytes
         /\ frame[1] \in Nat /\ frame[2] \in Nat
         /\ frame[1] * weight + frame[2] \in Nat
<1>1. frame[1] \in Bytes /\ frame[2] \in Bytes
  <2>1. 1 \in 1..Len(frame) /\ 2 \in 1..Len(frame)
    OBVIOUS
  <2> QED BY <2>1
<1>2. frame[1] \in Nat /\ frame[2] \in Nat
  BY <1>1 DEF Bytes
<1>3. \A x, y, z \in Nat : x * y + z \in Nat
  OBVIOUS
<1> QED BY <1>1, <1>2, <1>3

\* A frame is valid when it is as long as it states and has no more LEDs than may be on.
LEMMA DataValidIs ==
  ASSUME NEW frame \in Seq(Bytes)
  PROVE  IsDataValid(frame) <=> /\ AsLongAsStated(frame, ByteValues)
                                /\ frame[1] * ByteValues + frame[2] <= MaxLedsOn
<1> DEFINE count == frame[1] * ByteValues + frame[2]
<1>1. LedCount(frame, 0, ByteValues) = count
  BY DEF LedCount
<1>2. Len(frame) \in Nat /\ MaxLedsOn \in Nat /\ ByteValues \in Nat
  BY DataAssumption
<1>3. BufferSize = FrameLength(MaxLedsOn) /\ BufferSize \in Nat
  BY <1>2, LengthsKeepOrder DEF BufferSize
<1>4. IsDataValid(frame) <=> /\ Len(frame) >= 2 /\ Len(frame) = FrameLength(count)
                             /\ Len(frame) <= BufferSize
  <2>1. Len(frame) \in 2..BufferSize <=> Len(frame) >= 2 /\ Len(frame) <= BufferSize
    BY <1>2, <1>3
  <2> HIDE DEF count
  <2> QED BY <1>1, <2>1 DEF IsDataValid, BytesInHeader
<1>5. ASSUME Len(frame) >= 2, Len(frame) = FrameLength(count)
      PROVE  Len(frame) <= BufferSize <=> count <= MaxLedsOn
  <2>1. count \in Nat
    BY <1>2, <1>5, StatedCount
  <2> HIDE DEF count
  <2> QED BY <1>2, <1>3, <1>5, <2>1, LengthsKeepOrder
<1> QED BY <1>4, <1>5 DEF AsLongAsStated

\* What the server builds is what is valid.
LEMMA FramesAre ==
  ASSUME NEW frame
  PROVE  frame \in Frames <=> frame \in Seq(Bytes) /\ IsDataValid(frame)
<1> DEFINE count == frame[1] * ByteValues + frame[2]
<1>1. MaxLedsOn \in Nat /\ ByteValues \in Nat
  BY DataAssumption
<1>2. frame \in Frames <=> \E n \in 0..MaxLedsOn : frame \in [1..FrameLength(n) -> Bytes] /\ count = n
  BY DEF Frames
<1>3. ASSUME NEW n \in 0..MaxLedsOn, frame \in [1..FrameLength(n) -> Bytes], count = n
      PROVE  frame \in Seq(Bytes) /\ IsDataValid(frame)
  <2>1. n \in Nat /\ FrameLength(n) \in Nat /\ FrameLength(n) >= 2
    BY <1>1, LengthsKeepOrder
  <2>2. frame \in Seq(Bytes) /\ Len(frame) = FrameLength(n)
    BY <1>3, <2>1
  <2>3. AsLongAsStated(frame, ByteValues)
    BY <1>3, <2>1, <2>2 DEF AsLongAsStated
  <2>4. count <= MaxLedsOn
    <3> HIDE DEF count
    <3> QED BY <1>1, <1>3
  <2> QED BY <2>2, <2>3, <2>4, DataValidIs
<1>4. ASSUME frame \in Seq(Bytes), IsDataValid(frame)
      PROVE  \E n \in 0..MaxLedsOn : frame \in [1..FrameLength(n) -> Bytes] /\ count = n
  <2>1. AsLongAsStated(frame, ByteValues) /\ count <= MaxLedsOn
    BY <1>4, DataValidIs
  <2>2. Len(frame) >= 2 /\ Len(frame) = FrameLength(count)
    BY <2>1 DEF AsLongAsStated
  <2>3. count \in Nat
    BY <1>1, <1>4, <2>2, StatedCount
  <2>4. frame \in [1..Len(frame) -> Bytes]
    BY <1>4
  <2>5. PICK n : n = count
    OBVIOUS
  <2> HIDE DEF count
  <2>6. n \in 0..MaxLedsOn
    BY <1>1, <2>1, <2>3, <2>5
  <2> QED BY <2>2, <2>4, <2>5, <2>6
<1> QED BY <1>2, <1>3, <1>4

\* Where no frame has more LEDs than a byte counts, the first byte of its header is zero.
LEMMA CountIsSmall ==
  ASSUME MaxLedsOn < ByteValues, NEW frame \in Frames
  PROVE  frame[1] = 0
<1> DEFINE V == ByteValues
<1>1. V \in Nat /\ MaxLedsOn \in Nat
  BY DataAssumption
<1>2. frame \in Seq(Bytes) /\ AsLongAsStated(frame, V) /\ frame[1] * V + frame[2] <= MaxLedsOn
  BY FramesAre, DataValidIs
<1>3. frame[1] \in Nat /\ frame[2] \in Nat
  BY <1>1, <1>2, StatedCount DEF AsLongAsStated
<1>4. \A x, z \in Nat : x > 0 => x * z >= z
  OBVIOUS
<1>5. \A x, z \in Nat : x * z \in Nat
  OBVIOUS
<1>6. frame[1] * V \in Nat /\ (frame[1] > 0 => frame[1] * V >= V)
  BY <1>1, <1>3, <1>4, <1>5
<1>7. PICK product \in Nat : product = frame[1] * V
  BY <1>6
<1>8. product < V
  BY <1>1, <1>2, <1>3, <1>7
<1>9. ~(frame[1] > 0)
  BY <1>1, <1>6, <1>7, <1>8
<1> QED BY <1>3, <1>9

\* The history writer, which reads the second byte of a header only, cuts a valid
\* message as the validator does when the first bytes are zero.
LEMMA WriterAgrees ==
  ASSUME NEW message \in Seq(Bytes),
         Len(CutFrames(message, ByteValues).frames) = HistoryFrames,
         \A i \in 1..HistoryFrames : CutFrames(message, ByteValues).frames[i][1] = 0
  PROVE  CutFrames(message, 0) = CutFrames(message, ByteValues)
<1> DEFINE H == HistoryFrames
           V == ByteValues
<1>1. H \in Nat /\ H \in 0..H /\ 0 \in 0..H /\ V \in Nat /\ 0 \in Nat
  BY DataAssumption
<1>2. PICK loop : CutsBy(loop, message, V)
  BY <1>1, CutRecursion
<1>3. PICK plain : CutsBy(plain, message, 0)
  BY <1>1, CutRecursion
<1>4. CutFrames(message, V) = loop[H] /\ CutFrames(message, 0) = plain[H]
  BY <1>2, <1>3 DEF CutsBy
<1>5. Len(loop[H].frames) = H /\ \A i \in 1..H : loop[H].frames[i][1] = 0
  BY <1>4
<1>6. ASSUME NEW n \in 1..H
      PROVE  Round(message, 0, loop[n - 1]) = loop[n]
  <2> DEFINE now == loop[n - 1]
             start == now.start
             frame == SubSeq(message, start + 1, FrameEnd(message, V, start))
  <2>1. now \in Cuts(message) /\ FrameFits(message, V, start) /\ loop[H].frames[n] = frame
    BY <1>1, <1>2, <1>5, FullLoop
  <2>2. start \in 0..Len(message)
    BY <2>1 DEF Cuts
  <2>3. frame \in Seq(Bytes) /\ Len(frame) >= 2 /\ frame[1] = message[start + 1]
    <3> HIDE DEF start
    <3>1. /\ frame \in Seq(Bytes) /\ Len(frame) = FrameEnd(message, V, start) - start
          /\ FrameEnd(message, V, start) \in 0..Len(message) /\ start + 2 <= FrameEnd(message, V, start)
          /\ \A k \in 1..Len(frame) : frame[k] = message[start + k]
      BY <1>1, <2>1, <2>2, FrameFitsIs
    <3> HIDE DEF frame
    <3>2. Len(frame) >= 2
      BY <2>2, <3>1
    <3>3. 1 \in 1..Len(frame)
      BY <2>2, <3>1
    <3> QED BY <3>1, <3>2, <3>3
  <2>4. message[start + 1] = 0
    BY <1>5, <2>1, <2>3
  <2>5. LedCount(message, start, V) = LedCount(message, start, 0)
    <3>1. 0 * V = 0 /\ 0 * 0 = 0
      BY <1>1
    <3> QED BY <2>4, <3>1 DEF LedCount
  <2>6. FrameEnd(message, V, start) = FrameEnd(message, 0, start)
    BY <2>5 DEF FrameEnd
  <2>7. FrameFits(message, V, start) <=> FrameFits(message, 0, start)
    BY <2>6 DEF FrameFits
  <2>8. Round(message, 0, now) = Round(message, V, now)
    BY <2>6, <2>7 DEF Round
  <2>9. loop[n] = Round(message, V, now)
    BY <1>2 DEF CutsBy
  <2> QED BY <2>8, <2>9
<1> DEFINE T == {n \in 0..H : plain[n] = loop[n]}
<1>7. 0 \in T
  BY <1>1, <1>2, <1>3 DEF CutsBy
<1>8. ASSUME NEW n \in 1..H, n - 1 \in T PROVE n \in T
  <2>1. plain[n] = Round(message, 0, plain[n - 1])
    BY <1>3 DEF CutsBy
  <2>2. plain[n - 1] = loop[n - 1] /\ n \in 0..H
    BY <1>1, <1>8
  <2> QED BY <1>6, <2>1, <2>2
<1>9. 0..H \subseteq T
  <2> HIDE DEF T
  <2> QED BY <1>1, <1>7, <1>8, UptoInduction
<1>10. plain[H] = loop[H]
  BY <1>1, <1>9
<1> QED BY <1>4, <1>10
-----------------------------------------------------------------------------
(* Histories.                                                              *)

\* What CutFrames cuts off are parts of the message, as long as they state.
LEMMA CutsAre ==
  ASSUME NEW message \in Seq(Bytes), NEW weight \in Nat
  PROVE  LET cut == CutFrames(message, weight)
         IN /\ cut.start \in 0..Len(message) /\ cut.frames \in Seq(Seq(Bytes))
            /\ FlattenSeq(cut.frames) = SubSeq(message, 1, cut.start)
            /\ \A i \in 1..Len(cut.frames) :
                 cut.frames[i] \in Seq(Bytes) /\ AsLongAsStated(cut.frames[i], weight)
<1>1. HistoryFrames \in 0..HistoryFrames
  BY DataAssumption
<1>2. PICK loop : CutsBy(loop, message, weight)
  BY CutRecursion
<1>3. PICK cut : cut = CutFrames(message, weight)
  OBVIOUS
<1>4. cut = loop[HistoryFrames]
  BY <1>2, <1>3 DEF CutsBy
<1>5. IsCut(cut, message, weight)
  BY <1>1, <1>2, <1>4, LoopCuts
<1>6. cut.start \in 0..Len(message) /\ cut.frames \in Seq(Seq(Bytes))
  BY <1>5 DEF IsCut, Cuts
<1>7. \A i \in 1..Len(cut.frames) : cut.frames[i] \in Seq(Bytes)
  BY <1>6
<1> QED BY <1>3, <1>5, <1>6, <1>7 DEF IsCut

\* A valid history is HistoryFrames frames, one behind the other.
LEMMA ValidHistory ==
  ASSUME NEW message \in Seq(Bytes), IsHistoryDataValid(message)
  PROVE  LET list == CutFrames(message, ByteValues).frames
         IN /\ list \in Seq(Frames) /\ Len(list) = HistoryFrames
            /\ FlattenSeq(list) = message
<1> DEFINE cut == CutFrames(message, ByteValues)
<1>1. ByteValues \in Nat
  BY DataAssumption
<1>2. /\ cut.start \in 0..Len(message) /\ cut.frames \in Seq(Seq(Bytes))
      /\ FlattenSeq(cut.frames) = SubSeq(message, 1, cut.start)
      /\ \A i \in 1..Len(cut.frames) : cut.frames[i] \in Seq(Bytes)
  BY <1>1, CutsAre
<1>3. /\ Len(cut.frames) = HistoryFrames
      /\ \A i \in 1..HistoryFrames : IsDataValid(cut.frames[i])
      /\ cut.start = Len(message)
  BY DEF IsHistoryDataValid
<1> HIDE DEF cut
<1>4. FlattenSeq(cut.frames) = message
  <2>1. SubSeq(message, 1, Len(message)) = message
    OBVIOUS
  <2> QED BY <1>2, <1>3, <2>1
<1>5. cut.frames \in Seq(Frames)
  <2>1. \A i \in 1..Len(cut.frames) : cut.frames[i] \in Frames
    BY <1>2, <1>3, FramesAre
  <2>2. \A s \in Seq(Seq(Bytes)) : (\A i \in 1..Len(s) : s[i] \in Frames) => s \in Seq(Frames)
    OBVIOUS
  <2> QED BY <1>2, <2>1, <2>2
<1> QED BY <1>3, <1>4, <1>5 DEF cut

\* Each round of the loop cuts the next frame off a history.
LEMMA HistoryLoop ==
  ASSUME NEW h \in Seq(Frames), Len(h) = HistoryFrames, Len(h[HistoryFrames]) > 2,
         NEW flat, Flattens(flat, Bytes, h), NEW message \in Seq(Bytes), message = FlattenSeq(h),
         NEW n \in 1..HistoryFrames
  PROVE  \A now : now.start = Len(flat[n - 1]) =>
           /\ Round(message, ByteValues, now).start = Len(flat[n])
           /\ Round(message, ByteValues, now).frames = Append(now.frames, h[n])
<1> SUFFICES ASSUME NEW now, now.start = Len(flat[n - 1])
             PROVE  /\ Round(message, ByteValues, now).start = Len(flat[n])
                    /\ Round(message, ByteValues, now).frames = Append(now.frames, h[n])
  OBVIOUS
<1> DEFINE H == HistoryFrames
           V == ByteValues
           start == Len(flat[n - 1])
           frame == h[n]
           end == start + Len(frame)
<1>1. /\ H \in Nat /\ V \in Nat /\ n - 1 \in 0..H /\ n \in 0..H /\ H \in 0..H /\ H \in 1..H
      /\ n \in Nat /\ n <= H
  BY DataAssumption
<1>2. ASSUME NEW i \in 1..H
      PROVE  h[i] \in Seq(Bytes) /\ AsLongAsStated(h[i], V) /\ Len(h[i]) \in Nat /\ Len(h[i]) >= 2
  <2>1. h[i] \in Frames
    BY <1>2
  <2>2. h[i] \in Seq(Bytes) /\ AsLongAsStated(h[i], V)
    BY <2>1, FramesAre, DataValidIs
  <2>3. Len(h[i]) >= 2
    BY <2>2 DEF AsLongAsStated
  <2> QED BY <2>2, <2>3
<1>3. h \in Seq(Seq(Bytes))
  BY <1>2
<1>4. \A i \in 0..H : flat[i] \in Seq(Bytes) /\ Len(flat[i]) \in Nat
  <2>1. flat \in [0..H -> Seq(Bytes)]
    BY DEF Flattens
  <2> TAKE i \in 0..H
  <2>2. flat[i] \in Seq(Bytes)
    BY <2>1
  <2> QED BY <2>2
<1>5. \A i \in 1..H : flat[i] = flat[i - 1] \o h[i]
  BY DEF Flattens
<1>6. message = flat[H]
  BY DEF Flattens
<1>7. /\ Len(flat[n]) = end /\ start \in Nat /\ Len(frame) \in Nat
      /\ \A k \in 1..Len(frame) : flat[n][start + k] = frame[k]
  <2> DEFINE p == flat[n - 1]
  <2>1. p \in Seq(Bytes) /\ frame \in Seq(Bytes) /\ flat[n] = p \o frame
    BY <1>1, <1>2, <1>4, <1>5
  <2> HIDE DEF p, frame
  <2>2. /\ Len(flat[n]) = Len(p) + Len(frame) /\ Len(p) \in Nat /\ Len(frame) \in Nat
        /\ \A k \in 1..Len(frame) : flat[n][Len(p) + k] = frame[k]
    BY <2>1, ConcatIs
  <2> QED BY <2>2 DEF p
<1>8. /\ end <= Len(message) /\ Len(message) \in Nat
      /\ \A k \in 1..end : message[k] = flat[n][k]
  <2>1. Len(flat[n]) <= Len(flat[H]) /\ \A k \in 1..Len(flat[n]) : flat[H][k] = flat[n][k]
    <3>1. n \in 0..Len(h) /\ H \in 0..Len(h)
      BY <1>1
    <3> HIDE DEF H
    <3> QED BY <1>1, <1>3, <3>1, FlattenPrefix
  <2> QED BY <1>6, <1>7, <2>1
<1>9. start + 2 < Len(message)
  <2>1. CASE n = H
    BY <1>1, <1>2, <1>7, <1>8, <2>1
  <2>2. CASE n # H
    <3>1. PICK m \in 1..H : m - 1 = n
      <4>1. n + 1 \in 1..H /\ n + 1 - 1 = n
        BY <1>1, <2>2
      <4> QED BY <4>1
    <3>2. m \in 0..H /\ m <= H
      BY <1>1
    <3>3. Len(flat[m]) = Len(flat[n]) + Len(h[m]) /\ Len(h[m]) >= 2 /\ Len(h[m]) \in Nat
      <4>1. flat[m] = flat[n] \o h[m] /\ h[m] \in Seq(Bytes) /\ flat[n] \in Seq(Bytes)
        BY <1>1, <1>2, <1>4, <1>5, <3>1
      <4>2. Len(flat[m]) = Len(flat[n]) + Len(h[m])
        BY <4>1, ConcatIs
      <4> QED BY <1>2, <4>2
    <3>4. Len(flat[m]) <= Len(flat[H])
      BY <1>1, <1>3, <3>2, FlattenPrefix
    <3>5. Len(frame) >= 2
      BY <1>2
    <3> HIDE DEF start, frame
    <3>6. Len(flat[m]) <= Len(message)
      BY <1>6, <3>4
    <3> QED BY <1>7, <1>8, <3>3, <3>5, <3>6
  <2> QED BY <2>1, <2>2
<1> HIDE DEF start, frame
<1>10. \A k \in 1..Len(frame) : message[start + k] = frame[k]
  <2> TAKE k \in 1..Len(frame)
  <2>1. start + k \in 1..end
    BY <1>7
  <2> QED BY <1>7, <1>8, <2>1
<1>11. frame \in Seq(Bytes) /\ AsLongAsStated(frame, V) /\ Len(frame) >= 2
  BY <1>2 DEF frame
<1>12. FrameEnd(message, V, start) = end
  <2>1. message[start + 1] = frame[1] /\ message[start + 2] = frame[2]
    <3>1. 1 \in 1..Len(frame) /\ 2 \in 1..Len(frame)
      BY <1>7, <1>11
    <3> QED BY <1>10, <3>1
  <2>2. LedCount(message, start, V) = frame[1] * V + frame[2]
    BY <2>1 DEF LedCount
  <2>3. Len(frame) = FrameLength(frame[1] * V + frame[2])
    BY <1>11 DEF AsLongAsStated
  <2> QED BY <2>2, <2>3 DEF FrameEnd
<1>13. FrameFits(message, V, start)
  BY <1>8, <1>9, <1>12 DEF FrameFits, BytesInHeader
<1>14. SubSeq(message, start + 1, end) = frame
  <2> DEFINE part == SubSeq(message, start + 1, end)
  <2>1. start \in 0..Len(message)
    BY <1>7, <1>8
  <2>2. /\ part \in Seq(Bytes) /\ Len(part) = end - start
        /\ \A k \in 1..Len(part) : part[k] = message[start + k]
    BY <1>1, <1>12, <1>13, <2>1, FrameFitsIs
  <2> HIDE DEF part
  <2>3. Len(part) = Len(frame)
    BY <1>7, <2>2
  <2>4. \A k \in 1..Len(part) : part[k] = frame[k]
    BY <1>10, <2>2, <2>3
  <2>5. part = frame
    BY <1>11, <2>2, <2>3, <2>4, SeqEqual
  <2> QED BY <2>5 DEF part
<1>15. now.start = start
  BY DEF start
<1> DEFINE next == Round(message, V, now)
<1>16. next.start = end /\ next.frames = Append(now.frames, SubSeq(message, start + 1, end))
  <2>1. /\ next.start = FrameEnd(message, V, start)
        /\ next.frames = Append(now.frames, SubSeq(message, start + 1, FrameEnd(message, V, start)))
    BY <1>13, <1>15, RoundIs
  <2> QED BY <1>12, <2>1
<1> QED BY <1>7, <1>14, <1>16 DEF frame
\* A history whose last frame has LEDs passes the validator.
LEMMA AcceptsHistory ==
  ASSUME NEW h \in Seq(Frames), Len(h) = HistoryFrames, Len(h[HistoryFrames]) > 2,
         NEW message \in Seq(Bytes), message = FlattenSeq(h)
  PROVE  IsHistoryDataValid(message)
<1> DEFINE H == HistoryFrames
           V == ByteValues
<1>1. H \in Nat /\ H \in 0..H /\ 0 \in 0..H /\ V \in Nat
  BY DataAssumption
<1>2. h \in Seq(Seq(Bytes)) /\ \A i \in 1..H : IsDataValid(h[i])
  <2>1. \A i \in 1..H : h[i] \in Seq(Bytes) /\ IsDataValid(h[i])
    BY FramesAre
  <2> QED BY <2>1
<1>3. PICK flat : Flattens(flat, Bytes, h)
  BY <1>2, FlattenRecursion
<1>4. PICK loop : CutsBy(loop, message, V)
  BY <1>1, CutRecursion
<1>5. Len(flat[0]) = 0 /\ flat[H] = message
  <2>1. flat[0] = <<>> /\ flat[H] = message
    BY <1>3 DEF Flattens
  <2> QED BY <2>1
<1>6. loop[0].start = 0 /\ loop[0].frames = <<>>
  BY <1>4 DEF CutsBy
<1> DEFINE list(n) == loop[n].frames
           T == {n \in 0..H : /\ loop[n].start = Len(flat[n]) /\ Len(list(n)) = n
                               /\ \A i \in 1..n : list(n)[i] = h[i]}
<1>7. 0 \in T
  <2>1. Len(list(0)) = 0
    BY <1>6
  <2> QED BY <1>1, <1>5, <1>6, <2>1
<1>8. ASSUME NEW n \in 1..H, n - 1 \in T PROVE n \in T
  <2>1. /\ loop[n - 1].start = Len(flat[n - 1]) /\ Len(list(n - 1)) = n - 1
        /\ \A i \in 1..(n - 1) : list(n - 1)[i] = h[i]
    BY <1>8
  <2>2. loop[n] = Round(message, V, loop[n - 1])
    BY <1>4 DEF CutsBy
  <2>3. loop[n].start = Len(flat[n]) /\ list(n) = Append(list(n - 1), h[n])
    <3>1. PICK now : now = loop[n - 1]
      OBVIOUS
    <3>2. now.start = Len(flat[n - 1])
      BY <2>1, <3>1
    <3>3. \A some : some.start = Len(flat[n - 1]) =>
            /\ Round(message, ByteValues, some).start = Len(flat[n])
            /\ Round(message, ByteValues, some).frames = Append(some.frames, h[n])
      <4> HIDE DEF list, T, V
      <4> QED BY <1>3, HistoryLoop
    <3> QED BY <2>2, <3>1, <3>2, <3>3
  <2>4. list(n - 1) \in Seq(Seq(Bytes))
    <3>1. loop \in [0..H -> Cuts(message)]
      BY <1>4 DEF CutsBy
    <3>2. loop[n - 1] \in Cuts(message)
      BY <1>1, <3>1
    <3> QED BY <3>2 DEF Cuts
  <2>5. PICK before : before = list(n - 1)
    OBVIOUS
  <2> HIDE DEF list
  <2>6. /\ Len(list(n)) = n /\ list(n)[n] = h[n]
        /\ \A i \in 1..(n - 1) : list(n)[i] = h[i]
    <3>1. n \in Nat /\ Len(before) = n - 1
      BY <1>1, <2>1, <2>5
    <3>2. /\ Len(Append(before, h[n])) = Len(before) + 1
          /\ Append(before, h[n])[Len(before) + 1] = h[n]
          /\ \A i \in 1..Len(before) : Append(before, h[n])[i] = before[i]
      BY <2>4, <2>5
    <3>3. Len(before) + 1 = n
      BY <3>1
    <3> QED BY <2>1, <2>3, <2>5, <3>1, <3>2, <3>3
  <2>7. \A i \in 1..n : i = n \/ i \in 1..(n - 1)
    BY <1>1
  <2>8. n \in 0..H
    BY <1>1
  <2> QED BY <2>3, <2>6, <2>7, <2>8
<1>9. 0..H \subseteq T
  <2> HIDE DEF T
  <2> QED BY <1>1, <1>7, <1>8, UptoInduction
<1>10. /\ loop[H].start = Len(message) /\ Len(loop[H].frames) = H
       /\ \A i \in 1..H : loop[H].frames[i] = h[i]
  BY <1>1, <1>5, <1>9
<1>11. CutFrames(message, V) = loop[H]
  BY <1>4 DEF CutsBy
<1> QED BY <1>2, <1>10, <1>11 DEF IsHistoryDataValid

\* A history is no empty message.
LEMMA HistoryNotEmpty ==
  ASSUME NEW h \in Seq(Frames), Len(h) = HistoryFrames
  PROVE  FlattenSeq(h) # <<>> /\ Len(h[HistoryFrames]) \in Nat /\ Len(h[HistoryFrames]) >= 2
<1> DEFINE H == HistoryFrames
           last == h[H]
<1>1. H \in 1..H /\ H - 1 \in 0..H
  BY DataAssumption
<1>2. h \in Seq(Seq(Bytes)) /\ last \in Seq(Bytes) /\ Len(last) >= 2
  <2>1. \A i \in 1..H : h[i] \in Seq(Bytes) /\ IsDataValid(h[i])
    BY FramesAre
  <2>2. last \in Seq(Bytes) /\ IsDataValid(last)
    BY <1>1, <2>1
  <2> QED BY <2>1, <2>2, DataValidIs DEF AsLongAsStated
<1>3. PICK flat : Flattens(flat, Bytes, h)
  BY <1>2, FlattenRecursion
<1>4. PICK p : p = flat[H - 1]
  OBVIOUS
<1>5. p \in Seq(Bytes) /\ FlattenSeq(h) = p \o last
  <2>1. flat \in [0..H -> Seq(Bytes)] /\ flat[H] = flat[H - 1] \o h[H] /\ FlattenSeq(h) = flat[H]
    BY <1>1, <1>3 DEF Flattens
  <2> QED BY <1>1, <1>4, <2>1
<1> HIDE DEF last
<1>6. Len(p \o last) = Len(p) + Len(last) /\ Len(p) \in Nat /\ Len(last) \in Nat
  BY <1>2, <1>5, ConcatIs
<1>7. FlattenSeq(h) # <<>>
  <2>1. Len(FlattenSeq(h)) # 0
    BY <1>2, <1>5, <1>6
  <2> QED BY <2>1
<1> QED BY <1>2, <1>6, <1>7 DEF last

\* No message is two histories: every frame says how long it is.
LEMMA OneHistory ==
  ASSUME NEW h \in Seq(Frames), Len(h) = HistoryFrames,
         NEW g \in Seq(Frames), Len(g) = HistoryFrames,
         FlattenSeq(h) = FlattenSeq(g)
  PROVE  h = g
<1> DEFINE H == HistoryFrames
           V == ByteValues
<1>1. H \in Nat /\ H \in 0..H /\ 0 \in 0..H
  BY DataAssumption
<1>2. \A i \in 1..H : /\ h[i] \in Seq(Bytes) /\ AsLongAsStated(h[i], V)
                       /\ g[i] \in Seq(Bytes) /\ AsLongAsStated(g[i], V)
  <2>1. \A i \in 1..H : h[i] \in Frames /\ g[i] \in Frames
    OBVIOUS
  <2> QED BY <2>1, FramesAre, DataValidIs
<1>3. h \in Seq(Seq(Bytes)) /\ g \in Seq(Seq(Bytes))
  BY <1>2
<1>4. PICK flat : Flattens(flat, Bytes, h)
  BY <1>3, FlattenRecursion
<1>5. PICK other : Flattens(other, Bytes, g)
  BY <1>3, FlattenRecursion
<1>6. /\ flat[H] = other[H] /\ flat[0] = other[0]
      /\ \A i \in 1..H : flat[i] = flat[i - 1] \o h[i] /\ other[i] = other[i - 1] \o g[i]
      /\ \A i \in 0..H : flat[i] \in Seq(Bytes) /\ other[i] \in Seq(Bytes)
  <2>1. flat \in [0..H -> Seq(Bytes)] /\ other \in [0..H -> Seq(Bytes)]
    BY <1>4, <1>5 DEF Flattens
  <2>2. \A i \in 0..H : flat[i] \in Seq(Bytes) /\ other[i] \in Seq(Bytes)
    <3> HIDE DEF H
    <3> QED BY <2>1
  <2> QED BY <1>4, <1>5, <2>2 DEF Flattens
<1>7. /\ \A i \in 0..H : \A k \in 1..Len(flat[i]) : flat[H][k] = flat[i][k]
      /\ \A i \in 0..H : \A k \in 1..Len(other[i]) : other[H][k] = other[i][k]
  <2>1. \A i \in 0..H : i <= H /\ i \in 0..Len(h) /\ i \in 0..Len(g)
    BY <1>1
  <2>2. H \in 0..Len(h) /\ H \in 0..Len(g)
    BY <1>1
  <2> HIDE DEF H
  <2>3. \A i \in 0..H : \A k \in 1..Len(flat[i]) : flat[H][k] = flat[i][k]
    BY <1>3, <1>4, <2>1, <2>2, FlattenPrefix
  <2>4. \A i \in 0..H : \A k \in 1..Len(other[i]) : other[H][k] = other[i][k]
    BY <1>3, <1>5, <2>1, <2>2, FlattenPrefix
  <2> QED BY <2>3, <2>4
<1> DEFINE T == {n \in 0..H : flat[n] = other[n] /\ \A i \in 1..n : h[i] = g[i]}
<1>8. 0 \in T
  BY <1>1, <1>6
<1>9. ASSUME NEW n \in 1..H, n - 1 \in T PROVE n \in T
  <2> DEFINE a == h[n]
             b == g[n]
             p == flat[n - 1]
  <2>1. p = other[n - 1] /\ n - 1 \in 0..H /\ n \in 0..H /\ \A i \in 1..(n - 1) : h[i] = g[i]
    BY <1>1, <1>9
  <2>2. /\ p \in Seq(Bytes) /\ a \in Seq(Bytes) /\ b \in Seq(Bytes)
        /\ flat[n] = p \o a /\ other[n] = p \o b
    BY <1>2, <1>6, <2>1
  <2>3. AsLongAsStated(a, V) /\ AsLongAsStated(b, V)
    BY <1>2
  <2> HIDE DEF a, b, p
  <2>4. /\ \A k \in 1..Len(a) : flat[n][Len(p) + k] = a[k]
        /\ \A k \in 1..Len(b) : other[n][Len(p) + k] = b[k]
        /\ Len(flat[n]) = Len(p) + Len(a) /\ Len(other[n]) = Len(p) + Len(b)
        /\ Len(p) \in Nat /\ Len(a) \in Nat /\ Len(b) \in Nat
    BY <2>2, ConcatIs
  <2>5. \A k \in 1..Len(a) : flat[H][Len(p) + k] = a[k]
    <3> TAKE k \in 1..Len(a)
    <3>1. Len(p) + k \in 1..Len(flat[n])
      BY <2>4
    <3> QED BY <1>7, <2>1, <2>4, <3>1
  <2>6. \A k \in 1..Len(b) : other[H][Len(p) + k] = b[k]
    <3> TAKE k \in 1..Len(b)
    <3>1. Len(p) + k \in 1..Len(other[n])
      BY <2>4
    <3>2. \A j \in 1..Len(other[n]) : other[H][j] = other[n][j]
      <4>1. n \in 0..H
        BY <2>1
      <4> QED BY <1>7, <4>1
    <3>3. other[H][Len(p) + k] = other[n][Len(p) + k]
      BY <3>1, <3>2
    <3> QED BY <2>4, <3>3
  <2>7. \A k \in Nat : k \in 1..Len(a) /\ k \in 1..Len(b) => a[k] = b[k]
    BY <1>6, <2>5, <2>6
  <2>8. a[1] = b[1] /\ a[2] = b[2]
    BY <2>3, <2>4, <2>7 DEF AsLongAsStated
  <2>9. Len(a) = Len(b)
    BY <2>3, <2>8 DEF AsLongAsStated
  <2>10. a = b
    <3>1. \A k \in 1..Len(a) : a[k] = b[k]
      BY <2>4, <2>7, <2>9
    <3> QED BY <2>2, <2>9, <3>1, SeqEqual
  <2>11. \A i \in 1..n : i = n \/ i \in 1..(n - 1)
    BY <1>1
  <2>12. h[n] = g[n] /\ flat[n] = other[n]
    BY <2>2, <2>10 DEF a, b
  <2> QED BY <2>1, <2>11, <2>12
<1>10. 0..H \subseteq T
  <2> HIDE DEF T
  <2> QED BY <1>1, <1>8, <1>9, UptoInduction
<1>11. \A i \in 1..H : h[i] = g[i]
  BY <1>1, <1>10
<1> QED BY <1>11, SeqEqual

\* What the history writer makes of a valid history: where the counts fit into the byte
\* it reads, the frames of the validator, and in any case nothing larger than a slot.
LEMMA SavedHistory ==
  ASSUME NEW message \in Seq(Bytes), IsHistoryDataValid(message)
  PROVE  LET list == CutFrames(message, 0).frames
             full == CutFrames(message, ByteValues).frames
         IN /\ (\A frame \in ToSet(full) : frame[1] = 0) => list = full
            /\ \A i \in 1..Len(list) : Len(list[i]) \in BytesInHeader..BufferSize
<1> DEFINE list == CutFrames(message, 0).frames
           full == CutFrames(message, ByteValues).frames
           V == ByteValues
<1>1. full \in Seq(Frames) /\ Len(full) = HistoryFrames
  BY ValidHistory
<1>2. \A i \in 1..HistoryFrames : full[i] \in Frames /\ full[i] \in ToSet(full)
  <2>1. DOMAIN full = 1..HistoryFrames
    BY <1>1
  <2> HIDE DEF full
  <2> QED BY <1>1, <2>1 DEF ToSet
<1>3. ASSUME \A i \in 1..HistoryFrames : full[i][1] = 0
      PROVE  list = full
  BY <1>1, <1>3, WriterAgrees
<1>4. V \in Nat /\ V > 0 /\ MaxLedsOn \in Nat /\ 0 \in Nat
  BY DataAssumption
<1>5. \A i \in 1..Len(list) : list[i] \in Seq(Bytes) /\ AsLongAsStated(list[i], 0)
  BY <1>4, CutsAre
<1> HIDE DEF list, full
<1>6. BufferSize = FrameLength(MaxLedsOn) /\ BufferSize \in Nat
  BY <1>4, LengthsKeepOrder DEF BufferSize
<1>7. CASE V - 1 <= MaxLedsOn
  <2>1. ASSUME NEW i \in 1..Len(list) PROVE Len(list[i]) \in BytesInHeader..BufferSize
    <3>1. PICK frame \in Seq(Bytes) : frame = list[i] /\ AsLongAsStated(frame, 0)
      BY <1>5
    <3>2. Len(frame) >= 2 /\ Len(frame) = FrameLength(frame[1] * 0 + frame[2])
      BY <3>1 DEF AsLongAsStated
    <3>3. frame[1] \in Nat /\ frame[2] \in Nat /\ frame[2] \in Bytes
      BY <1>4, <3>2, StatedCount
    <3>4. frame[1] * 0 + frame[2] = frame[2]
      <4>1. \A x, y \in Nat : x * 0 + y = y
        OBVIOUS
      <4> QED BY <3>3, <4>1
    <3>5. frame[2] <= MaxLedsOn
      BY <1>4, <1>7, <3>3 DEF Bytes
    <3>6. FrameLength(frame[2]) <= FrameLength(MaxLedsOn)
      BY <1>4, <3>3, <3>5, LengthsKeepOrder
    <3>7. Len(frame) \in Nat /\ Len(frame) <= BufferSize
      BY <1>6, <3>2, <3>4, <3>6
    <3> QED BY <1>6, <3>1, <3>2, <3>7 DEF BytesInHeader
  <2> QED BY <1>2, <1>3, <2>1 DEF list, full
<1>8. CASE ~(V - 1 <= MaxLedsOn)
  <2>1. ASSUME NEW i \in 1..HistoryFrames
        PROVE  full[i][1] = 0 /\ Len(full[i]) \in BytesInHeader..BufferSize
    <3>1. PICK frame : frame = full[i] /\ frame \in Frames
      BY <1>2
    <3>2. frame \in Seq(Bytes) /\ IsDataValid(frame)
      BY <3>1, FramesAre
    <3>3. Len(frame) \in BytesInHeader..BufferSize
      BY <3>2 DEF IsDataValid
    <3>4. frame[1] = 0
      BY <1>4, <1>8, <3>1, CountIsSmall
    <3> QED BY <3>1, <3>3, <3>4
  <2>2. list = full
    BY <1>3, <2>1
  <2> QED BY <1>1, <2>1, <2>2 DEF list, full
<1> QED BY <1>7, <1>8

-----------------------------------------------------------------------------
(* The invariant.                                                          *)

\* Besides the types: a message goes where the validator sent it, and in the store is
\* what the writer makes of it.
ConverterInv ==
  /\ TypeOK
  /\ stage \in {"valid", "saved"} => IsValid
  /\ stage = "refused" => data = <<>> \/ ~IsValid
  /\ stage = "saved" => frames = IF writer = "kSingle" THEN <<data>> ELSE CutFrames(data, 0).frames

LEMMA MessagesAre == Messages \subseteq Seq(Bytes)
<1> SUFFICES ASSUME NEW message \in Messages PROVE message \in Seq(Bytes)
  OBVIOUS
<1>1. PICK m \in 0..(HistoryFrames * BufferSize) : message \in [1..m -> Bytes]
  BY DEF Messages, SeqOf
<1>2. m \in Nat
  OBVIOUS
<1> QED BY <1>1, <1>2

LEMMA ValidHistoryIs ==
  ASSUME NEW message \in Messages
  PROVE  message \in ValidHistories <=> IsHistoryDataValid(message)
BY DEF ValidHistories

LEMMA EmptyMessage == <<>> \in Messages
<1>1. HistoryFrames * BufferSize \in Nat
  <2>1. HistoryFrames \in Nat /\ MaxLedsOn \in Nat
    BY DataAssumption
  <2>2. BufferSize \in Nat
    BY <2>1, LengthsKeepOrder DEF BufferSize
  <2>3. \A x, y \in Nat : x * y \in Nat
    OBVIOUS
  <2> QED BY <2>1, <2>2, <2>3
<1>2. 0 \in 0..(HistoryFrames * BufferSize) /\ <<>> \in [1..0 -> Bytes]
  BY <1>1
<1> QED BY <1>2 DEF Messages, SeqOf

LEMMA ConverterInvInit == Init => ConverterInv
<1> SUFFICES ASSUME Init PROVE ConverterInv
  OBVIOUS
<1>1. <<>> \in Messages
  BY EmptyMessage
<1>2. writer = "kMultiple" /\ data = <<>> /\ stage = "none" /\ frames = <<>>
  BY DEF Init
<1>3. Len(frames) = 0
  BY <1>2
<1>4. TypeOK
  BY <1>1, <1>2, <1>3 DEF TypeOK
<1> QED BY <1>2, <1>4 DEF ConverterInv

LEMMA ConverterInvStep == ConverterInv /\ [Next]_converterVars => ConverterInv'
<1> SUFFICES ASSUME ConverterInv, [Next]_converterVars PROVE ConverterInv'
  OBVIOUS
<1>1. /\ writer \in {"kSingle", "kMultiple"} /\ data \in Messages
      /\ stage \in {"none", "received", "valid", "refused", "saved"}
      /\ \A i \in 1..Len(frames) : Len(frames[i]) \in BytesInHeader..BufferSize
  BY DEF ConverterInv, TypeOK
<1>2. ASSUME NEW mode \in {"kSingle", "kMultiple"}, NEW message \in Messages, Receive(mode, message)
      PROVE  ConverterInv'
  BY <1>1, <1>2 DEF Receive, ConverterInv, TypeOK
<1>3. CASE ClearBuffer
  <2>1. <<>> \in Messages
    BY EmptyMessage
  <2>2. frames' = <<>> /\ Len(<<>>) = 0
    BY <1>3 DEF ClearBuffer
  <2>3. data' = <<>> /\ stage' = "none" /\ writer' = writer
    BY <1>3 DEF ClearBuffer
  <2> QED BY <1>1, <2>1, <2>2, <2>3 DEF ConverterInv, TypeOK
<1>4. CASE Validate
  <2>1. UNCHANGED <<writer, data, frames>>
    BY <1>4 DEF Validate
  <2>2. IsValid' <=> IsValid
    BY <2>1 DEF IsValid
  <2>3. \/ stage' = "valid" /\ IsValid
        \/ stage' = "refused" /\ (data = <<>> \/ ~IsValid)
    BY <1>4 DEF Validate
  <2> QED BY <1>1, <2>1, <2>2, <2>3 DEF ConverterInv, TypeOK
<1>5. CASE SaveHistory
  <2>1. /\ stage = "valid" /\ stage' = "saved" /\ writer = "kMultiple" /\ UNCHANGED <<writer, data>>
        /\ frames' = CutFrames(data, 0).frames
    BY <1>5 DEF SaveHistory
  <2>2. IsValid /\ IsValid'
    BY <2>1 DEF ConverterInv, IsValid
  <2>3. IsHistoryDataValid(data)
    BY <1>1, <2>1, <2>2, ValidHistoryIs DEF IsValid
  <2>4. data \in Seq(Bytes)
    BY <1>1, MessagesAre
  <2>5. \A i \in 1..Len(frames') : Len(frames'[i]) \in BytesInHeader..BufferSize
    BY <2>1, <2>3, <2>4, SavedHistory
  <2> QED BY <1>1, <2>1, <2>2, <2>5 DEF ConverterInv, TypeOK
<1>6. CASE SaveLive
  <2>1. /\ stage = "valid" /\ stage' = "saved" /\ writer = "kSingle" /\ UNCHANGED <<writer, data>>
        /\ frames' = IF Len(data) \in 1..BufferSize THEN <<data>> ELSE <<>>
    BY <1>6 DEF SaveLive
  <2>2. IsValid /\ IsValid'
    BY <2>1 DEF ConverterInv, IsValid
  <2>3. Len(data) \in BytesInHeader..BufferSize
    BY <2>1, <2>2 DEF IsValid, IsDataValid
  <2>4. Len(data) \in 1..BufferSize
    BY <2>3 DEF BytesInHeader
  <2>5. frames' = <<data>>
    BY <2>1, <2>4
  <2>6. \A i \in 1..Len(frames') : Len(frames'[i]) \in BytesInHeader..BufferSize
    <3>1. Len(<<data>>) = 1 /\ <<data>>[1] = data
      OBVIOUS
    <3> QED BY <2>3, <2>5, <3>1
  <2> QED BY <1>1, <2>1, <2>2, <2>5, <2>6 DEF ConverterInv, TypeOK
<1>7. CASE UNCHANGED converterVars
  <2>1. UNCHANGED <<writer, data, stage, frames>>
    BY <1>7 DEF converterVars
  <2>2. IsValid' <=> IsValid
    BY <2>1 DEF IsValid
  <2> QED BY <1>1, <2>1, <2>2 DEF ConverterInv, TypeOK
<1> QED BY <1>2, <1>3, <1>4, <1>5, <1>6, <1>7 DEF Next

\* The invariant holds in every reachable state.
LEMMA ConverterInvCorrect == Spec => []ConverterInv
BY ConverterInvInit, ConverterInvStep, PTL DEF Spec

\* What the writers put into the store are frames, as many as were asked for, and make up
\* the message.
LEMMA FramesAreStored ==
  ASSUME ConverterInv, CountsFitInByte, SaveHistory \/ SaveLive
  PROVE  IF writer = "kSingle" THEN frames' = <<data>> /\ data \in Frames
         ELSE frames' \in [1..HistoryFrames -> Frames] /\ FlattenSeq(frames') = data
<1>1. stage = "valid" /\ IsValid /\ data \in Messages /\ data \in Seq(Bytes)
  BY MessagesAre DEF ConverterInv, TypeOK, SaveHistory, SaveLive
<1>2. CASE SaveHistory
  <2>1. writer = "kMultiple" /\ frames' = CutFrames(data, 0).frames
    BY <1>2 DEF SaveHistory
  <2>2. IsHistoryDataValid(data)
    BY <1>1, <2>1, ValidHistoryIs DEF IsValid
  <2>3. frames' = CutFrames(data, ByteValues).frames
    BY <1>1, <2>1, <2>2, SavedHistory DEF CountsFitInByte
  <2>4. frames' \in Seq(Frames) /\ Len(frames') = HistoryFrames /\ FlattenSeq(frames') = data
    BY <1>1, <2>2, <2>3, ValidHistory
  <2>5. \A s \in Seq(Frames) : s \in [1..Len(s) -> Frames]
    OBVIOUS
  <2> QED BY <2>1, <2>4, <2>5
<1>3. CASE SaveLive
  <2>1. /\ writer = "kSingle"
        /\ frames' = IF Len(data) \in 1..BufferSize THEN <<data>> ELSE <<>>
    BY <1>3 DEF SaveLive
  <2>2. IsDataValid(data)
    BY <1>1, <2>1 DEF IsValid
  <2>3. Len(data) \in BytesInHeader..BufferSize /\ data \in Frames
    BY <1>1, <2>2, FramesAre DEF IsDataValid
  <2>4. Len(data) \in 1..BufferSize
    BY <2>3 DEF BytesInHeader
  <2> QED BY <2>1, <2>3, <2>4
<1> QED BY <1>2, <1>3

\* Where no frame has more LEDs than a byte counts, no count of a valid message is misread.
LEMMA CountsFit ==
  ASSUME MaxLedsOn < ByteValues, ConverterInv, stage = "valid"
  PROVE  CountsFitInByte
<1>1. IsValid /\ data \in Messages /\ data \in Seq(Bytes)
  BY MessagesAre DEF ConverterInv, TypeOK
<1>2. ASSUME writer = "kMultiple", NEW frame \in ToSet(CutFrames(data, ByteValues).frames)
      PROVE  frame[1] = 0
  <2>1. IsHistoryDataValid(data)
    BY <1>1, <1>2, ValidHistoryIs DEF IsValid
  <2>2. CutFrames(data, ByteValues).frames \in Seq(Frames)
    BY <1>1, <2>1, ValidHistory
  <2>3. \A s \in Seq(Frames) : \A f \in ToSet(s) : f \in Frames
    BY DEF ToSet
  <2> QED BY <1>2, <2>2, <2>3, CountIsSmall
<1> QED BY <1>2 DEF CountsFitInByte

\* The types of the variables; what is in the store is never larger than a slot, although
\* the history writer does not look at the size and reads less of the header than the
\* validator.
THEOREM StoredFits == Spec => []TypeOK
<1>1. ConverterInv => TypeOK
  BY DEF ConverterInv
<1> QED BY <1>1, ConverterInvCorrect, PTL

\* Whatever the server is asked for passes the validator, but for a history that ends with
\* a frame without LEDs.
THEOREM AskedIsAccepted == Spec => []AcceptsWhatIsAsked
<1>1. ConverterInv => AcceptsWhatIsAsked
  <2> SUFFICES ASSUME ConverterInv, stage = "refused", IsAsked(data)
               PROVE  /\ writer = "kMultiple"
                      /\ \E h \in [1..HistoryFrames -> Frames] :
                           FlattenSeq(h) = data /\ Len(h[HistoryFrames]) = 2
    BY DEF AcceptsWhatIsAsked, BytesInHeader
  <2>1. /\ data = <<>> \/ ~IsValid
        /\ data \in Messages /\ data \in Seq(Bytes) /\ writer \in {"kSingle", "kMultiple"}
    BY MessagesAre DEF ConverterInv, TypeOK
  <2>2. CASE writer = "kSingle"
    <3>1. data \in Frames
      BY <2>2 DEF IsAsked
    <3>2. IsDataValid(data)
      BY <3>1, FramesAre
    <3>3. Len(data) >= 2
      BY <2>1, <3>2, DataValidIs DEF AsLongAsStated
    <3>4. data # <<>> /\ IsValid
      BY <2>1, <2>2, <3>2, <3>3 DEF IsValid
    <3> QED BY <2>1, <3>4
  <2>3. CASE writer = "kMultiple"
    <3>1. PICK h \in [1..HistoryFrames -> Frames] : data = FlattenSeq(h)
      BY <2>3 DEF IsAsked, AllHistories
    <3>2. h \in Seq(Frames) /\ Len(h) = HistoryFrames
      BY DataAssumption
    <3>3. data # <<>> /\ Len(h[HistoryFrames]) \in Nat /\ Len(h[HistoryFrames]) >= 2
      BY <3>1, <3>2, HistoryNotEmpty
    <3>4. ASSUME Len(h[HistoryFrames]) > 2 PROVE FALSE
      <4>1. IsHistoryDataValid(data)
        BY <2>1, <3>1, <3>2, <3>4, AcceptsHistory
      <4>2. IsValid
        BY <2>1, <2>3, <4>1, ValidHistoryIs DEF IsValid
      <4> QED BY <2>1, <3>3, <4>2
    <3>5. \A n \in Nat : n >= 2 /\ ~(n > 2) => n = 2
      OBVIOUS
    <3>6. Len(h[HistoryFrames]) = 2
      BY <3>3, <3>4, <3>5
    <3> QED BY <2>3, <3>1, <3>6
  <2> QED BY <2>1, <2>2, <2>3
<1> QED BY <1>1, ConverterInvCorrect, PTL

\* What passed the validator is stored whole, as HistoryFrames frames or as one, as long
\* as no frame has so many LEDs that the writer misreads its header.
THEOREM ValidIsStoredWhole == Spec => []StoredWhole
<1>1. ConverterInv => StoredWhole
  <2> SUFFICES ASSUME ConverterInv, stage = "saved", CountsFitInByte
               PROVE  /\ FlattenSeq(frames) = data
                      /\ Len(frames) = IF writer = "kSingle" THEN 1 ELSE HistoryFrames
    BY DEF StoredWhole
  <2>1. /\ data \in Messages /\ data \in Seq(Bytes) /\ IsValid
        /\ writer \in {"kSingle", "kMultiple"}
        /\ frames = IF writer = "kSingle" THEN <<data>> ELSE CutFrames(data, 0).frames
    BY MessagesAre DEF ConverterInv, TypeOK
  <2>2. CASE writer = "kSingle"
    <3>1. frames = Append(<<>>, data) /\ Len(frames) = 1
      BY <2>1, <2>2
    <3>2. FlattenSeq(Append(<<>>, data)) = FlattenSeq(<<>>) \o data
      <4>1. <<>> \in Seq(Seq(Bytes))
        OBVIOUS
      <4> QED BY <2>1, <4>1, FlattenAppend
    <3>3. <<>> \o data = data
      BY <2>1
    <3> QED BY <2>2, <3>1, <3>2, <3>3, FlattenEmpty
  <2>3. CASE writer = "kMultiple"
    <3>1. IsHistoryDataValid(data)
      BY <2>1, <2>3, ValidHistoryIs DEF IsValid
    <3>2. \A frame \in ToSet(CutFrames(data, ByteValues).frames) : frame[1] = 0
      BY <2>3 DEF CountsFitInByte
    <3>3. frames = CutFrames(data, ByteValues).frames
      BY <2>1, <2>3, <3>1, <3>2, SavedHistory
    <3> QED BY <2>1, <2>3, <3>1, <3>3, ValidHistory
  <2> QED BY <2>1, <2>2, <2>3
<1> QED BY <1>1, ConverterInvCorrect, PTL
=============================================================================
