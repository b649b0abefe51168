----------------------------- MODULE LedProofs ------------------------------
(***************************************************************************)
(* That the LEDs show what Display says, and that nothing flickers on the  *)
(* way, for every board, every set of colours, every length of a frame and *)
(* of a cross-fade.                                                        *)
(***************************************************************************)
EXTENDS LedManager, NumberLemmas

-----------------------------------------------------------------------------
(* Lists.                                                                  *)

\* Only goes through a list from the front and keeps the entries that are chosen.
Keeps(kept, S, s, chosen) ==
  /\ kept \in [0..Len(s) -> Seq(S)]
  /\ kept[0] = <<>>
  /\ \A i \in 1..Len(s) :
       kept[i] = IF s[i] \in chosen THEN Append(kept[i - 1], s[i]) ELSE kept[i - 1]
  /\ Only(s, chosen) = kept[Len(s)]

LEMMA OnlyRecursion ==
  ASSUME NEW S, NEW s \in Seq(S), NEW chosen
  PROVE  \E kept : Keeps(kept, S, s, chosen)
<1> DEFINE n == Len(s)
           Lists == Seq(S)
           Next1(k, i) == IF s[i] \in chosen THEN Append(k, s[i]) ELSE k
           F(g) == [i \in 0..Len(s) |->
                      IF i = 0 THEN <<>>
                      ELSE IF s[i] \in chosen THEN Append(g[i - 1], s[i]) ELSE g[i - 1]]
           step == [p \in Lists \X Nat |-> IF p[2] \in 1..n THEN Next1(p[1], p[2]) ELSE p[1]]
           kept == CHOOSE k : k = F(k)
<1>1. n \in Nat /\ <<>> \in Lists
  OBVIOUS
<1>2. step \in [Lists \X Nat -> Lists] /\ \A k \in Lists, i \in 1..n : step[<<k, i>>] = Next1(k, i)
  OBVIOUS
<1>3. \A k \in Lists, i \in 1..n : Next1(k, i) \in Lists
  OBVIOUS
<1>4. PICK f \in [0..n -> Lists] : f[0] = <<>> /\ \A i \in 1..n : f[i] = step[<<f[i - 1], i>>]
  <2>1. IsStep(step, Lists)
    BY <1>2 DEF IsStep
  <2>2. \E f : IsRecursion(f, Lists, <<>>, step, n)
    <3> HIDE DEF step, Lists, n
    <3> QED BY <1>1, <2>1, RecursionDefines
  <2> HIDE DEF step, Lists, n
  <2> QED BY <2>2 DEF IsRecursion
<1>5. \A i \in 1..n : i - 1 \in 0..n /\ i # 0
  BY <1>1
<1>6. \A i \in 1..n : f[i] = Next1(f[i - 1], i)
  <2> HIDE DEF n, Lists, step, Next1
  <2> QED BY <1>2, <1>4, <1>5
<1>7. f = F(f)
  <2>1. DOMAIN f = 0..n /\ \A i \in 0..n : f[i] = IF i = 0 THEN <<>> ELSE Next1(f[i - 1], i)
    <3> HIDE DEF n, Lists, step, Next1
    <3> QED BY <1>1, <1>4, <1>6
  <2> QED BY <1>4, <2>1
<1>8. kept = F(kept)
  <2> HIDE DEF F
  <2> QED BY <1>7
<1>9. Only(s, chosen) = kept[Len(s)]
  BY DEF Only
<1>10. \A i \in 0..n : kept[i] = IF i = 0 THEN <<>> ELSE Next1(kept[i - 1], i)
  <2> HIDE DEF kept
  <2> QED BY <1>8
<1> HIDE DEF kept
<1>11. 0 \in 0..n
  BY <1>1
<1>12. kept[0] = <<>>
  BY <1>10, <1>11
<1>13. kept \in [0..n -> Lists]
  <2> DEFINE T == {i \in 0..n : kept[i] \in Lists}
  <2> HIDE DEF n, Lists, Next1
  <2>1. 0 \in T
    BY <1>1, <1>11, <1>12
  <2>2. ASSUME NEW i \in 1..n, i - 1 \in T PROVE i \in T
    <3>1. i \in 0..n /\ i # 0
      BY <1>1
    <3>2. kept[i] = Next1(kept[i - 1], i) /\ kept[i - 1] \in Lists
      BY <1>10, <2>2, <3>1
    <3> QED BY <1>3, <3>1, <3>2
  <2>3. 0..n \subseteq T
    <3> HIDE DEF T
    <3> QED BY <1>1, <2>1, <2>2, UptoInduction
  <2>4. DOMAIN kept = 0..n
    BY <1>8 DEF n
  <2>5. kept = [i \in DOMAIN kept |-> kept[i]]
    BY <1>8
  <2> QED BY <2>3, <2>4, <2>5
<1>14. \A i \in 1..Len(s) :
         kept[i] = IF s[i] \in chosen THEN Append(kept[i - 1], s[i]) ELSE kept[i - 1]
  BY <1>5, <1>10
<1> HIDE DEF F, step
<1> QED BY <1>9, <1>12, <1>13, <1>14 DEF Keeps

\* What is in a list that has got longer by one.
LEMMA AppendIs ==
  ASSUME NEW S, NEW s \in Seq(S), NEW x \in S
  PROVE  /\ Append(s, x) \in Seq(S)
         /\ Len(Append(s, x)) = Len(s) + 1
         /\ \A i \in 1..Len(s) : Append(s, x)[i] = s[i]
         /\ Append(s, x)[Len(s) + 1] = x
         /\ ToSet(Append(s, x)) = ToSet(s) \cup {x}
<1>1. \A i \in 1..Len(s) : Append(s, x)[i] = s[i]
  OBVIOUS
<1>2. Len(Append(s, x)) = Len(s) + 1 /\ Append(s, x)[Len(s) + 1] = x
  OBVIOUS
<1>3. Append(s, x) \in Seq(S) /\ DOMAIN Append(s, x) = 1..(Len(s) + 1) /\ DOMAIN s = 1..Len(s)
  OBVIOUS
<1>4. 1..(Len(s) + 1) = 1..Len(s) \cup {Len(s) + 1}
  OBVIOUS
<1> DEFINE t == Append(s, x)
<1>5. ASSUME NEW e PROVE e \in ToSet(t) <=> e \in ToSet(s) \cup {x}
  <2> HIDE DEF t
  <2> QED BY <1>1, <1>2, <1>3, <1>4 DEF ToSet, t
<1> QED BY <1>1, <1>2, <1>3, <1>5

\* Only leaves what is chosen of the entries, in a list that is no longer.
LEMMA OnlyIs ==
  ASSUME NEW S, NEW s \in Seq(S), NEW chosen
  PROVE  /\ Only(s, chosen) \in Seq(S)
         /\ Len(Only(s, chosen)) <= Len(s)
         /\ ToSet(Only(s, chosen)) = ToSet(s) \cap chosen
<1>1. PICK kept : Keeps(kept, S, s, chosen)
  BY OnlyRecursion
<1> USE DEF Keeps
<1> DEFINE n == Len(s)
           Seen(i) == {s[j] : j \in 1..i}
           T == {i \in 0..n : Len(kept[i]) <= i /\ ToSet(kept[i]) = Seen(i) \cap chosen}
<1>2. n \in Nat /\ DOMAIN s = 1..n
  OBVIOUS
<1>3. 0 \in T
  <2>1. Len(<<>>) = 0 /\ ToSet(<<>>) = {} /\ Seen(0) = {}
    BY DEF ToSet
  <2> QED BY <1>1, <1>2, <2>1
<1>4. ASSUME NEW i \in 1..n, i - 1 \in T PROVE i \in T
  <2>1. i \in 0..n /\ i - 1 \in 0..n /\ s[i] \in S
    BY <1>2
  <2>2. kept[i - 1] \in Seq(S) /\ Len(kept[i - 1]) \in Nat
    <3>1. kept \in [0..n -> Seq(S)]
      BY <1>1
    <3> QED BY <2>1, <3>1
  <2>3. Seen(i) = Seen(i - 1) \cup {s[i]}
    <3>1. 1..i = 1..(i - 1) \cup {i}
      OBVIOUS
    <3> QED BY <3>1
  <2>4. Len(kept[i - 1]) <= i - 1 /\ ToSet(kept[i - 1]) = Seen(i - 1) \cap chosen
    BY <1>4
  <2>5. CASE s[i] \in chosen
    <3>1. kept[i] = Append(kept[i - 1], s[i])
      BY <1>1, <2>5
    <3>2. Len(kept[i]) = Len(kept[i - 1]) + 1 /\ ToSet(kept[i]) = ToSet(kept[i - 1]) \cup {s[i]}
      BY <2>1, <2>2, <3>1, AppendIs
    <3>3. Len(kept[i]) <= i
      BY <2>1, <2>2, <2>4, <3>2
    <3>4. ToSet(kept[i]) = Seen(i) \cap chosen
      <4> HIDE DEF Seen
      <4> QED BY <2>3, <2>4, <2>5, <3>2
    <3> QED BY <2>1, <3>3, <3>4
  <2>6. CASE s[i] \notin chosen
    <3>1. kept[i] = kept[i - 1]
      BY <1>1, <2>6
    <3>2. Len(kept[i]) <= i
      BY <2>1, <2>2, <2>4, <3>1
    <3>3. ToSet(kept[i]) = Seen(i) \cap chosen
      <4> HIDE DEF Seen
      <4> QED BY <2>3, <2>4, <2>6, <3>1
    <3> QED BY <2>1, <3>2, <3>3
  <2> QED BY <2>5, <2>6
<1>5. 0..n \subseteq T
  <2> HIDE DEF T, n
  <2> QED BY <1>2, <1>3, <1>4, UptoInduction
<1>6. n \in T /\ n \in 0..n
  BY <1>2, <1>5
<1>7. ToSet(s) = Seen(n)
  BY <1>2 DEF ToSet
<1> QED BY <1>1, <1>6, <1>7

\* An entry is followed by none of a kind.
IsLast(s, last, kind) ==
  last \in 1..Len(s) /\ \A j \in 1..Len(s) : j > last => s[j] \notin kind

\* The last entry of a kind that is chosen is the last of its kind in what Only leaves.
LEMMA OnlyKeepsLast ==
  ASSUME NEW S, NEW s \in Seq(S), NEW chosen, NEW kind, NEW last,
         IsLast(s, last, kind), s[last] \in chosen
  PROVE  \E l : IsLast(Only(s, chosen), l, kind) /\ Only(s, chosen)[l] = s[last]
<1> USE DEF IsLast
<1> DEFINE n == Len(s)
           Holds(k) == \E l \in 1..Len(k) : k[l] = s[last] /\ \A j \in 1..Len(k) : j > l => k[j] \notin kind
<1>1. PICK kept : Keeps(kept, S, s, chosen)
  BY OnlyRecursion
<1> USE DEF Keeps
<1> DEFINE T == {i \in 0..n : i >= last => Holds(kept[i])}
<1>2. n \in Nat
  OBVIOUS
<1>3. 0 \in T
  BY <1>2
<1>4. ASSUME NEW i \in 1..n, i - 1 \in T PROVE i \in T
  <2> SUFFICES ASSUME i >= last PROVE Holds(kept[i])
    BY <1>2
  <2>1. i \in 0..n /\ i - 1 \in 0..n /\ s[i] \in S
    BY <1>2
  <2> DEFINE k == kept[i - 1]
  <2>2. k \in Seq(S) /\ Len(k) \in Nat
    BY <1>1, <2>1
  <2>3. kept[i] = IF s[i] \in chosen THEN Append(k, s[i]) ELSE k
    BY <1>1
  <2> HIDE DEF k
  <2>4. /\ Append(k, s[i]) \in Seq(S)
        /\ Len(Append(k, s[i])) = Len(k) + 1
        /\ \A j \in 1..Len(k) : Append(k, s[i])[j] = k[j]
        /\ Append(k, s[i])[Len(k) + 1] = s[i]
    BY <2>1, <2>2, AppendIs
  <2>5. CASE i = last
    <3>1. kept[i] = Append(k, s[i])
      BY <2>3, <2>5
    <3>2. Len(k) + 1 \in 1..Len(kept[i]) /\ kept[i][Len(k) + 1] = s[last]
      BY <2>2, <2>4, <2>5, <3>1
    <3>3. \A j \in 1..Len(kept[i]) : ~(j > Len(k) + 1)
      BY <2>2, <2>4, <3>1
    <3> QED BY <3>2, <3>3
  <2>6. CASE i # last
    <3>1. i > last /\ i - 1 >= last
      BY <2>6
    <3>2. Holds(k)
      BY <1>4, <3>1 DEF k
    <3>3. CASE s[i] \notin chosen
      BY <2>3, <3>2, <3>3
    <3>4. CASE s[i] \in chosen
      <4>1. kept[i] = Append(k, s[i])
        BY <2>3, <3>4
      <4>2. PICK l \in 1..Len(k) : k[l] = s[last] /\ \A j \in 1..Len(k) : j > l => k[j] \notin kind
        BY <3>2
      <4>3. l \in 1..Len(kept[i]) /\ kept[i][l] = s[last]
        BY <2>2, <2>4, <4>1, <4>2
      <4>4. s[i] \notin kind
        BY <3>1
      <4>5. ASSUME NEW j \in 1..Len(kept[i]), j > l PROVE kept[i][j] \notin kind
        <5>1. CASE j = Len(k) + 1
          BY <2>4, <4>1, <4>4, <5>1
        <5>2. CASE j \in 1..Len(k)
          BY <2>4, <4>1, <4>2, <4>5, <5>2
        <5>3. j = Len(k) + 1 \/ j \in 1..Len(k)
          BY <2>2, <2>4, <4>1
        <5> QED BY <5>1, <5>2, <5>3
      <4> QED BY <4>3, <4>5
    <3> QED BY <3>3, <3>4
  <2> QED BY <2>5, <2>6
<1>5. 0..n \subseteq T
  <2> HIDE DEF T, n
  <2> QED BY <1>2, <1>3, <1>4, UptoInduction
<1>6. n \in T /\ n \in 0..n /\ n >= last
  BY <1>2, <1>5
<1> QED BY <1>1, <1>6

\* LastFor is where the last entry for a LED stands, and 0 if there is none.
LEMMA LastForIs ==
  ASSUME NEW S, NEW leds \in Seq(S), NEW id
  PROVE  LET last == LastFor(leds, id)
         IN \/ last = 0 /\ \A j \in 1..Len(leds) : leds[j].id # id
            \/ /\ last \in 1..Len(leds) /\ last # 0 /\ leds[last].id = id
               /\ \A j \in 1..Len(leds) : j > last => leds[j].id # id
<1> DEFINE I == {i \in 1..Len(leds) : leds[i].id = id}
<1>1. LastFor(leds, id) = IF I # {} THEN CHOOSE x \in I : \A y \in I : x >= y ELSE 0
  BY DEF LastFor, SelectLastInSeq, Max
<1>2. I \subseteq 0..Len(leds) /\ Len(leds) \in Nat
  OBVIOUS
<1>3. ASSUME I # {} PROVE LastFor(leds, id) \in I /\ \A y \in I : LastFor(leds, id) >= y
  <2>1. \E x \in I : \A y \in I : x >= y
    <3> HIDE DEF I
    <3> QED BY <1>2, <1>3, GreatestOf
  <2> HIDE DEF I
  <2> QED BY <1>1, <1>3, <2>1
<1>4. CASE I = {}
  BY <1>1, <1>4
<1>5. CASE I # {}
  BY <1>2, <1>3, <1>5
<1> QED BY <1>4, <1>5

\* There is one last entry.
LEMMA LastForIsUnique ==
  ASSUME NEW S, NEW leds \in Seq(S), NEW id, NEW l \in 1..Len(leds), leds[l].id = id,
         \A j \in 1..Len(leds) : j > l => leds[j].id # id
  PROVE  LastFor(leds, id) = l
<1> DEFINE last == LastFor(leds, id)
<1>1. last \in 1..Len(leds) /\ leds[last].id = id /\ \A j \in 1..Len(leds) : j > last => leds[j].id # id
  BY LastForIs
<1> HIDE DEF last
<1>2. ~(last > l) /\ ~(l > last)
  BY <1>1
<1> QED BY <1>1, <1>2 DEF last

\* What a list may hold: a LED that there is, in a colour of a train.
OnLeds == [id : Leds, color : Colors]

\* The colour that is named last.
LastColor(leds, id) == leds[LastFor(leds, id)].color

\* A colour is named by an entry.
LEMMA NamedAt ==
  ASSUME NEW leds \in Seq(OnLeds), NEW id
  PROVE  \A color : color \in Named(leds, id) <=>
           \E j \in 1..Len(leds) : leds[j].id = id /\ leds[j].color = color
<1>1. ToSet(leds) = {leds[j] : j \in 1..Len(leds)}
  BY DEF ToSet
<1> QED BY <1>1 DEF Named

LEMMA NamedIs ==
  ASSUME NEW leds \in Seq(OnLeds), NEW id
  PROVE  \A color :
           /\ color \in Named(leds, id) <=> [id |-> id, color |-> color] \in ToSet(leds)
           /\ color \in Named(leds, id) => id \in Leds /\ color \in Colors
<1> TAKE color
<1>1. \A j \in 1..Len(leds) : leds[j] \in OnLeds
  OBVIOUS
<1>2. ToSet(leds) = {leds[j] : j \in 1..Len(leds)}
  BY DEF ToSet
<1>3. color \in Named(leds, id) <=>
        \E j \in 1..Len(leds) : leds[j].id = id /\ leds[j].color = color
  BY NamedAt
<1>4. ASSUME NEW j \in 1..Len(leds)
      PROVE  /\ leds[j] = [id |-> id, color |-> color] <=> leds[j].id = id /\ leds[j].color = color
             /\ leds[j].id \in Leds /\ leds[j].color \in Colors
  BY <1>1 DEF OnLeds
<1>5. [id |-> id, color |-> color] \in ToSet(leds) <=>
        \E j \in 1..Len(leds) : leds[j] = [id |-> id, color |-> color]
  BY <1>2
<1> QED BY <1>3, <1>4, <1>5

\* An entry names its colour for its LED.
LEMMA EntryNames ==
  ASSUME NEW leds \in Seq(OnLeds), NEW led \in ToSet(leds)
  PROVE  led \in OnLeds /\ led.color \in Named(leds, led.id)
<1>1. PICK j \in 1..Len(leds) : led = leds[j]
  BY DEF ToSet
<1> QED BY <1>1 DEF Named

\* The last entry for a LED names one of its colours, if there is any.
LEMMA LastColorIs ==
  ASSUME NEW leds \in Seq(OnLeds), NEW id
  PROVE  /\ LastFor(leds, id) = 0 <=> Named(leds, id) = {}
         /\ Named(leds, id) # {} => LastColor(leds, id) \in Named(leds, id)
<1> DEFINE last == LastFor(leds, id)
<1>1. \/ last = 0 /\ \A j \in 1..Len(leds) : leds[j].id # id
      \/ last \in 1..Len(leds) /\ last # 0 /\ leds[last].id = id
  BY LastForIs
<1> HIDE DEF last
<1>2. CASE last = 0 /\ \A j \in 1..Len(leds) : leds[j].id # id
  <2>1. \A color : color \notin Named(leds, id)
    BY <1>2, NamedAt
  <2> QED BY <1>2, <2>1 DEF last
<1>3. CASE last \in 1..Len(leds) /\ last # 0 /\ leds[last].id = id
  <2>1. leds[last].color \in Named(leds, id)
    BY <1>3, NamedAt
  <2> QED BY <1>3, <2>1 DEF last, LastColor
<1> QED BY <1>1, <1>2, <1>3

\* Drawing a list changes the LEDs it names.
LEMMA DrawIs ==
  ASSUME NEW leds \in Seq(OnLeds), NEW picture, NEW scaling, NEW id \in Leds
  PROVE  Draw(picture, leds, scaling)[id] =
           IF Named(leds, id) = {} THEN picture[id] ELSE Lit(LastColor(leds, id), scaling)
BY LastColorIs DEF Draw, LastColor

\* The list of what fades in.
LEMMA FadingInIs ==
  ASSUME leds_active \in Seq(OnLeds), NEW new \in Seq(OnLeds), NEW id
  PROVE  /\ FadingIn(new) \in Seq(OnLeds) /\ Len(FadingIn(new)) <= Len(new)
         /\ Named(FadingIn(new), id) = {color \in Named(new, id) : Named(leds_active, id) # {color}}
         /\ Named(new, id) # {} /\ Named(leds_active, id) # {LastColor(new, id)}
              => LastColor(FadingIn(new), id) = LastColor(new, id)
<1> DEFINE chosen == {led \in ToSet(new) : ChangesColor(led) \/ led \notin ToSet(leds_active)}
           in == Only(new, chosen)
<1>1. FadingIn(new) = in
  BY DEF FadingIn
<1>2. in \in Seq(OnLeds) /\ Len(in) <= Len(new) /\ ToSet(in) = ToSet(new) \cap chosen
  <2> HIDE DEF chosen
  <2> QED BY OnlyIs
<1>3. ASSUME NEW e, NEW color, e = [id |-> id, color |-> color], e \in ToSet(new)
      PROVE  e \in chosen <=> Named(leds_active, id) # {color}
  <2>1. e.id = id /\ e.color = color
    BY <1>3
  <2>2. e \in ToSet(leds_active) <=> color \in Named(leds_active, id)
    BY <1>3, NamedIs
  <2> QED BY <1>3, <2>1, <2>2 DEF ChangesColor
<1>4. ASSUME NEW color
      PROVE  color \in Named(in, id) <=> color \in Named(new, id) /\ Named(leds_active, id) # {color}
  <2> DEFINE e == [id |-> id, color |-> color]
  <2>1. color \in Named(in, id) <=> e \in ToSet(in)
    <3> HIDE DEF in
    <3> QED BY <1>2, NamedIs
  <2>2. color \in Named(new, id) <=> e \in ToSet(new)
    BY NamedIs
  <2>3. e \in ToSet(new) => (e \in chosen <=> Named(leds_active, id) # {color})
    <3> HIDE DEF chosen
    <3> QED BY <1>3
  <2> HIDE DEF e, in, chosen
  <2> QED BY <1>2, <2>1, <2>2, <2>3
<1>5. ASSUME Named(new, id) # {}, Named(leds_active, id) # {LastColor(new, id)}
      PROVE  LastColor(in, id) = LastColor(new, id)
  <2> DEFINE last == LastFor(new, id)
             kind == {e \in OnLeds : e.id = id}
  <2>1. /\ last \in 1..Len(new) /\ new[last].id = id
        /\ \A j \in 1..Len(new) : j > last => new[j].id # id
    BY <1>5, LastColorIs, LastForIs
  <2>2. LastColor(new, id) = new[last].color
    BY DEF LastColor
  <2> HIDE DEF last
  <2>3. new[last] \in ToSet(new) /\ new[last] = [id |-> id, color |-> new[last].color]
    <3>1. new[last] \in OnLeds
      BY <2>1
    <3>2. new[last] \in ToSet(new)
      BY <2>1 DEF ToSet
    <3> QED BY <2>1, <3>1, <3>2 DEF OnLeds
  <2>4. new[last] \in chosen
    <3> HIDE DEF chosen
    <3> QED BY <1>3, <1>5, <2>2, <2>3
  <2>5. \A j \in 1..Len(new) : j > last => new[j] \notin kind
    BY <2>1
  <2>6. PICK l \in 1..Len(in) : in[l] = new[last] /\ \A j \in 1..Len(in) : j > l => in[j] \notin kind
    <3> HIDE DEF kind, chosen, in
    <3>1. IsLast(new, last, kind)
      BY <2>1, <2>5 DEF IsLast
    <3>2. \E l : IsLast(in, l, kind) /\ in[l] = new[last]
      BY <2>4, <3>1, OnlyKeepsLast DEF in
    <3> QED BY <3>2 DEF IsLast
  <2> HIDE DEF in
  <2>7. \A j \in 1..Len(in) : in[j] \in OnLeds
    BY <1>2
  <2>8. \A j \in 1..Len(in) : j > l => in[j].id # id
    BY <2>6, <2>7
  <2>9. LastFor(in, id) = l
    <3>1. in[l].id = id
      BY <2>1, <2>6
    <3> HIDE DEF kind, chosen
    <3> QED BY <1>2, <2>8, <3>1, LastForIsUnique
  <2> QED BY <2>2, <2>6, <2>9 DEF LastColor
<1> HIDE DEF in
<1> QED BY <1>1, <1>2, <1>4, <1>5

\* The list of what fades out.
LEMMA FadingOutIs ==
  ASSUME leds_active \in Seq(OnLeds), NEW new \in Seq(OnLeds), NEW id
  PROVE  /\ FadingOut(new) \in Seq(OnLeds) /\ Len(FadingOut(new)) <= Len(leds_active)
         /\ Named(FadingOut(new), id) = Named(leds_active, id) \ Named(new, id)
<1> DEFINE chosen == ToSet(leds_active) \ ToSet(new)
           out == FadingOut(new)
<1>1. out = Only(leds_active, chosen)
  BY DEF FadingOut
<1> HIDE DEF out
<1>2. out \in Seq(OnLeds) /\ Len(out) <= Len(leds_active) /\ ToSet(out) = ToSet(leds_active) \cap chosen
  BY <1>1, OnlyIs
<1>3. ASSUME NEW color
      PROVE  color \in Named(out, id) <=> color \in Named(leds_active, id) \ Named(new, id)
  BY <1>2, NamedIs
<1> QED BY <1>2, <1>3 DEF out

\* The list of what changes its colour: an entry that is on for each.
LEMMA SwappingIs ==
  ASSUME leds_active \in Seq(OnLeds), NEW new \in Seq(OnLeds), NEW id
  PROVE  /\ Swapping(new) \in Seq(OnLeds) /\ Len(Swapping(new)) <= Len(new)
         /\ Named(Swapping(new), id) \subseteq Named(leds_active, id)
         /\ Named(Swapping(new), id) # {} <=>
              \E color \in Named(new, id) : Named(leds_active, id) \ {color} # {}
<1> DEFINE chosen == {led \in ToSet(new) : ChangesColor(led)}
           changing == Only(new, chosen)
           swap == Swapping(new)
<1>1. swap = [i \in 1..Len(changing) |-> Replaced(changing[i])]
  BY DEF Swapping
<1> HIDE DEF swap
<1>2. changing \in Seq(OnLeds) /\ Len(changing) <= Len(new) /\ ToSet(changing) = ToSet(new) \cap chosen
  <2> HIDE DEF chosen
  <2> QED BY OnlyIs
<1>3. \A led \in ToSet(changing) : led \in ToSet(new) /\ led \in OnLeds /\ ChangesColor(led)
  <2>1. \A led \in ToSet(changing) : led \in ToSet(new) /\ ChangesColor(led)
    BY <1>2
  <2> HIDE DEF changing
  <2> QED BY <2>1, EntryNames
<1>4. ASSUME NEW led, ChangesColor(led)
      PROVE  /\ Replaced(led) \in ToSet(leds_active) /\ Replaced(led) \in OnLeds
             /\ Replaced(led).id = led.id /\ Replaced(led).color # led.color
  <2> DEFINE I == {i \in 1..Len(leds_active) :
                     leds_active[i].id = led.id /\ leds_active[i].color # led.color}
             first == SelectInSeq(leds_active, LAMBDA active : active.id = led.id /\ active.color # led.color)
  <2>1. PICK color \in Named(leds_active, led.id) : color # led.color
    BY <1>4 DEF ChangesColor
  <2>2. I # {} /\ I \subseteq Nat
    BY <2>1, NamedAt
  <2>3. first = IF I # {} THEN CHOOSE x \in I : \A y \in I : x <= y ELSE 0
    BY DEF SelectInSeq, Min
  <2>4. \E x \in I : \A y \in I : x <= y
    <3> HIDE DEF I
    <3> QED BY <2>2, LeastOf
  <2>5. first \in I
    <3> HIDE DEF I, first
    <3> QED BY <2>2, <2>3, <2>4
  <2>6. Replaced(led) = leds_active[first]
    BY DEF Replaced
  <2> HIDE DEF first
  <2> QED BY <2>5, <2>6 DEF ToSet
<1>5. Len(changing) \in Nat /\ \A i \in 1..Len(changing) : changing[i] \in ToSet(changing)
  <2> HIDE DEF changing
  <2> QED BY <1>2 DEF ToSet
<1>6. /\ Len(swap) = Len(changing)
      /\ \A i \in 1..Len(changing) : swap[i] = Replaced(changing[i])
  <2> HIDE DEF changing
  <2> QED BY <1>1, <1>5
<1>7. swap \in Seq(OnLeds)
  <2>1. \A i \in 1..Len(changing) : Replaced(changing[i]) \in OnLeds
    BY <1>3, <1>4, <1>5
  <2> HIDE DEF changing
  <2> QED BY <1>1, <1>5, <2>1
<1> HIDE DEF changing
<1>8. Named(swap, id) \subseteq Named(leds_active, id)
  <2> SUFFICES ASSUME NEW color \in Named(swap, id) PROVE color \in Named(leds_active, id)
    OBVIOUS
  <2>1. PICK i \in 1..Len(changing) : swap[i].id = id /\ swap[i].color = color
    BY <1>6, <1>7, NamedAt
  <2>2. swap[i] \in ToSet(leds_active)
    BY <1>3, <1>4, <1>5, <1>6
  <2> QED BY <2>1, <2>2, EntryNames
<1>9. ASSUME NEW color \in Named(swap, id)
      PROVE  \E named \in Named(new, id) : Named(leds_active, id) \ {named} # {}
  <2>1. PICK i \in 1..Len(changing) : swap[i].id = id /\ swap[i].color = color
    BY <1>6, <1>7, NamedAt
  <2>2. changing[i] \in ToSet(new) /\ ChangesColor(changing[i]) /\ changing[i].id = id
    BY <1>3, <1>4, <1>5, <1>6, <2>1
  <2> QED BY <2>2, EntryNames DEF ChangesColor
<1>10. ASSUME NEW named \in Named(new, id), Named(leds_active, id) \ {named} # {}
       PROVE  Named(swap, id) # {}
  <2> DEFINE e == [id |-> id, color |-> named]
  <2>1. e \in ToSet(new)
    BY NamedIs
  <2>2. ChangesColor(e)
    BY <1>10 DEF ChangesColor
  <2>3. e \in ToSet(changing)
    BY <1>2, <2>1, <2>2
  <2>4. PICK i \in 1..Len(changing) : changing[i] = e
    BY <1>2, <2>3 DEF ToSet
  <2>5. swap[i].id = id
    <3>1. Replaced(e).id = e.id
      BY <1>4, <2>2
    <3> QED BY <1>6, <2>4, <3>1
  <2> QED BY <1>6, <1>7, <2>5, NamedAt
<1> QED BY <1>2, <1>6, <1>7, <1>8, <1>9, <1>10 DEF swap

\* What SetLeds makes of a frame is about LEDs that there are.
LEMMA OnStripsIs ==
  ASSUME NEW leds \in Frames
  PROVE  OnStrips(leds) \in Seq(OnLeds) /\ Len(OnStrips(leds)) <= MaxLedsOn
<1> DEFINE chosen == {led \in Entries : led.id \in Leds}
           new == OnStrips(leds)
<1>1. leds \in Seq(Entries) /\ Len(leds) <= MaxLedsOn
  <2>1. PICK m \in 0..MaxLedsOn : leds \in [1..m -> Entries]
    BY DEF Frames, SeqOf
  <2>2. MaxLedsOn \in Nat
    BY LedManagerAssumption
  <2> QED BY <2>1, <2>2
<1>2. new = Only(leds, chosen)
  BY DEF OnStrips
<1> HIDE DEF new
<1>3. new \in Seq(Entries) /\ Len(new) <= Len(leds) /\ ToSet(new) = ToSet(leds) \cap chosen
  <2> HIDE DEF chosen
  <2> QED BY <1>1, <1>2, OnlyIs
<1>4. \A i \in 1..Len(new) : new[i] \in Entries /\ new[i].id \in Leds
  <2>1. \A i \in 1..Len(new) : new[i] \in ToSet(new)
    BY <1>3 DEF ToSet
  <2> QED BY <1>3, <2>1
<1>5. \A i \in 1..Len(new) : new[i] \in OnLeds
  BY <1>4 DEF Entries, OnLeds
<1>6. Len(new) <= MaxLedsOn
  BY <1>1, <1>3, LedManagerAssumption
<1>7. new \in Seq(OnLeds)
  <2>1. new \in [1..Len(new) -> OnLeds]
    BY <1>3, <1>5
  <2> QED BY <1>3, <2>1
<1> QED BY <1>6, <1>7 DEF new

-----------------------------------------------------------------------------
(* Brightness.                                                             *)

SwapScaling(n) == FullScale - (2 * n * FullScale) \div TransitionTicks
InScaling(n) == (FullScale * (n - Half)) \div Half

LEMMA HalfIs ==
  /\ Half \in Nat
  /\ 2 * Half <= TransitionTicks /\ TransitionTicks <= 2 * Half + 1
  /\ TransitionTicks >= 2 => Half >= 1
BY LedManagerAssumption DEF Half

\* What FadeOutLedsToSwap and FadeLedsInOut clamp is in its limits.
LEMMA SwapScalingIs ==
  ASSUME NEW n \in Nat, n < Half
  PROVE  SwapScaling(n) \in 0..FullScale
<1> DEFINE a == 2 * n * FullScale
           q == a \div TransitionTicks
<1>1. a \in Nat /\ TransitionTicks \in Nat \ {0} /\ a <= 0 + TransitionTicks * FullScale
  BY HalfIs, LedManagerAssumption DEF FullScale
<1>2. q \in Nat
  BY <1>1, DivisionLeaves
<1>3. 0 \div TransitionTicks = 0
  BY <1>1
<1>4. q - 0 \div TransitionTicks <= FullScale
  <2> HIDE DEF a
  <2>1. FullScale \in Nat /\ 0 \in Nat
    BY DEF FullScale
  <2> QED BY <1>1, <2>1, QuotientsApart
<1>5. SwapScaling(n) = FullScale - q
  BY DEF SwapScaling
<1> HIDE DEF q
<1> QED BY <1>2, <1>3, <1>4, <1>5 DEF FullScale

LEMMA InScalingIs ==
  ASSUME NEW n \in Nat, n >= Half, n < TransitionTicks, TransitionTicks >= 2
  PROVE  InScaling(n) \in 0..FullScale /\ FullScale - InScaling(n) \in 0..FullScale
<1> DEFINE a == FullScale * (n - Half)
           q == a \div Half
<1>1. a \in Nat /\ Half \in Nat \ {0} /\ a <= 0 + Half * FullScale
  BY HalfIs, LedManagerAssumption DEF FullScale
<1>2. q \in Nat
  BY <1>1, DivisionLeaves
<1>3. 0 \div Half = 0
  BY <1>1
<1>4. q - 0 \div Half <= FullScale
  <2> HIDE DEF a
  <2>1. FullScale \in Nat /\ 0 \in Nat
    BY DEF FullScale
  <2> QED BY <1>1, <2>1, QuotientsApart
<1>5. InScaling(n) = q
  BY DEF InScaling
<1> HIDE DEF q
<1> QED BY <1>2, <1>3, <1>4, <1>5 DEF FullScale

-----------------------------------------------------------------------------
(* Types.                                                                  *)

\* The lists, as the vectors of the code can hold them.
LedVectors == {leds \in Seq(OnLeds) : Len(leds) <= MaxLedsOn}
Pictures == [Leds -> LitLeds \cup {Off}]

\* The variables, with the lists as sequences.
LedTypeInv ==
  /\ strip \in Pictures /\ latched \in Pictures
  /\ leds_active \in LedVectors
  /\ leds_in \in LedVectors /\ leds_out \in LedVectors /\ leds_swap \in LedVectors
  /\ frame \in LedVectors /\ before \in LedVectors
  /\ transition_cnt \in 0..TransitionTicks
  /\ is_transitioning \in BOOLEAN
  /\ status_led_color \in Abstract!StatusColors \cup {"kBlack"}
  /\ display \in Abstract!Displays
  /\ display.is_transitioning = is_transitioning
  /\ display.transition_cnt = transition_cnt

LEMMA LedTypeInvImpliesTypeOK == LedTypeInv => TypeOK
<1> SUFFICES ASSUME LedTypeInv PROVE TypeOK
  OBVIOUS
<1>1. \A leds \in LedVectors : Len(leds) <= MaxLedsOn /\ ToSet(leds) \subseteq [id : Leds, color : Colors]
  BY EntryNames DEF LedVectors, OnLeds
<1> QED BY <1>1 DEF LedTypeInv, TypeOK, Pictures

\* A LED that is lit, or dimmed to nothing.
LEMMA LitIs ==
  ASSUME NEW color \in Colors \cup Abstract!StatusColors, NEW scaling \in 0..FullScale
  PROVE  Lit(color, scaling) \in LitLeds \cup {Off}
BY DEF Lit, LitLeds, FullScale

LEMMA DrawType ==
  ASSUME NEW leds \in LedVectors, NEW picture \in Pictures, NEW scaling \in 0..FullScale
  PROVE  Draw(picture, leds, scaling) \in Pictures
<1>1. leds \in Seq(OnLeds)
  BY DEF LedVectors
<1>2. ASSUME NEW id \in Leds PROVE Draw(picture, leds, scaling)[id] \in LitLeds \cup {Off}
  <2>1. CASE Named(leds, id) = {}
    BY <1>1, <2>1, DrawIs DEF Pictures
  <2>2. CASE Named(leds, id) # {}
    <3>1. LastColor(leds, id) \in Colors
      BY <1>1, <2>2, LastColorIs, NamedIs
    <3>2. Lit(LastColor(leds, id), scaling) \in LitLeds \cup {Off}
      BY <3>1, LitIs
    <3> QED BY <1>1, <2>2, <3>2, DrawIs
  <2> QED BY <2>1, <2>2
<1> QED BY <1>2 DEF Draw, Pictures

\* The pictures that stand still.
LEMMA StillPictures ==
  /\ AllOff \in Pictures
  /\ AllOn \in Pictures
  /\ \A color \in Abstract!StatusColors : StatusPicture(color) \in Pictures
  /\ strip \in Pictures => StatusCleared \in Pictures
<1>1. Off \in LitLeds \cup {Off}
  OBVIOUS
<1>2. \A color \in Abstract!StatusColors : Lit(color, FullScale) \in LitLeds \cup {Off}
  BY LitIs DEF FullScale
<1>3. "kWhite" \in Abstract!StatusColors
  BY DEF Abstract!StatusColors
<1> QED BY <1>1, <1>2, <1>3 DEF AllOff, AllOn, StatusPicture, StatusCleared, Pictures

\* What refreshes draw.
LEMMA RefreshDraws ==
  ASSUME LedTypeInv, RefreshTransition
  PROVE  LET n == transition_cnt + 1
         IN /\ n \in Nat
            /\ n < TransitionTicks /\ n < Half => strip' = Draw(strip, leds_swap, SwapScaling(n))
            /\ n < TransitionTicks /\ n >= Half =>
                 /\ strip' = Draw(Draw(strip, leds_out, FullScale - InScaling(n)), leds_in, InScaling(n))
                 /\ InScaling(n) \in 0..FullScale /\ FullScale - InScaling(n) \in 0..FullScale
            /\ n >= TransitionTicks => strip' = Draw(Draw(strip, leds_out, 0), leds_in, FullScale)
<1> DEFINE n == transition_cnt + 1
<1>1. n \in Nat /\ n >= 1
  BY LedManagerAssumption DEF LedTypeInv
<1>2. n < TransitionTicks /\ n < Half => strip' = Draw(strip, leds_swap, SwapScaling(n))
  BY <1>1, LedManagerAssumption DEF RefreshTransition, FadeOutLedsToSwap, SwapScaling
<1>3. n < TransitionTicks /\ n >= Half =>
        /\ strip' = Draw(Draw(strip, leds_out, FullScale - InScaling(n)), leds_in, InScaling(n))
        /\ InScaling(n) \in 0..FullScale /\ FullScale - InScaling(n) \in 0..FullScale
  <2> SUFFICES ASSUME n < TransitionTicks, n >= Half
               PROVE  /\ strip' = Draw(Draw(strip, leds_out, FullScale - InScaling(n)), leds_in, InScaling(n))
                      /\ InScaling(n) \in 0..FullScale /\ FullScale - InScaling(n) \in 0..FullScale
    OBVIOUS
  <2>1. InScaling(n) \in 0..FullScale /\ FullScale - InScaling(n) \in 0..FullScale
    <3>1. TransitionTicks >= 2
      BY <1>1, LedManagerAssumption
    <3> HIDE DEF n
    <3> QED BY <1>1, <3>1, InScalingIs
  <2>2. strip' = FadeLedsInOut(InScaling(n))
    <3>1. ~(n >= TransitionTicks) /\ ~(n < Half)
      BY <1>1, HalfIs, LedManagerAssumption
    <3> QED BY <3>1 DEF RefreshTransition, InScaling
  <2> QED BY <2>1, <2>2 DEF FadeLedsInOut
<1>4. n >= TransitionTicks => strip' = Draw(Draw(strip, leds_out, 0), leds_in, FullScale)
  BY <1>1 DEF RefreshTransition, FadeLedsInOut, FullScale
<1> QED BY <1>1, <1>2, <1>3, <1>4

\* A frame at any time; PatientNext waits for the end of a cross-fade.
AnyNext == Others \/ \E leds \in Frames : AfterTest /\ SetLeds(leds)

LEMMA LedTypeInitially == Init => LedTypeInv
<1> SUFFICES ASSUME Init PROVE LedTypeInv
  OBVIOUS
<1>1. <<>> \in LedVectors
  BY LedManagerAssumption DEF LedVectors
<1>2. Abstract!DarkDisplay \in Abstract!Displays
  BY LedManagerAssumption
     DEF Abstract!DarkDisplay, Abstract!Still, Abstract!Displays, Abstract!Pictures
<1>3. 0 \in 0..TransitionTicks
  BY LedManagerAssumption
<1> QED BY <1>1, <1>2, <1>3, StillPictures
        DEF Init, LedTypeInv, Abstract!DarkDisplay, Abstract!Still

LEMMA LedTypePreserved == LedTypeInv /\ [AnyNext]_ledVars => LedTypeInv'
<1> SUFFICES ASSUME LedTypeInv, [AnyNext]_ledVars PROVE LedTypeInv'
  OBVIOUS
<1> USE LedManagerAssumption
<1>e. <<>> \in LedVectors /\ 0 \in 0..TransitionTicks
  BY DEF LedVectors
<1>d. /\ display \in Abstract!Displays
      /\ display.is_transitioning = is_transitioning /\ display.transition_cnt = transition_cnt
      /\ strip \in Pictures
  BY DEF LedTypeInv
<1>1. CASE ClearAllLeds
  <2>1. Abstract!ClearAllLeds \in Abstract!Displays
    BY DEF Abstract!ClearAllLeds, Abstract!DarkDisplay, Abstract!Still, Abstract!Displays, Abstract!Pictures
  <2> QED BY <1>e, <1>1, <2>1, StillPictures
          DEF ClearAllLeds, Show, Forget, LedTypeInv, Abstract!ClearAllLeds, Abstract!DarkDisplay, Abstract!Still
<1>2. ASSUME NEW color \in Abstract!StatusColors, SetStatusLed(color)
      PROVE  LedTypeInv'
  <2>1. display' = IF is_transitioning THEN display ELSE Abstract!Still(color)
    BY <1>d, <1>2 DEF SetStatusLed, Abstract!SetStatusLed
  <2>2. CASE is_transitioning
    BY <1>d, <1>2, <2>1, <2>2 DEF SetStatusLed, lists, LedTypeInv
  <2>3. CASE ~is_transitioning
    <3>1. /\ Abstract!Still(color) \in Abstract!Displays
          /\ Abstract!Still(color).is_transitioning = FALSE /\ Abstract!Still(color).transition_cnt = 0
      BY <1>e DEF Abstract!Still, Abstract!Displays, Abstract!Pictures
    <3>2. StatusPicture(color) \in Pictures
      BY StillPictures
    <3>3. /\ strip' = StatusPicture(color) /\ latched' = strip' /\ Forget
          /\ status_led_color' = color
          /\ frame' = frame /\ before' = before
      BY <1>2, <2>3 DEF SetStatusLed, Show
    <3> QED BY <1>e, <2>1, <2>3, <3>1, <3>2, <3>3 DEF Forget, LedTypeInv
  <2> QED BY <2>2, <2>3
<1>3. CASE SetTestLeds
  <2>1. /\ display' \in Abstract!Displays
        /\ display'.is_transitioning = display.is_transitioning
        /\ display'.transition_cnt = display.transition_cnt
    BY <1>d, <1>3 DEF SetTestLeds, Abstract!SetTestLeds, Abstract!Displays, Abstract!Pictures
  <2>2. strip' \in Pictures
    BY <1>d, <1>3, StillPictures DEF SetTestLeds
  <2> QED BY <1>d, <1>3, <2>1, <2>2 DEF SetTestLeds, lists, LedTypeInv
<1>4. CASE RefreshTransition
  <2> DEFINE n == transition_cnt + 1
  <2>1. /\ n \in Nat
        /\ n < TransitionTicks /\ n < Half => strip' = Draw(strip, leds_swap, SwapScaling(n))
        /\ n < TransitionTicks /\ n >= Half =>
             /\ strip' = Draw(Draw(strip, leds_out, FullScale - InScaling(n)), leds_in, InScaling(n))
             /\ InScaling(n) \in 0..FullScale /\ FullScale - InScaling(n) \in 0..FullScale
        /\ n >= TransitionTicks => strip' = Draw(Draw(strip, leds_out, 0), leds_in, FullScale)
    BY <1>4, RefreshDraws
  <2>2. leds_in \in LedVectors /\ leds_out \in LedVectors /\ leds_swap \in LedVectors
    BY DEF LedTypeInv
  <2>3. strip' \in Pictures
    <3> HIDE DEF n
    <3>1. CASE n < TransitionTicks /\ n < Half
      BY <1>d, <2>1, <2>2, <3>1, SwapScalingIs, DrawType
    <3>2. CASE n < TransitionTicks /\ n >= Half
      <4>1. InScaling(n) \in 0..FullScale /\ FullScale - InScaling(n) \in 0..FullScale
        BY <2>1, <3>2
      <4>2. Draw(strip, leds_out, FullScale - InScaling(n)) \in Pictures
        BY <1>d, <2>2, <4>1, DrawType
      <4> QED BY <2>1, <2>2, <3>2, <4>1, <4>2, DrawType
    <3>3. CASE n >= TransitionTicks
      <4>1. 0 \in 0..FullScale /\ FullScale \in 0..FullScale
        BY DEF FullScale
      <4>2. Draw(strip, leds_out, 0) \in Pictures
        BY <1>d, <2>2, <4>1, DrawType
      <4> QED BY <2>1, <2>2, <3>3, <4>1, <4>2, DrawType
    <3> QED BY <2>1, <3>1, <3>2, <3>3, HalfIs
  <2>4. transition_cnt' \in 0..TransitionTicks /\ is_transitioning' \in BOOLEAN
    BY <1>4, <2>1 DEF RefreshTransition, LedTypeInv
  <2>5. /\ display'.is_transitioning = is_transitioning'
        /\ display'.transition_cnt = transition_cnt'
        /\ display'.picture = display.picture
    <3>1. display' = Abstract!RefreshTransition(display)
      BY <1>4 DEF RefreshTransition
    <3>2. Abstract!IsLastRefresh(display) <=> n >= TransitionTicks
      BY <1>d DEF Abstract!IsLastRefresh
    <3>3. ~(n >= TransitionTicks) <=> n < TransitionTicks
      BY <2>1
    <3> QED BY <1>d, <1>4, <3>1, <3>2, <3>3 DEF RefreshTransition, Abstract!RefreshTransition
  <2>6. display' \in Abstract!Displays
    <3>1. display' = [picture |-> display'.picture, transition_cnt |-> display'.transition_cnt,
                      is_transitioning |-> display'.is_transitioning]
      BY <1>4 DEF RefreshTransition, Abstract!RefreshTransition
    <3> QED BY <1>d, <2>4, <2>5, <3>1 DEF Abstract!Displays
  <2> QED BY <1>4, <2>3, <2>4, <2>5, <2>6 DEF RefreshTransition, Show, lists, LedTypeInv
<1>5. ASSUME NEW leds \in Frames, SetLeds(leds)
      PROVE  LedTypeInv'
  <2> DEFINE new == OnStrips(leds)
  <2>1. new \in Seq(OnLeds) /\ Len(new) <= MaxLedsOn
    BY OnStripsIs
  <2>2. leds_active \in Seq(OnLeds) /\ Len(leds_active) <= MaxLedsOn
    BY DEF LedTypeInv, LedVectors
  <2>3. /\ leds_in' = FadingIn(new) /\ leds_swap' = Swapping(new) /\ leds_out' = FadingOut(new)
        /\ leds_active' = new /\ frame' = new /\ before' = leds_active
        /\ strip' = StatusCleared /\ latched' = latched /\ status_led_color' = "kBlack"
        /\ transition_cnt' = 0 /\ is_transitioning' = TRUE
        /\ display' = Abstract!SetLeds("kLive")
    BY <1>5 DEF SetLeds
  <2> HIDE DEF new
  <2>4. FadingIn(new) \in Seq(OnLeds) /\ Len(FadingIn(new)) <= Len(new)
    BY <2>1, <2>2, FadingInIs
  <2>5. FadingOut(new) \in Seq(OnLeds) /\ Len(FadingOut(new)) <= Len(leds_active)
    BY <2>1, <2>2, FadingOutIs
  <2>6. Swapping(new) \in Seq(OnLeds) /\ Len(Swapping(new)) <= Len(new)
    BY <2>1, <2>2, SwappingIs
  <2>7. /\ new \in LedVectors /\ FadingIn(new) \in LedVectors
        /\ FadingOut(new) \in LedVectors /\ Swapping(new) \in LedVectors
    BY <2>1, <2>2, <2>4, <2>5, <2>6 DEF LedVectors
  <2>8. /\ Abstract!SetLeds("kLive") \in Abstract!Displays
        /\ Abstract!SetLeds("kLive").is_transitioning = TRUE
        /\ Abstract!SetLeds("kLive").transition_cnt = 0
    BY <1>e DEF Abstract!SetLeds, Abstract!Displays, Abstract!Pictures, Abstract!ReaderModes
  <2>9. StatusCleared \in Pictures
    BY <1>d, StillPictures
  <2> QED BY <1>e, <2>3, <2>7, <2>8, <2>9 DEF LedTypeInv
<1>6. CASE SetBrightness
  BY <1>6 DEF SetBrightness, lists, LedTypeInv
<1>7. CASE UNCHANGED ledVars
  BY <1>7 DEF ledVars, lists, LedTypeInv
<1> QED BY <1>1, <1>2, <1>3, <1>4, <1>5, <1>6, <1>7 DEF AnyNext, Others

\* The variables have their types, and no list is longer than its vector or names a LED
\* that no strip has, whatever frames come and whenever they do.
THEOREM LedTypeCorrect == Spec => []TypeOK
<1>1. Spec => []LedTypeInv
  BY LedTypeInitially, LedTypePreserved, PTL DEF Spec, AnyNext
<1> QED BY <1>1, LedTypeInvImpliesTypeOK, PTL

-----------------------------------------------------------------------------
(* What the LEDs show.                                                     *)

\* The three lists are what there is to do from one frame to the next.
FadeLists ==
  \A id \in Leds :
    /\ Named(leds_out, id) = Named(before, id) \ Named(frame, id)
    /\ Named(leds_in, id) = {color \in Named(frame, id) : Named(before, id) # {color}}
    /\ Named(leds_swap, id) \subseteq Named(before, id)
    /\ Named(leds_swap, id) # {} <=> \E color \in Named(frame, id) : Named(before, id) \ {color} # {}
    /\ Named(frame, id) # {} /\ Named(before, id) # {LastColor(frame, id)}
         => LastColor(leds_in, id) = LastColor(frame, id)

\* What was last put on the LEDs, and what the lists are then.
PictureInv ==
  /\ display.picture \in {"dark", "test", "kLive"} \cup Abstract!StatusColors
  /\ is_transitioning => display.picture = "kLive"
  /\ display.picture = "kLive" => leds_active = frame /\ FadeLists /\ status_led_color = "kBlack"
  /\ display.picture \notin {"test", "kLive"} =>
       leds_active = <<>> /\ leds_in = <<>> /\ leds_out = <<>> /\ leds_swap = <<>>
  /\ display.picture \in Abstract!StatusColors => status_led_color = display.picture

\* A LED has one of the colours a list names for it.
Settled(leds, id) ==
  IF Named(leds, id) = {} THEN strip[id] = Off
  ELSE \E color \in Named(leds, id) : strip[id] = Lit(color, FullScale)

\* How far a LED is after n refreshes.
FadedTo(n, id) ==
  IF n = 0 \/ (n < Half /\ Named(leds_swap, id) = {}) THEN Settled(before, id)
  ELSE IF n < Half THEN \E color \in Named(leds_swap, id) : strip[id] = Lit(color, SwapScaling(n))
  ELSE IF Named(leds_in, id) # {} THEN strip[id] = Lit(LastColor(leds_in, id), InScaling(n))
  ELSE IF Named(leds_out, id) # {}
    THEN \E color \in Named(leds_out, id) : strip[id] = Lit(color, FullScale - InScaling(n))
  ELSE Settled(before, id)

FadeInv ==
  is_transitioning => transition_cnt < TransitionTicks /\ \A id \in Leds : FadedTo(transition_cnt, id)

\* The end of a cross-fade is the end of its count.
EndInv == ~is_transitioning /\ display.picture = "kLive" => transition_cnt = TransitionTicks

\* FrameIsShown and ShowsPicture of what is written for the LEDs.
FrameIsWritten ==
  \A id \in Leds :
    LET last == LastFor(frame, id)
        color == frame[last].color
        others == Named(frame, id) \ {color}
    IN IF last = 0 THEN strip[id] = Off
       ELSE IF Named(before, id) = {color} /\ others # {}
         THEN \E other \in others : strip[id] = Lit(other, FullScale)
       ELSE strip[id] = Lit(color, FullScale)

PictureIsWritten ==
  ~is_transitioning =>
    /\ display.picture = "dark" => strip = AllOff
    /\ display.picture \in Abstract!StatusColors => strip = StatusPicture(display.picture)
    /\ display.picture \in Abstract!ReaderModes => FrameIsWritten

\* What is written is shown, but for the test pattern and for the status that a frame
\* has just taken away.
LatchInv ==
  display.picture # "test" =>
    latched = strip \/ (is_transitioning /\ transition_cnt = 0 /\ before = <<>>)

LedInv == LedTypeInv /\ PictureInv /\ FadeInv /\ EndInv /\ PictureIsWritten /\ LatchInv

\* A LED after FadeLedsInOut, as it was before if no list names it.
FadedInOut(id, scaling_out, scaling_in) ==
  IF Named(leds_in, id) # {} THEN Lit(LastColor(leds_in, id), scaling_in)
  ELSE IF Named(leds_out, id) # {} THEN Lit(LastColor(leds_out, id), scaling_out)
  ELSE strip[id]

\* What a refresh does to one LED.
LEMMA RefreshedLed ==
  ASSUME LedTypeInv, RefreshTransition, NEW id \in Leds
  PROVE  LET n == transition_cnt + 1
         IN /\ n \in Nat
            /\ n < TransitionTicks /\ n < Half =>
                 strip'[id] = IF Named(leds_swap, id) = {} THEN strip[id]
                              ELSE Lit(LastColor(leds_swap, id), SwapScaling(n))
            /\ n < TransitionTicks /\ n >= Half =>
                 strip'[id] = FadedInOut(id, FullScale - InScaling(n), InScaling(n))
            /\ n >= TransitionTicks => strip'[id] = FadedInOut(id, 0, FullScale)
<1> DEFINE n == transition_cnt + 1
<1>1. /\ n \in Nat
      /\ n < TransitionTicks /\ n < Half => strip' = Draw(strip, leds_swap, SwapScaling(n))
      /\ n < TransitionTicks /\ n >= Half =>
           strip' = Draw(Draw(strip, leds_out, FullScale - InScaling(n)), leds_in, InScaling(n))
      /\ n >= TransitionTicks => strip' = Draw(Draw(strip, leds_out, 0), leds_in, FullScale)
  BY RefreshDraws
<1>2. leds_in \in Seq(OnLeds) /\ leds_out \in Seq(OnLeds) /\ leds_swap \in Seq(OnLeds)
  BY DEF LedTypeInv, LedVectors
<1>3. \A scaling_out, scaling_in :
        Draw(Draw(strip, leds_out, scaling_out), leds_in, scaling_in)[id] =
          FadedInOut(id, scaling_out, scaling_in)
  <2> TAKE scaling_out, scaling_in
  <2>1. Draw(strip, leds_out, scaling_out)[id] =
          IF Named(leds_out, id) = {} THEN strip[id] ELSE Lit(LastColor(leds_out, id), scaling_out)
    BY <1>2, DrawIs
  <2> DEFINE picture == Draw(strip, leds_out, scaling_out)
  <2>2. Draw(picture, leds_in, scaling_in)[id] =
          IF Named(leds_in, id) = {} THEN picture[id] ELSE Lit(LastColor(leds_in, id), scaling_in)
    <3> HIDE DEF picture
    <3> QED BY <1>2, DrawIs
  <2> QED BY <2>1, <2>2 DEF FadedInOut
<1>4. \A scaling : Draw(strip, leds_swap, scaling)[id] =
        IF Named(leds_swap, id) = {} THEN strip[id] ELSE Lit(LastColor(leds_swap, id), scaling)
  BY <1>2, DrawIs
<1> QED BY <1>1, <1>3, <1>4

\* The lists of a cross-fade to a frame.
LEMMA SetLedsLists ==
  ASSUME LedTypeInv, NEW leds \in Frames, SetLeds(leds)
  PROVE  FadeLists'
<1> DEFINE new == OnStrips(leds)
<1>1. new \in Seq(OnLeds) /\ leds_active \in Seq(OnLeds)
  BY OnStripsIs DEF LedTypeInv, LedVectors
<1>2. /\ leds_in' = FadingIn(new) /\ leds_swap' = Swapping(new) /\ leds_out' = FadingOut(new)
      /\ frame' = new /\ before' = leds_active
  BY DEF SetLeds
<1> HIDE DEF new
<1>3. ASSUME NEW id \in Leds
      PROVE  /\ Named(FadingOut(new), id) = Named(leds_active, id) \ Named(new, id)
             /\ Named(FadingIn(new), id) =
                  {color \in Named(new, id) : Named(leds_active, id) # {color}}
             /\ Named(Swapping(new), id) \subseteq Named(leds_active, id)
             /\ Named(Swapping(new), id) # {} <=>
                  \E color \in Named(new, id) : Named(leds_active, id) \ {color} # {}
             /\ Named(new, id) # {} /\ Named(leds_active, id) # {LastColor(new, id)}
                  => LastColor(FadingIn(new), id) = LastColor(new, id)
  <2>1. Named(FadingOut(new), id) = Named(leds_active, id) \ Named(new, id)
    BY <1>1, FadingOutIs
  <2>2. /\ Named(FadingIn(new), id) =
             {color \in Named(new, id) : Named(leds_active, id) # {color}}
        /\ Named(new, id) # {} /\ Named(leds_active, id) # {LastColor(new, id)}
             => LastColor(FadingIn(new), id) = LastColor(new, id)
    BY <1>1, FadingInIs
  <2>3. /\ Named(Swapping(new), id) \subseteq Named(leds_active, id)
        /\ Named(Swapping(new), id) # {} <=>
             \E color \in Named(new, id) : Named(leds_active, id) \ {color} # {}
    BY <1>1, SwappingIs
  <2> QED BY <2>1, <2>2, <2>3
<1>4. /\ \A id : Named(leds_out', id) = Named(FadingOut(new), id)
      /\ \A id : Named(leds_in', id) = Named(FadingIn(new), id)
      /\ \A id : Named(leds_swap', id) = Named(Swapping(new), id)
      /\ \A id : Named(before', id) = Named(leds_active, id)
      /\ \A id : Named(frame', id) = Named(new, id)
      /\ \A id : LastColor(leds_in', id) = LastColor(FadingIn(new), id)
      /\ \A id : LastColor(frame', id) = LastColor(new, id)
  BY <1>2
<1> QED BY <1>3, <1>4 DEF FadeLists

\* The end of a cross-fade shows the frame, if what no list names is as it was before.
LEMMA EndShowsFrame ==
  ASSUME LedTypeInv, RefreshTransition, transition_cnt + 1 >= TransitionTicks, FadeLists,
         \A id \in Leds : Named(leds_in, id) = {} /\ Named(leds_out, id) = {} => Settled(before, id)
  PROVE  FrameIsWritten'
<1>1. frame' = frame /\ before' = before
  BY DEF RefreshTransition
<1>2. frame \in Seq(OnLeds) /\ leds_in \in Seq(OnLeds)
  BY DEF LedTypeInv, LedVectors
<1>3. ASSUME NEW id \in Leds
      PROVE  LET last == LastFor(frame, id)
                 color == frame[last].color
                 others == Named(frame, id) \ {color}
             IN IF last = 0 THEN strip'[id] = Off
                ELSE IF Named(before, id) = {color} /\ others # {}
                  THEN \E other \in others : strip'[id] = Lit(other, FullScale)
                ELSE strip'[id] = Lit(color, FullScale)
  <2>1. strip'[id] = FadedInOut(id, 0, FullScale)
    BY RefreshedLed
  <2>2. \A color : Lit(color, 0) = Off
    BY DEF Lit
  <2>3. LastFor(frame, id) = 0 <=> Named(frame, id) = {}
    BY <1>2, LastColorIs
  <2>4. frame[LastFor(frame, id)].color = LastColor(frame, id)
    BY DEF LastColor
  <2>5. /\ Named(leds_out, id) = Named(before, id) \ Named(frame, id)
        /\ Named(leds_in, id) = {color \in Named(frame, id) : Named(before, id) # {color}}
        /\ Named(frame, id) # {} /\ Named(before, id) # {LastColor(frame, id)}
             => LastColor(leds_in, id) = LastColor(frame, id)
    BY DEF FadeLists
  <2>6. Named(leds_in, id) # {} => LastColor(leds_in, id) \in Named(leds_in, id)
    BY <1>2, LastColorIs
  <2>7. Named(frame, id) # {} => LastColor(frame, id) \in Named(frame, id)
    BY <1>2, LastColorIs
  <2>8. CASE Named(frame, id) = {}
    <3>1. Named(leds_in, id) = {} /\ Named(leds_out, id) = Named(before, id)
      BY <2>5, <2>8
    <3>2. strip'[id] = Off
      BY <2>1, <2>2, <3>1 DEF FadedInOut, Settled
    <3> QED BY <2>3, <2>8, <3>2
  <2>9. CASE Named(leds_in, id) # {}
    <3>1. strip'[id] = Lit(LastColor(leds_in, id), FullScale) /\ Named(frame, id) # {}
      BY <2>1, <2>5, <2>9 DEF FadedInOut
    <3>2. Named(before, id) = {LastColor(frame, id)} =>
            LastColor(leds_in, id) \in Named(frame, id) \ {LastColor(frame, id)}
      BY <2>5, <2>6, <2>9
    <3>3. Named(before, id) # {LastColor(frame, id)} => LastColor(leds_in, id) = LastColor(frame, id)
      BY <2>5, <3>1
    <3> QED BY <2>3, <2>4, <3>1, <3>2, <3>3
  <2>10. CASE Named(frame, id) # {} /\ Named(leds_in, id) = {}
    <3>1. Named(before, id) = {LastColor(frame, id)} /\ Named(leds_out, id) = {}
      BY <2>5, <2>7, <2>10
    <3>2. strip'[id] = Lit(LastColor(frame, id), FullScale)
      BY <2>1, <2>10, <3>1 DEF FadedInOut, Settled
    <3>3. Named(frame, id) \ {LastColor(frame, id)} = {}
      BY <2>5, <2>10, <3>1
    <3> QED BY <2>3, <2>4, <2>10, <3>2, <3>3
  <2> QED BY <2>8, <2>9, <2>10
<1> QED BY <1>1, <1>3 DEF FrameIsWritten

\* A frame that is shown is where the next cross-fade begins.
LEMMA ShownIsSettled ==
  ASSUME LedTypeInv, FrameIsWritten, NEW id \in Leds
  PROVE  Settled(frame, id)
<1>1. frame \in Seq(OnLeds)
  BY DEF LedTypeInv, LedVectors
<1>2. /\ LastFor(frame, id) = 0 <=> Named(frame, id) = {}
      /\ Named(frame, id) # {} => LastColor(frame, id) \in Named(frame, id)
  BY <1>1, LastColorIs
<1> QED BY <1>2 DEF FrameIsWritten, Settled, LastColor

\* The same of what no list names.
LEMMA ShownIsBefore ==
  ASSUME LedTypeInv, FadeLists, FrameIsWritten, NEW id \in Leds,
         Named(leds_in, id) = {}, Named(leds_out, id) = {}
  PROVE  Settled(before, id)
<1>1. /\ Named(before, id) \subseteq Named(frame, id)
      /\ \A color \in Named(frame, id) : Named(before, id) = {color}
  BY DEF FadeLists
<1>2. Settled(frame, id)
  BY ShownIsSettled
<1> QED BY <1>1, <1>2 DEF Settled

\* A cross-fade begins where the picture stood.
LEMMA FadeBegins ==
  ASSUME LedInv, AfterTest, ~is_transitioning, NEW id \in Leds
  PROVE  IF Named(leds_active, id) = {} THEN StatusCleared[id] = Off
         ELSE \E color \in Named(leds_active, id) : StatusCleared[id] = Lit(color, FullScale)
<1>1. display.picture \in {"dark", "kLive"} \cup Abstract!StatusColors
  BY DEF LedInv, PictureInv, AfterTest
<1>2. Named(<<>>, id) = {}
  BY DEF Named, ToSet
<1>3. CASE display.picture = "dark"
  <2>1. leds_active = <<>>
    BY <1>3 DEF LedInv, PictureInv
  <2>2. strip = AllOff
    BY <1>3 DEF LedInv, PictureIsWritten
  <2> QED BY <1>2, <2>1, <2>2 DEF StatusCleared, AllOff
<1>4. CASE display.picture \in Abstract!StatusColors
  <2>1. leds_active = <<>> /\ status_led_color # "kBlack"
    BY <1>4 DEF LedInv, PictureInv, Abstract!StatusColors
  <2>2. strip = StatusPicture(display.picture)
    BY <1>4 DEF LedInv, PictureIsWritten
  <2> QED BY <1>2, <2>1, <2>2 DEF StatusCleared, StatusPicture
<1>5. CASE display.picture = "kLive"
  <2>1. leds_active = frame /\ StatusCleared = strip
    BY <1>5 DEF LedInv, PictureInv, StatusCleared
  <2>2. FrameIsWritten
    BY <1>5 DEF LedInv, PictureIsWritten, Abstract!ReaderModes
  <2>3. Settled(frame, id)
    BY <2>2, ShownIsSettled DEF LedInv
  <2> QED BY <2>1, <2>3 DEF Settled
<1> QED BY <1>1, <1>3, <1>4, <1>5

\* A refresh takes a LED one step further.
LEMMA FadeGoesOn ==
  ASSUME LedTypeInv, FadeLists, RefreshTransition, NEW id \in Leds,
         FadedTo(transition_cnt, id), transition_cnt + 1 < TransitionTicks
  PROVE  FadedTo(transition_cnt, id)'
<1>1. PICK n \in Nat : n = transition_cnt + 1
  BY LedManagerAssumption DEF LedTypeInv
<1>2. n # 0 /\ transition_cnt < n /\ transition_cnt \in Nat /\ transition_cnt' = n
  BY <1>1, LedManagerAssumption DEF LedTypeInv, RefreshTransition
<1>3. leds_in \in Seq(OnLeds) /\ leds_out \in Seq(OnLeds) /\ leds_swap \in Seq(OnLeds)
  BY DEF LedTypeInv, LedVectors
<1>4. /\ Named(leds_swap, id) # {} => LastColor(leds_swap, id) \in Named(leds_swap, id)
      /\ Named(leds_out, id) # {} => LastColor(leds_out, id) \in Named(leds_out, id)
  BY <1>3, LastColorIs
<1>5. /\ n < Half => strip'[id] = IF Named(leds_swap, id) = {} THEN strip[id]
                                  ELSE Lit(LastColor(leds_swap, id), SwapScaling(n))
      /\ n >= Half => strip'[id] = FadedInOut(id, FullScale - InScaling(n), InScaling(n))
  BY <1>1, RefreshedLed
<1>6. Named(leds_swap, id) # {} => Named(leds_in, id) # {}
  BY DEF FadeLists
<1>7. /\ leds_in' = leds_in /\ leds_out' = leds_out /\ leds_swap' = leds_swap /\ before' = before
  BY DEF RefreshTransition, lists
<1>8. FadedTo(transition_cnt, id)' <=>
        IF n < Half /\ Named(leds_swap, id) = {} THEN Settled(before, id)'
        ELSE IF n < Half
          THEN \E color \in Named(leds_swap, id) : strip'[id] = Lit(color, SwapScaling(n))
        ELSE IF Named(leds_in, id) # {} THEN strip'[id] = Lit(LastColor(leds_in, id), InScaling(n))
        ELSE IF Named(leds_out, id) # {}
          THEN \E color \in Named(leds_out, id) : strip'[id] = Lit(color, FullScale - InScaling(n))
        ELSE Settled(before, id)'
  BY <1>2, <1>7 DEF FadedTo
<1>9. ASSUME Settled(before, id), strip'[id] = strip[id] PROVE Settled(before, id)'
  BY <1>7, <1>9 DEF Settled
<1>10. CASE n < Half /\ Named(leds_swap, id) = {}
  <2>1. transition_cnt < Half
    BY <1>2, <1>10, HalfIs
  <2>2. Settled(before, id) /\ strip'[id] = strip[id]
    BY <1>5, <1>10, <2>1 DEF FadedTo
  <2> QED BY <1>8, <1>9, <1>10, <2>2
<1>11. CASE n < Half /\ Named(leds_swap, id) # {}
  BY <1>4, <1>5, <1>8, <1>11
<1>12. CASE n >= Half /\ Named(leds_in, id) # {}
  <2>1. ~(n < Half)
    BY <1>12, HalfIs
  <2> QED BY <1>5, <1>8, <1>12, <2>1 DEF FadedInOut
<1>13. CASE n >= Half /\ Named(leds_in, id) = {} /\ Named(leds_out, id) # {}
  <2>1. ~(n < Half)
    BY <1>13, HalfIs
  <2> QED BY <1>4, <1>5, <1>8, <1>13, <2>1 DEF FadedInOut
<1>14. CASE n >= Half /\ Named(leds_in, id) = {} /\ Named(leds_out, id) = {}
  <2>1. ~(n < Half)
    BY <1>14, HalfIs
  <2>2. Settled(before, id)
    BY <1>6, <1>14 DEF FadedTo
  <2>3. strip'[id] = strip[id]
    BY <1>5, <1>14 DEF FadedInOut
  <2> QED BY <1>8, <1>9, <1>14, <2>1, <2>2, <2>3
<1> QED BY <1>10, <1>11, <1>12, <1>13, <1>14, HalfIs

\* What no list names is in the middle of a cross-fade as it was before.
LEMMA FadedIsBefore ==
  ASSUME FadeLists, NEW n, NEW id \in Leds, FadedTo(n, id),
         Named(leds_in, id) = {}, Named(leds_out, id) = {}
  PROVE  Settled(before, id)
BY DEF FadeLists, FadedTo

\* Without lists nothing is drawn.
LEMMA RefreshOfStill ==
  ASSUME LedTypeInv, RefreshTransition, leds_in = <<>>, leds_out = <<>>, leds_swap = <<>>
  PROVE  strip' = strip
<1>1. \A id \in Leds : Named(<<>>, id) = {}
  BY DEF Named, ToSet
<1>2. \A id \in Leds : strip'[id] = strip[id]
  <2> TAKE id \in Leds
  <2>1. PICK n \in Nat :
        /\ n < TransitionTicks /\ n < Half =>
             strip'[id] = IF Named(leds_swap, id) = {} THEN strip[id]
                          ELSE Lit(LastColor(leds_swap, id), SwapScaling(n))
        /\ n < TransitionTicks /\ n >= Half =>
             strip'[id] = FadedInOut(id, FullScale - InScaling(n), InScaling(n))
        /\ n >= TransitionTicks => strip'[id] = FadedInOut(id, 0, FullScale)
    BY RefreshedLed
  <2>2. \A scaling_out, scaling_in : FadedInOut(id, scaling_out, scaling_in) = strip[id]
    BY <1>1 DEF FadedInOut
  <2>3. (n < TransitionTicks /\ n < Half) \/ (n < TransitionTicks /\ n >= Half) \/ n >= TransitionTicks
    BY HalfIs, LedManagerAssumption
  <2> QED BY <1>1, <2>1, <2>2, <2>3
<1>3. strip \in [Leds -> LitLeds \cup {Off}] /\ DOMAIN strip' = Leds
  BY LedManagerAssumption
     DEF LedTypeInv, Pictures, RefreshTransition, FadeLedsInOut, FadeOutLedsToSwap, Draw
<1>4. strip' = [id \in Leds |-> strip'[id]] /\ strip = [id \in Leds |-> strip[id]]
  BY <1>3 DEF RefreshTransition, FadeLedsInOut, FadeOutLedsToSwap, Draw
<1> QED BY <1>2, <1>4

LEMMA LedInitially == Init => LedInv
<1> SUFFICES ASSUME Init PROVE LedInv
  OBVIOUS
<1>1. LedTypeInv
  BY LedTypeInitially
<1>2. display.picture = "dark" /\ is_transitioning = FALSE /\ strip = AllOff
  BY DEF Init, Abstract!DarkDisplay, Abstract!Still
<1>3. PictureInv
  BY <1>2 DEF Init, PictureInv, Abstract!StatusColors
<1>4. PictureIsWritten
  BY <1>2 DEF PictureIsWritten, Abstract!StatusColors, Abstract!ReaderModes
<1>5. LatchInv
  BY DEF Init, LatchInv
<1> QED BY <1>1, <1>2, <1>3, <1>4, <1>5 DEF LedInv, FadeInv, EndInv

LEMMA LedPreserved == LedInv /\ [PatientNext]_ledVars => LedInv'
<1> SUFFICES ASSUME LedInv, [PatientNext]_ledVars PROVE LedInv'
  OBVIOUS
<1> USE DEF Abstract!StatusColors, Abstract!ReaderModes
<1>t. LedTypeInv'
  <2>1. [PatientNext]_ledVars => [AnyNext]_ledVars
    BY DEF PatientNext, AnyNext
  <2> QED BY <2>1, LedTypePreserved DEF LedInv
<1>i. /\ LedTypeInv /\ PictureInv /\ FadeInv /\ EndInv /\ PictureIsWritten /\ LatchInv
      /\ display.is_transitioning = is_transitioning /\ display \in Abstract!Displays
  BY DEF LedInv, LedTypeInv
<1>1. CASE ClearAllLeds
  <2>1. display'.picture = "dark" /\ is_transitioning' = FALSE /\ strip' = AllOff
    BY <1>1 DEF ClearAllLeds, Forget, Abstract!ClearAllLeds, Abstract!DarkDisplay, Abstract!Still
  <2>2. PictureInv'
    BY <1>1, <2>1 DEF ClearAllLeds, Forget, PictureInv
  <2>3. PictureIsWritten'
    BY <2>1 DEF PictureIsWritten
  <2>4. LatchInv'
    BY <1>1 DEF ClearAllLeds, Show, LatchInv
  <2> QED BY <1>t, <2>1, <2>2, <2>3, <2>4 DEF LedInv, FadeInv, EndInv
<1>2. ASSUME NEW color \in Abstract!StatusColors, SetStatusLed(color)
      PROVE  LedInv'
  <2>1. CASE is_transitioning
    <3>1. UNCHANGED ledVars
      BY <1>i, <1>2, <2>1 DEF SetStatusLed, Abstract!SetStatusLed, ledVars, lists
    <3> QED BY <3>1, <1>t, <1>i
            DEF ledVars, lists, LedInv, PictureInv, FadeLists, FadeInv, FadedTo, Settled, EndInv,
                PictureIsWritten, FrameIsWritten, LatchInv
  <2>2. CASE ~is_transitioning
    <3>1. display'.picture = color /\ Forget /\ strip' = StatusPicture(color) /\ status_led_color' = color
      BY <1>i, <1>2, <2>2 DEF SetStatusLed, Abstract!SetStatusLed, Abstract!Still
    <3>2. PictureInv'
      BY <3>1 DEF Forget, PictureInv
    <3>3. PictureIsWritten'
      BY <3>1 DEF PictureIsWritten
    <3>4. is_transitioning' = FALSE
      BY <3>1 DEF Forget
    <3>5. LatchInv'
      BY <1>2, <2>2 DEF SetStatusLed, Show, LatchInv
    <3> QED BY <1>t, <3>1, <3>2, <3>3, <3>4, <3>5 DEF LedInv, FadeInv, EndInv
  <2> QED BY <2>1, <2>2
<1>3. CASE SetTestLeds
  <2>1. CASE is_transitioning
    <3>1. UNCHANGED ledVars
      BY <1>i, <1>3, <2>1 DEF SetTestLeds, Abstract!SetTestLeds, ledVars, lists
    <3> QED BY <3>1, <1>t, <1>i
            DEF ledVars, lists, LedInv, PictureInv, FadeLists, FadeInv, FadedTo, Settled, EndInv,
                PictureIsWritten, FrameIsWritten, LatchInv
  <2>2. CASE ~is_transitioning
    <3>1. display'.picture = "test" /\ is_transitioning' = is_transitioning
      BY <1>i, <1>3, <2>2 DEF SetTestLeds, Abstract!SetTestLeds, Abstract!Displays
    <3>2. PictureInv'
      BY <2>2, <3>1 DEF PictureInv
    <3>3. PictureIsWritten'
      BY <3>1 DEF PictureIsWritten
    <3> QED BY <1>t, <2>2, <3>1, <3>2, <3>3 DEF LedInv, FadeInv, EndInv, LatchInv
  <2> QED BY <2>1, <2>2
<1>4. CASE AfterTest /\ RefreshTransition
  <2>1. PICK n \in Nat : n = transition_cnt + 1
    BY <1>i, LedManagerAssumption DEF LedTypeInv
  <2>2. /\ leds_active' = leds_active /\ leds_in' = leds_in /\ leds_out' = leds_out
        /\ leds_swap' = leds_swap /\ status_led_color' = status_led_color
        /\ frame' = frame /\ before' = before
        /\ transition_cnt' = (IF n >= TransitionTicks THEN TransitionTicks ELSE n)
        /\ is_transitioning' = (is_transitioning /\ n < TransitionTicks)
        /\ display'.picture = display.picture
    BY <1>4, <2>1 DEF RefreshTransition, lists, Abstract!RefreshTransition
  <2>3. FadeLists' <=> FadeLists
    BY <2>2 DEF FadeLists
  <2>4. PictureInv'
    <3>1. (display'.picture = "kLive") => leds_active' = frame' /\ FadeLists' /\ status_led_color' = "kBlack"
      <4> SUFFICES ASSUME display'.picture = "kLive"
                   PROVE  leds_active' = frame' /\ FadeLists' /\ status_led_color' = "kBlack"
        OBVIOUS
      <4>1. display.picture = "kLive"
        BY <2>2
      <4>2. leds_active = frame /\ FadeLists /\ status_led_color = "kBlack"
        BY <1>i, <4>1 DEF PictureInv
      <4> QED BY <2>2, <2>3, <4>2
    <3>2. is_transitioning' => display'.picture = "kLive"
      BY <1>i, <2>2 DEF PictureInv
    <3> QED BY <1>i, <2>2, <3>1, <3>2 DEF PictureInv
  <2>5. FadeInv'
    <3> SUFFICES ASSUME is_transitioning' 
                 PROVE  transition_cnt' < TransitionTicks /\ \A id \in Leds : FadedTo(transition_cnt, id)'
      BY DEF FadeInv
    <3>1. is_transitioning /\ n < TransitionTicks /\ FadeLists
      BY <1>i, <2>2 DEF PictureInv
    <3>2. transition_cnt' < TransitionTicks
      BY <2>2, <3>1, LedManagerAssumption
    <3>3. \A id \in Leds : FadedTo(transition_cnt, id)
      BY <1>i, <3>1 DEF FadeInv
    <3> QED BY <1>i, <1>4, <2>1, <3>1, <3>2, <3>3, FadeGoesOn
  <2>6. EndInv'
    <3> SUFFICES ASSUME ~is_transitioning', display.picture = "kLive" PROVE n >= TransitionTicks
      BY <2>2 DEF EndInv
    <3>1. CASE is_transitioning
      <4>1. is_transitioning' = (n < TransitionTicks)
        BY <2>2, <3>1
      <4>2. ~(n < TransitionTicks)
        BY <4>1
      <4> QED BY <4>2, LedManagerAssumption
    <3>2. CASE ~is_transitioning
      BY <1>i, <2>1, <3>2, LedManagerAssumption DEF EndInv
    <3> QED BY <3>1, <3>2
  <2>7. PictureIsWritten'
    <3> SUFFICES ASSUME ~is_transitioning' PROVE PictureIsWritten'
      BY DEF PictureIsWritten
    <3>1. CASE display.picture = "kLive"
      <4>1. n >= TransitionTicks /\ FadeLists
        <5>1. transition_cnt' = TransitionTicks
          BY <2>2, <2>6, <3>1 DEF EndInv
        <5>2. n >= TransitionTicks
          BY <2>2, <5>1, LedManagerAssumption
        <5> QED BY <1>i, <3>1, <5>2 DEF PictureInv
      <4>2. ASSUME NEW id \in Leds, Named(leds_in, id) = {}, Named(leds_out, id) = {}
            PROVE  Settled(before, id)
        <5>1. CASE is_transitioning
          <6>1. FadedTo(transition_cnt, id)
            BY <1>i, <5>1 DEF FadeInv
          <6> QED BY <4>1, <4>2, <6>1, FadedIsBefore
        <5>2. CASE ~is_transitioning
          <6>1. FrameIsWritten
            BY <1>i, <3>1, <5>2 DEF PictureIsWritten
          <6> QED BY <1>i, <4>1, <4>2, <6>1, ShownIsBefore
        <5> QED BY <5>1, <5>2
      <4>3. FrameIsWritten'
        BY <1>i, <1>4, <2>1, <4>1, <4>2, EndShowsFrame
      <4> QED BY <2>2, <3>1, <4>3 DEF PictureIsWritten
    <3>2. CASE display.picture # "kLive"
      <4>1. ~is_transitioning /\ display.picture \in {"dark"} \cup Abstract!StatusColors
        BY <1>i, <1>4, <3>2 DEF PictureInv, AfterTest
      <4>2. leds_in = <<>> /\ leds_out = <<>> /\ leds_swap = <<>>
        BY <1>i, <4>1 DEF PictureInv
      <4>3. strip' = strip
        BY <1>i, <1>4, <4>2, RefreshOfStill
      <4> QED BY <1>i, <2>2, <4>1, <4>3 DEF PictureIsWritten
    <3> QED BY <3>1, <3>2
  <2>8. LatchInv'
    BY <1>4 DEF RefreshTransition, Show, LatchInv
  <2> QED BY <1>t, <2>4, <2>5, <2>6, <2>7, <2>8 DEF LedInv
<1>5. ASSUME NEW leds \in Frames, AfterTest, ~is_transitioning, SetLeds(leds)
      PROVE  LedInv'
  <2>1. /\ display'.picture = "kLive" /\ is_transitioning' = TRUE /\ transition_cnt' = 0
        /\ leds_active' = frame' /\ status_led_color' = "kBlack"
        /\ strip' = StatusCleared /\ before' = leds_active
    BY <1>5 DEF SetLeds, Abstract!SetLeds
  <2>2. FadeLists'
    BY <1>i, <1>5, SetLedsLists
  <2>3. PictureInv'
    BY <2>1, <2>2 DEF PictureInv
  <2>4. FadeInv'
    <3>1. ASSUME NEW id \in Leds PROVE FadedTo(transition_cnt, id)'
      <4>1. IF Named(leds_active, id) = {} THEN StatusCleared[id] = Off
            ELSE \E color \in Named(leds_active, id) : StatusCleared[id] = Lit(color, FullScale)
        BY <1>5, FadeBegins
      <4>2. Settled(before, id)'
        BY <2>1, <4>1 DEF Settled
      <4> QED BY <2>1, <4>2 DEF FadedTo
    <3>2. transition_cnt' < TransitionTicks
      BY <2>1, LedManagerAssumption
    <3> QED BY <3>1, <3>2 DEF FadeInv
  <2>5. LatchInv'
    <3>1. latched' = latched /\ latched = strip
      BY <1>5, <1>i DEF SetLeds, LatchInv, AfterTest
    <3>2. CASE display.picture = "kLive"
      <4>1. StatusCleared = strip
        BY <1>i, <3>2 DEF PictureInv, StatusCleared
      <4> QED BY <2>1, <3>1, <4>1 DEF LatchInv
    <3>3. CASE display.picture # "kLive"
      <4>1. leds_active = <<>>
        BY <1>5, <1>i, <3>3 DEF PictureInv, AfterTest
      <4> QED BY <2>1, <4>1 DEF LatchInv
    <3> QED BY <3>2, <3>3
  <2> QED BY <1>t, <2>1, <2>3, <2>4, <2>5 DEF LedInv, EndInv, PictureIsWritten
<1>6. CASE SetBrightness
  <2>1. UNCHANGED <<strip, leds_active, lists, transition_cnt, is_transitioning,
                    status_led_color, display, frame, before>> /\ LatchInv'
    BY <1>6 DEF SetBrightness, LatchInv
  <2> QED BY <2>1, <1>t, <1>i
     DEF lists, LedInv, PictureInv, FadeLists, FadeInv, FadedTo, Settled, EndInv,
         PictureIsWritten, FrameIsWritten
<1>7. CASE UNCHANGED ledVars
  BY <1>7, <1>t, <1>i
     DEF ledVars, lists, LedInv, PictureInv, FadeLists, FadeInv, FadedTo, Settled, EndInv,
         PictureIsWritten, FrameIsWritten, LatchInv
<1> QED BY <1>1, <1>2, <1>3, <1>4, <1>5, <1>6, <1>7 DEF PatientNext, Others

\* When no cross-fade runs every LED shows what Firmware takes it to show: a status, the
\* colour that the frame names last, with the exception that FrameIsShown names, or
\* nothing.  The three lists are computed from what is thought to be on and drawn over
\* what is.  A frame comes when the cross-fade before it has ended.
THEOREM LedsShowPicture == PatientSpec => []ShowsPicture
<1>1. PatientSpec => []LedInv
  BY LedInitially, LedPreserved, PTL DEF PatientSpec
<1>2. LedInv => ShowsPicture
  <2> SUFFICES ASSUME LedInv, ~is_transitioning, display.picture # "test"
               PROVE  ShowsPicture
    BY DEF ShowsPicture, Abstract!StatusColors, Abstract!ReaderModes
  <2>1. latched = strip /\ PictureIsWritten
    BY DEF LedInv, LatchInv
  <2>2. FrameIsWritten => FrameIsShown
    BY <2>1 DEF FrameIsWritten, FrameIsShown
  <2> QED BY <2>1, <2>2 DEF PictureIsWritten, ShowsPicture
<1> QED BY <1>1, <1>2, PTL

\* A LED that keeps its one colour from one frame to the next is lit at every refresh
\* in between: it is in none of the three lists.
THEOREM LedsStayLit == PatientSpec => []UnchangedStayLit
<1>1. PatientSpec => []LedInv
  BY LedInitially, LedPreserved, PTL DEF PatientSpec
<1>2. LedInv => UnchangedStayLit
  <2> SUFFICES ASSUME LedInv, NEW led \in ToSet(frame), is_transitioning,
                      Named(before, led.id) = {led.color}, Named(frame, led.id) = {led.color}
               PROVE  latched[led.id] = Lit(led.color, FullScale)
    BY DEF UnchangedStayLit
  <2>1. FadeLists /\ FadedTo(transition_cnt, led.id) /\ led.id \in Leds
    <3>1. led \in OnLeds
      BY EntryNames DEF LedInv, LedTypeInv, LedVectors
    <3>2. led.id \in Leds
      BY <3>1 DEF OnLeds
    <3>3. FadeLists
      BY DEF LedInv, PictureInv
    <3> QED BY <3>2, <3>3 DEF LedInv, FadeInv
  <2>2. Named(leds_in, led.id) = {} /\ Named(leds_out, led.id) = {}
    BY <2>1 DEF FadeLists
  <2>3. Settled(before, led.id)
    BY <2>1, <2>2, FadedIsBefore
  <2>4. latched = strip
    <3>1. before # <<>> /\ display.picture # "test"
      BY DEF Named, ToSet, LedInv, PictureInv
    <3> QED BY <3>1 DEF LedInv, LatchInv
  <2> QED BY <2>3, <2>4 DEF Settled
<1> QED BY <1>1, <1>2, PTL

-----------------------------------------------------------------------------
(* No flicker.                                                             *)

\* What fades out gets darker, what fades in brighter, and the frame's colour begins
\* where the other ended.
LEMMA SwapScalingFalls ==
  ASSUME NEW n \in Nat, NEW m \in Nat, n <= m, m < Half
  PROVE  SwapScaling(m) <= SwapScaling(n)
<1> DEFINE a == 2 * n * FullScale
           b == 2 * m * FullScale
<1>1. a \in Nat /\ b \in Nat /\ a <= b /\ TransitionTicks \in Nat \ {0}
  BY LedManagerAssumption DEF FullScale
<1>2. SwapScaling(n) = FullScale - a \div TransitionTicks /\ SwapScaling(m) = FullScale - b \div TransitionTicks
  BY DEF SwapScaling
<1> HIDE DEF a, b
<1>3. a \div TransitionTicks <= b \div TransitionTicks
  BY <1>1, DivisionKeepsOrder
<1>4. a \div TransitionTicks \in Nat /\ b \div TransitionTicks \in Nat
  BY <1>1, DivisionLeaves
<1> QED BY <1>2, <1>3, <1>4 DEF FullScale

LEMMA InScalingRises ==
  ASSUME NEW n \in Nat, NEW m \in Nat, n <= m, n >= Half, Half >= 1
  PROVE  InScaling(n) <= InScaling(m) /\ InScaling(Half) = 0
<1> DEFINE a == FullScale * (n - Half)
           b == FullScale * (m - Half)
<1>1. a \in Nat /\ b \in Nat /\ a <= b /\ Half \in Nat \ {0}
  BY HalfIs DEF FullScale
<1>2. InScaling(n) = a \div Half /\ InScaling(m) = b \div Half
  BY DEF InScaling
<1>3. InScaling(Half) = 0
  <2>1. FullScale * (Half - Half) = 0 /\ 0 \div Half = 0
    BY <1>1 DEF FullScale
  <2> QED BY <2>1 DEF InScaling
<1> HIDE DEF a, b
<1> QED BY <1>1, <1>2, <1>3, DivisionKeepsOrder

\* The ways towards a frame.
LEMMA Ways ==
  ASSUME NEW new, NEW color, NEW one \in 0..FullScale, NEW other \in 0..FullScale, one <= other
  PROVE  /\ color \in new => Towards(new, Lit(color, one), Lit(color, other))
         /\ color \notin new => Towards(new, Lit(color, other), Lit(color, one))
         /\ color \in new => Towards(new, Off, Lit(color, one))
         /\ color \notin new => Towards(new, Lit(color, one), Off)
<1> USE DEF Towards, Lit, Off, FullScale
<1>1. color \in new => Towards(new, Lit(color, one), Lit(color, other))
  OBVIOUS
<1>2. color \notin new => Towards(new, Lit(color, other), Lit(color, one))
  OBVIOUS
<1>3. color \in new => Towards(new, Off, Lit(color, one))
  OBVIOUS
<1>4. color \notin new => Towards(new, Lit(color, one), Off)
  OBVIOUS
<1> QED BY <1>1, <1>2, <1>3, <1>4

\* One refresh of a LED that both frames name in one colour at most.
LEMMA RefreshGoesTowards ==
  ASSUME LedInv, TransitionTicks >= 2, is_transitioning, RefreshTransition, NEW id \in Leds,
         \A one, other \in Named(before, id) : one = other,
         \A one, other \in Named(frame, id) : one = other
  PROVE  Towards(Named(frame, id), strip[id], strip'[id])
<1> DEFINE new == Named(frame, id)
           old == Named(before, id)
           was == strip[id]
           is == strip'[id]
<1>1. PICK m \in Nat : m = transition_cnt /\ m < TransitionTicks
  BY LedManagerAssumption DEF LedInv, LedTypeInv, FadeInv
<1>2. PICK n \in Nat : n = m + 1
  OBVIOUS
<1>3. FadedTo(m, id) /\ FadeLists
  BY <1>1 DEF LedInv, FadeInv, PictureInv
<1>4. /\ n < TransitionTicks /\ n < Half =>
           is = IF Named(leds_swap, id) = {} THEN was ELSE Lit(LastColor(leds_swap, id), SwapScaling(n))
      /\ n < TransitionTicks /\ n >= Half =>
           is = FadedInOut(id, FullScale - InScaling(n), InScaling(n))
      /\ n >= TransitionTicks => is = FadedInOut(id, 0, FullScale)
  BY <1>1, <1>2, RefreshedLed DEF LedInv
<1>5. /\ Named(leds_out, id) = old \ new
      /\ Named(leds_in, id) = {color \in new : old # {color}}
      /\ Named(leds_swap, id) \subseteq old
      /\ Named(leds_swap, id) # {} <=> \E color \in new : old \ {color} # {}
  BY <1>3 DEF FadeLists
<1>6. /\ Named(leds_swap, id) # {} => LastColor(leds_swap, id) \in Named(leds_swap, id)
      /\ Named(leds_out, id) # {} => LastColor(leds_out, id) \in Named(leds_out, id)
      /\ Named(leds_in, id) # {} => LastColor(leds_in, id) \in Named(leds_in, id)
  BY LastColorIs DEF LedInv, LedTypeInv, LedVectors
<1>7. /\ new = {} \/ \E color \in new : new = {color}
      /\ old = {} \/ \E color \in old : old = {color}
  OBVIOUS
<1>8. /\ Half \in Nat /\ Half >= 1 /\ Half < TransitionTicks /\ TransitionTicks \in Nat
      /\ m < Half => n <= Half /\ n < TransitionTicks
  BY <1>1, <1>2, HalfIs, LedManagerAssumption
<1>9. PICK scaling \in 0..FullScale :
        /\ n < TransitionTicks /\ n >= Half => scaling = InScaling(n)
        /\ n >= TransitionTicks => scaling = FullScale
  <2>1. n < TransitionTicks /\ n >= Half => InScaling(n) \in 0..FullScale
    BY InScalingIs
  <2>2. FullScale \in 0..FullScale /\ (n >= TransitionTicks => ~(n < TransitionTicks))
    BY <1>8 DEF FullScale
  <2> QED BY <2>1, <2>2
<1>10. n >= Half => is = FadedInOut(id, FullScale - scaling, scaling)
  <2>1. n < TransitionTicks \/ n >= TransitionTicks
    BY <1>8
  <2>2. FullScale - FullScale = 0
    BY DEF FullScale
  <2> QED BY <1>4, <1>9, <2>1, <2>2
<1>11. m >= Half => InScaling(m) \in 0..FullScale /\ InScaling(m) <= scaling
  <2> SUFFICES ASSUME m >= Half PROVE InScaling(m) \in 0..FullScale /\ InScaling(m) <= scaling
    OBVIOUS
  <2>1. InScaling(m) \in 0..FullScale
    BY <1>1, InScalingIs
  <2>2. n >= Half /\ m <= n
    BY <1>2, <1>8
  <2>3. InScaling(m) <= InScaling(n)
    BY <1>8, <2>2, InScalingRises
  <2>4. CASE n < TransitionTicks
    BY <1>9, <2>1, <2>2, <2>3, <2>4
  <2>5. CASE n >= TransitionTicks
    BY <1>9, <2>1, <2>5 DEF FullScale
  <2> QED BY <1>8, <2>1, <2>4, <2>5
<1>12. m < Half /\ n >= Half => scaling = 0
  <2> SUFFICES ASSUME m < Half, n >= Half PROVE scaling = 0
    OBVIOUS
  <2>1. n = Half /\ n < TransitionTicks
    BY <1>8
  <2>2. InScaling(Half) = 0
    BY <1>8, HalfIs, InScalingRises
  <2> QED BY <1>9, <2>1, <2>2
<1> HIDE DEF new, old, was, is
<1>13. CASE Named(leds_in, id) = {} /\ Named(leds_out, id) = {}
  <2>1. Named(leds_swap, id) = {}
    BY <1>5, <1>13
  <2>2. is = was
    BY <1>4, <1>8, <1>10, <1>13, <2>1, HalfIs DEF FadedInOut, was
  <2> QED BY <2>2 DEF Towards, new, was, is
<1>14. CASE Named(leds_in, id) # {}
  <2>1. PICK color \in new : new = {color} /\ Named(leds_in, id) = {color} /\ old # {color}
    BY <1>5, <1>7, <1>14
  <2>2. LastColor(leds_in, id) = color
    BY <1>6, <2>1
  <2>3. n >= Half => is = Lit(color, scaling)
    BY <1>10, <2>1, <2>2 DEF FadedInOut
  <2>4. CASE m >= Half
    <3>1. ~(m = 0) /\ ~(m < Half) /\ n >= Half
      BY <1>2, <1>8, <2>4
    <3>2. was = Lit(color, InScaling(m))
      BY <1>3, <2>1, <2>2, <3>1 DEF FadedTo, was
    <3>3. Towards(new, was, is)
      BY <1>9, <1>11, <2>1, <2>3, <2>4, <3>1, <3>2, Ways
    <3> QED BY <3>3 DEF new, was, is
  <2>5. CASE m < Half /\ old = {}
    <3>1. Named(leds_swap, id) = {}
      BY <1>5, <2>5
    <3>2. was = Off
      BY <1>3, <2>5, <3>1 DEF FadedTo, Settled, was, old
    <3>3. CASE n < Half
      <4>1. is = was
        BY <1>4, <1>8, <2>5, <3>1, <3>3 DEF was, is
      <4> QED BY <4>1 DEF Towards, new, was, is
    <3>4. CASE n >= Half
      <4>1. Towards(new, was, is)
        BY <2>1, <2>3, <3>2, <3>4, Ways
      <4> QED BY <4>1 DEF new, was, is
    <3> QED BY <1>8, <3>3, <3>4
  <2>6. CASE m < Half /\ old # {}
    <3>1. PICK other \in old : old = {other} /\ other \notin new
      BY <1>7, <2>1, <2>6
    <3>2. Named(leds_swap, id) = {other}
      BY <1>5, <2>1, <3>1
    <3>3. LastColor(leds_swap, id) = other
      BY <1>6, <3>2
    <3>4. SwapScaling(m) \in 0..FullScale /\ FullScale \in 0..FullScale
      BY <2>6, SwapScalingIs DEF FullScale
    <3>5. PICK s \in 0..FullScale : was = Lit(other, s) /\ (s = FullScale \/ s = SwapScaling(m))
      <4>1. CASE m = 0
        <5>1. was = Lit(other, FullScale)
          BY <1>3, <3>1, <4>1 DEF FadedTo, Settled, was, old
        <5> QED BY <3>4, <5>1
      <4>2. CASE m # 0
        <5>1. was = Lit(other, SwapScaling(m))
          BY <1>3, <2>6, <3>2, <4>2 DEF FadedTo, was
        <5> QED BY <3>4, <5>1
      <4> QED BY <4>1, <4>2
    <3>6. CASE n < Half
      <4>1. SwapScaling(n) \in 0..FullScale /\ SwapScaling(n) <= SwapScaling(m)
        BY <1>2, <3>6, SwapScalingIs, SwapScalingFalls
      <4>2. SwapScaling(n) <= s
        BY <3>5, <4>1 DEF FullScale
      <4>3. is = Lit(other, SwapScaling(n))
        BY <1>4, <1>8, <2>6, <3>2, <3>3, <3>6 DEF is
      <4>4. Towards(new, was, is)
        BY <3>1, <3>5, <4>1, <4>2, <4>3, Ways
      <4> QED BY <4>4 DEF new, was, is
    <3>7. CASE n >= Half
      <4>1. is = Off
        BY <1>12, <2>3, <2>6, <3>7 DEF Lit
      <4>2. Towards(new, was, is)
        BY <3>1, <3>5, <4>1, Ways
      <4> QED BY <4>2 DEF new, was, is
    <3> QED BY <1>8, <3>6, <3>7
  <2> QED BY <1>8, <2>4, <2>5, <2>6
<1>15. CASE Named(leds_in, id) = {} /\ Named(leds_out, id) # {}
  <2>1. PICK color \in old : old = {color} /\ new = {}
    BY <1>5, <1>7, <1>15
  <2>2. Named(leds_swap, id) = {} /\ Named(leds_out, id) = {color}
    BY <1>5, <2>1
  <2>3. LastColor(leds_out, id) = color
    BY <1>6, <2>2
  <2>4. n >= Half => is = Lit(color, FullScale - scaling)
    BY <1>10, <1>15, <2>3 DEF FadedInOut
  <2>5. FullScale - scaling \in 0..FullScale
    BY DEF FullScale
  <2>6. CASE m >= Half
    <3>1. ~(m = 0) /\ ~(m < Half) /\ n >= Half
      BY <1>2, <1>8, <2>6
    <3>2. was = Lit(color, FullScale - InScaling(m))
      BY <1>3, <1>15, <2>2, <3>1 DEF FadedTo, was
    <3>3. PICK r \in 0..FullScale : r = InScaling(m) /\ r <= scaling
      BY <1>11, <2>6
    <3>4. FullScale - r \in 0..FullScale /\ FullScale - scaling <= FullScale - r
      BY <3>3 DEF FullScale
    <3>5. Towards(new, was, is)
      BY <2>1, <2>4, <2>5, <3>1, <3>2, <3>3, <3>4, Ways
    <3> QED BY <3>5 DEF new, was, is
  <2>7. CASE m < Half
    <3>1. was = Lit(color, FullScale)
      BY <1>3, <2>1, <2>2, <2>7 DEF FadedTo, Settled, was, old
    <3>2. CASE n < Half
      <4>1. is = was
        BY <1>4, <1>8, <2>2, <2>7, <3>2 DEF was, is
      <4> QED BY <4>1 DEF Towards, new, was, is
    <3>3. CASE n >= Half
      <4>1. FullScale - scaling <= FullScale /\ FullScale \in 0..FullScale
        BY DEF FullScale
      <4>2. Towards(new, was, is)
        BY <2>1, <2>4, <2>5, <3>1, <3>3, <4>1, Ways
      <4> QED BY <4>2 DEF new, was, is
    <3> QED BY <1>8, <3>2, <3>3
  <2> QED BY <1>8, <2>6, <2>7
<1> QED BY <1>13, <1>14, <1>15

\* No LED flickers: at each refresh it moves towards the new frame, the old colour
\* darker, the new one brighter, and dark in between, if each of the two frames names
\* it in one colour at most.  A cross-fade takes two refreshes at least: with one a LED
\* jumps from colour to colour.
THEOREM LedsDoNotFlicker ==
  ASSUME TransitionTicks >= 2
  PROVE  PatientSpec => NoFlicker
<1>1. PatientSpec => []LedInv
  BY LedInitially, LedPreserved, PTL DEF PatientSpec
<1> DEFINE Step == is_transitioning /\ RefreshTransition =>
             \A id \in Leds :
               (\A leds \in {before, frame} : \A one, other \in Named(leds, id) : one = other)
                 => Towards(Named(frame, id), strip[id], strip'[id])
<1>2. LedInv /\ [PatientNext]_ledVars => [Step]_ledVars
  <2> SUFFICES ASSUME LedInv, is_transitioning, RefreshTransition, NEW id \in Leds,
                      \A leds \in {before, frame} : \A one, other \in Named(leds, id) : one = other
               PROVE  Towards(Named(frame, id), strip[id], strip'[id])
    OBVIOUS
  <2> QED BY RefreshGoesTowards
<1> QED BY <1>1, <1>2, PTL DEF NoFlicker, PatientSpec

=============================================================================
