--------------------------- MODULE StreamBusProofs ---------------------------
(***************************************************************************)
(* Theorems about StreamBus, for every value of its constants: the slice   *)
(* of a session lists its open channels, and publishers that walk an array *)
(* without a lock deliver their own session's events, in order.  The       *)
(* inductive invariant is BusInv.                                          *)
(***************************************************************************)
EXTENDS StreamBus, SequenceTheorems, FiniteSetTheorems, TLAPS

(***************************************************************************)
(* Arrays: a sequence of cells of which the first len are the slice        *)
(***************************************************************************)
Arrays == {a \in [cells : Seq(Cell), len : Nat] : a.len <= Len(a.cells)}

\* The slice of an array holds the channels O, each once.
Listed(a, O) ==
  /\ \A i, j \in 1..a.len : a.cells[i] = a.cells[j] => i = j
  /\ \A i \in 1..a.len : a.cells[i] \in O
  /\ \A c \in O : \E i \in 1..a.len : a.cells[i] = c

OpenIn(s) == {c \in Subscribers : channel[c].state = "open" /\ channel[c].session = s}

LEMMA ArrayIs ==
  ASSUME NEW a \in Arrays
  PROVE  /\ a.cells \in Seq(Cell) /\ a.len \in Nat /\ Len(a.cells) \in Nat /\ a.len <= Len(a.cells)
         /\ DOMAIN a.cells = 1..Len(a.cells) /\ \A i \in 1..Len(a.cells) : a.cells[i] \in Cell
BY LenProperties DEF Arrays

LEMMA SliceIs ==
  ASSUME NEW a \in Arrays
  PROVE  /\ DOMAIN SubSeq(a.cells, 1, a.len) = 1..a.len
         /\ \A i \in 1..a.len : SubSeq(a.cells, 1, a.len)[i] = a.cells[i]
<1>1. /\ a.cells \in Seq(Cell) /\ a.len \in Nat /\ Len(a.cells) \in Nat /\ a.len <= Len(a.cells)
  BY ArrayIs
<1>2. CASE a.len = 0
  <2>1. SubSeq(a.cells, 1, a.len) = <<>>
    BY <1>1, <1>2, SubSeqEmpty
  <2> QED BY <1>2, <2>1
<1>3. CASE a.len # 0
  <2>1. 1 \in 1..Len(a.cells) + 1 /\ a.len \in 0..Len(a.cells) /\ a.len \in 1 - 1..Len(a.cells)
    BY <1>1, <1>3
  <2>2. /\ SubSeq(a.cells, 1, a.len) \in Seq(Cell)
        /\ Len(SubSeq(a.cells, 1, a.len)) = a.len
        /\ \A i \in 1..a.len : SubSeq(a.cells, 1, a.len)[i] = a.cells[i]
    BY <1>1, <2>1, SubSeqProperties
  <2> QED BY <2>2, LenProperties
<1> QED BY <1>2, <1>3

LEMMA ListedIs ==
  ASSUME NEW a \in Arrays, NEW O
  PROVE  Listed(a, O) <=> /\ IsInjective(SubSeq(a.cells, 1, a.len))
                          /\ Range(SubSeq(a.cells, 1, a.len)) = O
<1>1. /\ DOMAIN SubSeq(a.cells, 1, a.len) = 1..a.len
      /\ \A i \in 1..a.len : SubSeq(a.cells, 1, a.len)[i] = a.cells[i]
  BY SliceIs
<1>2. PICK f : f = SubSeq(a.cells, 1, a.len)
  OBVIOUS
<1>3. DOMAIN f = 1..a.len /\ \A i \in 1..a.len : f[i] = a.cells[i]
  BY <1>1, <1>2
<1>4. IsInjective(f) <=> \A i, j \in 1..a.len : a.cells[i] = a.cells[j] => i = j
  BY <1>3 DEF IsInjective
<1>5. Range(f) = {a.cells[i] : i \in 1..a.len}
  BY <1>3 DEF Range
<1>6. Range(f) = O <=> (\A i \in 1..a.len : a.cells[i] \in O) /\ (\A c \in O : \E i \in 1..a.len : a.cells[i] = c)
  BY <1>5
<1> QED BY <1>2, <1>4, <1>6 DEF Listed

\* The two arrays that append makes, and the one that unsub leaves.
Filled(a, c) == [cells |-> [a.cells EXCEPT ![a.len + 1] = c], len |-> a.len + 1]
Double(a) == IF a.len = 0 THEN 1 ELSE 2 * a.len
Grown(a, c) ==
  [cells |-> [i \in 1..Double(a) |-> IF i <= a.len THEN a.cells[i] ELSE IF i = a.len + 1 THEN c ELSE None],
   len   |-> a.len + 1]

\* A function on 1..n is an array's cells.
LEMMA CellsAre ==
  ASSUME NEW n \in Nat, NEW f \in [1..n -> Cell]
  PROVE  f \in Seq(Cell) /\ Len(f) = n
<1>1. f \in Seq(Cell) /\ DOMAIN f = 1..n
  BY SeqDef
<1>2. Len(f) \in Nat /\ DOMAIN f = 1..Len(f)
  BY <1>1, LenProperties
<1> QED BY ONLY <1>1, <1>2, n \in Nat

LEMMA FilledIs ==
  ASSUME NEW a \in Arrays, NEW c \in Subscribers, NEW O, c \notin O, Listed(a, O), a.len < Len(a.cells)
  PROVE  /\ Filled(a, c) \in Arrays /\ Listed(Filled(a, c), O \cup {c})
         /\ Len(Filled(a, c).cells) = Len(a.cells)
         /\ \A i \in 1..Len(a.cells) : Filled(a, c).cells[i] = IF i = a.len + 1 THEN c ELSE a.cells[i]
<1>1. /\ a.cells \in Seq(Cell) /\ a.len \in Nat /\ Len(a.cells) \in Nat
      /\ DOMAIN a.cells = 1..Len(a.cells) /\ \A i \in 1..Len(a.cells) : a.cells[i] \in Cell
  BY ArrayIs
<1> DEFINE f == [a.cells EXCEPT ![a.len + 1] = c]
           N == Len(a.cells)
<1>2. \A i \in 1..N : f[i] = IF i = a.len + 1 THEN c ELSE a.cells[i]
  BY <1>1
<1>3. DOMAIN f = 1..N
  BY <1>1
<1>4. f = [i \in 1..N |-> f[i]] /\ \A i \in 1..N : f[i] \in Cell
  BY <1>1, <1>2, <1>3 DEF Cell
<1> HIDE DEF f
<1>5. f \in [1..N -> Cell]
  BY <1>4
<1>6. f \in Seq(Cell) /\ Len(f) = N
  BY <1>1, <1>5, CellsAre
<1>7. Filled(a, c).cells = f /\ Filled(a, c).len = a.len + 1
  BY DEF Filled, f
<1>8. Filled(a, c) \in Arrays
  BY <1>1, <1>6, <1>7 DEF Arrays, Filled, f
<1>9. Listed(Filled(a, c), O \cup {c})
  <2>1. \A i \in 1..a.len + 1 : i \in 1..N /\ (i = a.len + 1 \/ i \in 1..a.len)
    BY <1>1
  <2>2. \A i \in 1..a.len : i # a.len + 1 /\ i \in 1..a.len + 1 /\ f[i] = a.cells[i] /\ a.cells[i] # c
    BY <1>1, <1>2, SMTT(30) DEF Listed
  <2>3. f[a.len + 1] = c /\ a.len + 1 \in 1..a.len + 1
    BY <1>1, <1>2
  <2> QED BY <1>7, <2>1, <2>2, <2>3 DEF Listed
<1> QED BY <1>2, <1>6, <1>7, <1>8, <1>9

LEMMA GrownIs ==
  ASSUME NEW a \in Arrays, NEW c \in Subscribers, NEW O, c \notin O, Listed(a, O)
  PROVE  /\ Grown(a, c) \in Arrays /\ Listed(Grown(a, c), O \cup {c})
         /\ \A i \in 1..Len(Grown(a, c).cells) :
              Grown(a, c).cells[i] \in {None, c} \/ (i \in 1..a.len /\ Grown(a, c).cells[i] = a.cells[i])
<1>1. /\ a.cells \in Seq(Cell) /\ a.len \in Nat /\ Len(a.cells) \in Nat /\ a.len <= Len(a.cells)
      /\ DOMAIN a.cells = 1..Len(a.cells) /\ \A i \in 1..Len(a.cells) : a.cells[i] \in Cell
  BY ArrayIs
<1>2. PICK n \in Nat : n = Double(a) /\ a.len + 1 <= n
  BY <1>1 DEF Double
<1> DEFINE f == [i \in 1..n |-> IF i <= a.len THEN a.cells[i] ELSE IF i = a.len + 1 THEN c ELSE None]
<1>3. \A i \in 1..n : /\ i <= a.len => i \in 1..a.len /\ i \in 1..Len(a.cells) /\ f[i] = a.cells[i]
                      /\ i = a.len + 1 => f[i] = c
                      /\ i > a.len + 1 => f[i] = None
  BY <1>1
<1>4. \A i \in 1..n : f[i] \in Cell /\ (f[i] \in {None, c} \/ (i \in 1..a.len /\ f[i] = a.cells[i]))
  <2> SUFFICES ASSUME NEW i \in 1..n
               PROVE  f[i] \in Cell /\ (f[i] \in {None, c} \/ (i \in 1..a.len /\ f[i] = a.cells[i]))
    OBVIOUS
  <2>1. i <= a.len \/ i = a.len + 1 \/ i > a.len + 1
    BY <1>1
  <2> HIDE DEF f
  <2> QED BY <1>1, <1>3, <2>1 DEF Cell
<1>5. f \in [1..n -> Cell]
  BY <1>4
<1>6. Grown(a, c).cells = f /\ Grown(a, c).len = a.len + 1
  BY <1>2 DEF Grown
<1>7. Grown(a, c) = [cells |-> f, len |-> a.len + 1]
  BY <1>2 DEF Grown
<1> HIDE DEF f
<1>8. f \in Seq(Cell) /\ Len(f) = n
  BY <1>5, CellsAre
<1>9. Grown(a, c) \in Arrays
  BY <1>1, <1>2, <1>7, <1>8 DEF Arrays
<1>10. Listed(Grown(a, c), O \cup {c})
  <2>1. \A i \in 1..a.len + 1 : i \in 1..n /\ (i = a.len + 1 \/ i \in 1..a.len)
    BY <1>1, <1>2
  <2>2. \A i \in 1..a.len : i # a.len + 1 /\ i \in 1..a.len + 1 /\ f[i] = a.cells[i] /\ a.cells[i] # c
    BY <1>1, <1>2, <1>3 DEF Listed
  <2>3. f[a.len + 1] = c /\ a.len + 1 \in 1..a.len + 1
    BY <1>1, <1>2, <1>3
  <2> QED BY <1>6, <2>1, <2>2, <2>3 DEF Listed
<1> QED BY <1>4, <1>6, <1>8, <1>9, <1>10

LEMMA ShiftedIs ==
  ASSUME NEW a \in Arrays, NEW c \in Subscribers, NEW O, c \in O, Listed(a, O), None \notin O,
         NEW i \in 1..a.len, a.cells[i] = c
  PROVE  /\ Shifted(a, i) \in Arrays /\ Listed(Shifted(a, i), O \ {c})
         /\ Len(Shifted(a, i).cells) = Len(a.cells)
         /\ \A j \in 1..Len(a.cells) :
              /\ Shifted(a, i).cells[j] \in O \/ Shifted(a, i).cells[j] = a.cells[j]
              /\ \E k \in 1..Len(a.cells) : Shifted(a, i).cells[j] = a.cells[k]
<1>1. /\ a.cells \in Seq(Cell) /\ a.len \in Nat /\ Len(a.cells) \in Nat /\ a.len <= Len(a.cells)
      /\ DOMAIN a.cells = 1..Len(a.cells) /\ \A j \in 1..Len(a.cells) : a.cells[j] \in Cell
  BY ArrayIs
<1> DEFINE N == Len(a.cells)
           f == [j \in 1..N |-> IF j \in i..a.len - 1 THEN a.cells[j + 1] ELSE a.cells[j]]
<1>2. Shifted(a, i) = [cells |-> f, len |-> a.len - 1]
  BY <1>1 DEF Shifted
<1>3. \A j \in 1..N : /\ j \in i..a.len - 1 => j + 1 \in 1..a.len /\ j + 1 \in 1..N /\ f[j] = a.cells[j + 1]
                      /\ j \notin i..a.len - 1 => f[j] = a.cells[j]
  BY <1>1
<1> HIDE DEF f
<1>4. \A j \in 1..N : /\ f[j] \in O \/ f[j] = a.cells[j]
                      /\ \E k \in 1..N : f[j] = a.cells[k]
  BY <1>3 DEF Listed
<1>5. f \in [1..N -> Cell]
  BY <1>1, <1>4 DEF f
<1>6. f \in Seq(Cell) /\ Len(f) = N
  BY <1>1, <1>5, CellsAre
<1>7. Shifted(a, i) \in Arrays
  BY <1>1, <1>2, <1>6 DEF Arrays
<1>8. Listed(Shifted(a, i), O \ {c})
  <2> DEFINE g(j) == IF j < i THEN j ELSE j + 1
  <2>1. \A j \in 1..a.len - 1 : g(j) \in 1..a.len /\ g(j) # i /\ f[j] = a.cells[g(j)]
    <3> SUFFICES ASSUME NEW j \in 1..a.len - 1
                 PROVE  g(j) \in 1..a.len /\ g(j) # i /\ f[j] = a.cells[g(j)]
      OBVIOUS
    <3>1. j \in 1..N
      BY <1>1
    <3>2. CASE j < i
      BY <1>1, <1>3, <3>1, <3>2
    <3>3. CASE ~(j < i)
      BY <1>1, <1>3, <3>1, <3>3
    <3> QED BY <3>2, <3>3
  <2>2. \A j, k \in 1..a.len - 1 : g(j) = g(k) => j = k
    BY <1>1
  <2>3. \A k \in 1..a.len : k # i => \E j \in 1..a.len - 1 : k = g(j)
    <3> SUFFICES ASSUME NEW k \in 1..a.len, k # i
                 PROVE  \E j \in 1..a.len - 1 : k = g(j)
      OBVIOUS
    <3>1. CASE k < i
      <4>1. k \in 1..a.len - 1 /\ k = g(k)
        BY <1>1, <3>1
      <4> QED BY <4>1
    <3>2. CASE i < k
      <4>1. k - 1 \in 1..a.len - 1 /\ k = g(k - 1)
        BY <1>1, <3>2
      <4> QED BY <4>1
    <3> QED BY <1>1, <3>1, <3>2
  <2> HIDE DEF g
  <2>4. \A k \in 1..a.len : a.cells[k] \in O /\ (a.cells[k] = c => k = i)
    BY DEF Listed
  <2>5. \A j, k \in 1..a.len - 1 : f[j] = f[k] => j = k
    BY <2>1, <2>2 DEF Listed
  <2>6. \A j \in 1..a.len - 1 : f[j] \in O \ {c}
    BY <2>1, <2>4
  <2>7. \A d \in O \ {c} : \E j \in 1..a.len - 1 : f[j] = d
    <3> SUFFICES ASSUME NEW d \in O \ {c}
                 PROVE  \E j \in 1..a.len - 1 : f[j] = d
      OBVIOUS
    <3>1. PICK k \in 1..a.len : a.cells[k] = d
      BY DEF Listed
    <3>2. PICK j \in 1..a.len - 1 : k = g(j)
      BY <2>3, <3>1
    <3> QED BY <2>1, <3>1, <3>2
  <2>8. Shifted(a, i).cells = f /\ Shifted(a, i).len = a.len - 1
    BY <1>2
  <2> QED BY <2>5, <2>6, <2>7, <2>8 DEF Listed
<1> QED BY <1>2, <1>4, <1>6, <1>7, <1>8

(***************************************************************************)
(* The types, and what each step changes                                   *)
(***************************************************************************)
LEMMA PubTypes ==
  ASSUME TypeOK, NEW p \in Publishers
  PROVE  /\ pub[p].session \in Sessions /\ pub[p].sent \in SUBSET (1..MaxMessages)
         /\ pub[p].pc \in {"idle", "sending"}
         /\ pub[p].pc = "sending" => pub[p] \in OnAWalk
         /\ pub[p].pc = "idle" => pub[p] \in AtRest
<1>1. pub[p] \in AtRest \cup OnAWalk
  BY DEF TypeOK
<1> QED BY <1>1 DEF AtRest, OnAWalk

LEMMA SubsTypes ==
  ASSUME TypeOK, NEW s \in Sessions
  PROVE  subs[s] \in Arrays
BY DEF TypeOK, Arrays

LEMMA ChannelTypes ==
  ASSUME TypeOK, NEW c \in Subscribers
  PROVE  /\ channel[c] \in [state : {"none", "open", "closed"}, session : Sessions \cup {None}, buf : Seq(Event)]
         /\ Len(channel[c].buf) \in Nat /\ Len(channel[c].buf) <= Capacity /\ got[c] \in Seq(Event)
BY LenProperties DEF TypeOK

LEMMA ListsAre ==
  ASSUME TypeOK
  PROVE  ListsOpenChannels <=> \A s \in Sessions : Listed(subs[s], OpenIn(s))
<1>1. ASSUME NEW s \in Sessions
      PROVE  Listed(subs[s], OpenIn(s)) <=>
               /\ IsInjective(Live(s))
               /\ Range(Live(s)) = {c \in Subscribers : channel[c].state = "open" /\ channel[c].session = s}
  <2>1. subs[s] \in Arrays
    BY SubsTypes
  <2> QED BY <2>1, ListedIs DEF Live, OpenIn
<1> QED BY <1>1 DEF ListsOpenChannels

LEMMA ListsArePrime ==
  ASSUME TypeOK', \A s \in Sessions : Listed(subs'[s], OpenIn(s)')
  PROVE  ListsOpenChannels'
<1>1. ASSUME NEW s \in Sessions
      PROVE  /\ IsInjective(Live(s)')
             /\ Range(Live(s)') = {c \in Subscribers : channel'[c].state = "open" /\ channel'[c].session = s}
  <2>1. subs'[s] \in Arrays
    BY DEF TypeOK, Arrays
  <2> QED BY <2>1, ListedIs DEF Live, OpenIn
<1> QED BY <1>1 DEF ListsOpenChannels

\* Walks over the array that is left behind go on over it.
LEMMA DetachIs ==
  ASSUME TypeOK, NEW s \in Sessions, Detach(s)
  PROVE  /\ pub' \in [Publishers -> AtRest \cup OnAWalk]
         /\ \A p \in Publishers :
              /\ pub'[p].pc = pub[p].pc /\ pub'[p].session = pub[p].session /\ pub'[p].sent = pub[p].sent
              /\ pub[p].pc = "sending" =>
                   /\ pub'[p].n = pub[p].n /\ pub'[p].i = pub[p].i /\ pub'[p].len = pub[p].len
                   /\ IF Walking(p, s) THEN ~pub'[p].shared /\ pub'[p].cells = subs[s].cells
                      ELSE pub'[p] = pub[p]
<1>1. pub' = [p \in Publishers |->
                IF Walking(p, s) THEN [pub[p] EXCEPT !.shared = FALSE, !.cells = subs[s].cells] ELSE pub[p]]
  BY DEF Detach
<1>2. subs[s].cells \in Seq(Cell)
  BY SubsTypes, ArrayIs
<1>3. ASSUME NEW p \in Publishers
      PROVE  /\ pub'[p] \in AtRest \cup OnAWalk
             /\ pub'[p].pc = pub[p].pc /\ pub'[p].session = pub[p].session /\ pub'[p].sent = pub[p].sent
             /\ pub[p].pc = "sending" =>
                  /\ pub'[p].n = pub[p].n /\ pub'[p].i = pub[p].i /\ pub'[p].len = pub[p].len
                  /\ IF Walking(p, s) THEN ~pub'[p].shared /\ pub'[p].cells = subs[s].cells
                     ELSE pub'[p] = pub[p]
  <2>1. CASE Walking(p, s)
    <3>1. pub[p] \in OnAWalk
      BY <2>1, PubTypes DEF Walking
    <3>2. pub'[p] = [pub[p] EXCEPT !.shared = FALSE, !.cells = subs[s].cells]
      BY <1>1, <2>1
    <3> QED BY <1>2, <2>1, <3>1, <3>2 DEF OnAWalk
  <2>2. CASE ~Walking(p, s)
    <3>1. pub'[p] = pub[p]
      BY <1>1, <2>2
    <3> QED BY <2>2, <3>1 DEF TypeOK
  <2> QED BY <2>1, <2>2
<1> QED BY <1>1, <1>3

\* A session's array changed under the publishers, or is another one.
BelongsNext(d, s) == d \in Subscribers /\ channel'[d].state # "none" /\ channel'[d].session = s
Rearranged(s) ==
  \/ /\ pub' = pub /\ Len(subs'[s].cells) = Len(subs[s].cells)
     /\ \A i \in 1..Len(subs[s].cells) :
          subs'[s].cells[i] = subs[s].cells[i] \/ BelongsNext(subs'[s].cells[i], s)
  \/ Detach(s)

LEMMA SubscribeIs ==
  ASSUME TypeOK, ListsOpenChannels, CellsBelong,
         NEW c \in Subscribers, NEW s \in Sessions, Subscribe(c, s)
  PROVE  /\ up' = up /\ got' = got
         /\ channel[c].state = "none"
         /\ channel' = [channel EXCEPT ![c] = [state |-> "open", session |-> s, buf |-> <<>>]]
         /\ \A t \in Sessions : t # s => subs'[t] = subs[t]
         /\ DOMAIN subs' = Sessions /\ subs' = [t \in Sessions |-> subs'[t]]
         /\ subs'[s] \in Arrays /\ Listed(subs'[s], OpenIn(s) \cup {c})
         /\ \A i \in 1..Len(subs'[s].cells) : subs'[s].cells[i] # None =>
              subs'[s].cells[i] = c \/ Belongs(subs'[s].cells[i], s)
         /\ Rearranged(s) /\ pub' \in [Publishers -> AtRest \cup OnAWalk]
<1>1. /\ up' = up /\ got' = got /\ channel[c].state = "none" /\ Add(s, c)
      /\ channel' = [channel EXCEPT ![c] = [state |-> "open", session |-> s, buf |-> <<>>]]
  BY DEF Subscribe
<1>2. subs[s] \in Arrays /\ Listed(subs[s], OpenIn(s)) /\ c \notin OpenIn(s)
  BY <1>1, SubsTypes, ListsAre DEF OpenIn
<1>3. /\ subs[s].cells \in Seq(Cell) /\ subs[s].len \in Nat /\ Len(subs[s].cells) \in Nat
      /\ subs[s].len <= Len(subs[s].cells) /\ DOMAIN subs[s].cells = 1..Len(subs[s].cells)
  BY <1>2, ArrayIs
<1>4. BelongsNext(c, s)
  BY <1>1 DEF BelongsNext, TypeOK
<1>5. CASE subs[s].len < Len(subs[s].cells)
  <2>1. subs' = [subs EXCEPT ![s] = Filled(subs[s], c)] /\ pub' = pub
    BY <1>1, <1>5 DEF Add, Filled, TypeOK
  <2>2. /\ Filled(subs[s], c) \in Arrays /\ Listed(Filled(subs[s], c), OpenIn(s) \cup {c})
        /\ Len(Filled(subs[s], c).cells) = Len(subs[s].cells)
        /\ \A i \in 1..Len(subs[s].cells) :
             Filled(subs[s], c).cells[i] = IF i = subs[s].len + 1 THEN c ELSE subs[s].cells[i]
    BY <1>2, <1>5, FilledIs
  <2>3. subs'[s] = Filled(subs[s], c) /\ \A t \in Sessions : t # s => subs'[t] = subs[t]
    BY <2>1 DEF TypeOK
  <2>4. DOMAIN subs' = Sessions /\ subs' = [t \in Sessions |-> subs'[t]]
    BY <2>1 DEF TypeOK
  <2> HIDE DEF Filled
  <2>5. \A i \in 1..Len(subs'[s].cells) : subs'[s].cells[i] # None =>
          subs'[s].cells[i] = c \/ Belongs(subs'[s].cells[i], s)
    BY <1>3, <2>2, <2>3 DEF CellsBelong
  <2>6. Rearranged(s)
    BY <1>4, <2>1, <2>2, <2>3 DEF Rearranged
  <2>7. pub' \in [Publishers -> AtRest \cup OnAWalk]
    BY <2>1 DEF TypeOK
  <2> QED BY <1>1, <2>2, <2>3, <2>4, <2>5, <2>6, <2>7
<1>6. CASE ~(subs[s].len < Len(subs[s].cells))
  <2>1. subs' = [subs EXCEPT ![s] = Grown(subs[s], c)] /\ Detach(s)
    BY <1>1, <1>6 DEF Add, Grown, Double
  <2>2. /\ Grown(subs[s], c) \in Arrays /\ Listed(Grown(subs[s], c), OpenIn(s) \cup {c})
        /\ \A i \in 1..Len(Grown(subs[s], c).cells) :
             Grown(subs[s], c).cells[i] \in {None, c}
               \/ (i \in 1..subs[s].len /\ Grown(subs[s], c).cells[i] = subs[s].cells[i])
    BY <1>2, GrownIs
  <2>3. subs'[s] = Grown(subs[s], c) /\ \A t \in Sessions : t # s => subs'[t] = subs[t]
    BY <2>1 DEF TypeOK
  <2>4. DOMAIN subs' = Sessions /\ subs' = [t \in Sessions |-> subs'[t]]
    BY <2>1 DEF TypeOK
  <2> HIDE DEF Grown
  <2>5. \A i \in 1..Len(subs'[s].cells) : subs'[s].cells[i] # None =>
          subs'[s].cells[i] = c \/ Belongs(subs'[s].cells[i], s)
    <3>1. \A i \in 1..subs[s].len : i \in DOMAIN subs[s].cells
      BY <1>3
    <3> QED BY <2>2, <2>3, <3>1 DEF CellsBelong
  <2>6. Rearranged(s) /\ pub' \in [Publishers -> AtRest \cup OnAWalk]
    BY <2>1, DetachIs DEF Rearranged
  <2> QED BY <1>1, <2>2, <2>3, <2>4, <2>5, <2>6
<1> QED BY <1>5, <1>6

LEMMA UnsubscribeIs ==
  ASSUME TypeOK, ListsOpenChannels, CellsBelong,
         NEW c \in Subscribers, NEW s \in Sessions, s = channel[c].session, Unsubscribe(c)
  PROVE  /\ up' = up /\ got' = got
         /\ channel[c].state = "open"
         /\ channel' = [channel EXCEPT ![c].state = "closed"]
         /\ \A t \in Sessions : t # s => subs'[t] = subs[t]
         /\ DOMAIN subs' = Sessions /\ subs' = [t \in Sessions |-> subs'[t]]
         /\ subs'[s] \in Arrays /\ Listed(subs'[s], OpenIn(s) \ {c})
         /\ \A i \in 1..Len(subs'[s].cells) : subs'[s].cells[i] # None => Belongs(subs'[s].cells[i], s)
         /\ Rearranged(s) /\ pub' \in [Publishers -> AtRest \cup OnAWalk]
<1> DEFINE i == CHOOSE j \in 1..subs[s].len : subs[s].cells[j] = c
<1>1. /\ up' = up /\ got' = got /\ channel[c].state = "open"
      /\ channel' = [channel EXCEPT ![c].state = "closed"]
      /\ IF subs[s].len = 1
         THEN subs' = [subs EXCEPT ![s] = Empty] /\ Detach(s)
         ELSE subs' = [subs EXCEPT ![s] = Shifted(@, i)] /\ UNCHANGED pub
  BY DEF Unsubscribe
<1>2. subs[s] \in Arrays /\ Listed(subs[s], OpenIn(s)) /\ c \in OpenIn(s) /\ None \notin OpenIn(s)
  BY <1>1, SubsTypes, ListsAre, BusAssumption DEF OpenIn
<1>3. /\ subs[s].cells \in Seq(Cell) /\ subs[s].len \in Nat /\ Len(subs[s].cells) \in Nat
      /\ subs[s].len <= Len(subs[s].cells) /\ DOMAIN subs[s].cells = 1..Len(subs[s].cells)
  BY <1>2, ArrayIs
<1>4. i \in 1..subs[s].len /\ subs[s].cells[i] = c
  BY <1>2 DEF Listed
<1> HIDE DEF i
<1>5. \A t \in Sessions : t # s => subs'[t] = subs[t]
  BY <1>1 DEF TypeOK
<1>6. DOMAIN subs' = Sessions /\ subs' = [t \in Sessions |-> subs'[t]]
  BY <1>1 DEF TypeOK
<1>7. CASE subs[s].len = 1
  <2>1. subs'[s] = Empty /\ Detach(s)
    BY <1>1, <1>7 DEF TypeOK
  <2>2. Empty \in Arrays /\ Len(Empty.cells) = 0 /\ Empty.len = 0
    BY EmptySeq DEF Empty, Arrays
  <2>3. OpenIn(s) \ {c} = {}
    <3>1. \A d \in OpenIn(s) : \E j \in 1..1 : subs[s].cells[j] = d
      BY <1>2, <1>7 DEF Listed
    <3>2. i = 1
      BY <1>4, <1>7
    <3> QED BY <1>4, <3>1, <3>2
  <2>4. Listed(Empty, OpenIn(s) \ {c})
    BY <2>2, <2>3 DEF Listed
  <2>5. Rearranged(s) /\ pub' \in [Publishers -> AtRest \cup OnAWalk]
    BY <2>1, DetachIs DEF Rearranged
  <2> QED BY <1>1, <1>5, <1>6, <2>1, <2>2, <2>4, <2>5
<1>8. CASE subs[s].len # 1
  <2>1. subs'[s] = Shifted(subs[s], i) /\ pub' = pub
    BY <1>1, <1>8 DEF TypeOK
  <2>2. /\ Shifted(subs[s], i) \in Arrays /\ Listed(Shifted(subs[s], i), OpenIn(s) \ {c})
        /\ Len(Shifted(subs[s], i).cells) = Len(subs[s].cells)
        /\ \A j \in 1..Len(subs[s].cells) :
             /\ Shifted(subs[s], i).cells[j] \in OpenIn(s) \/ Shifted(subs[s], i).cells[j] = subs[s].cells[j]
             /\ \E k \in 1..Len(subs[s].cells) : Shifted(subs[s], i).cells[j] = subs[s].cells[k]
    <3>1. PICK k \in 1..subs[s].len : k = i
      BY <1>4
    <3>2. PICK a \in Arrays : a = subs[s]
      BY <1>2
    <3>3. PICK O : O = OpenIn(s)
      OBVIOUS
    <3>4. c \in O /\ Listed(a, O) /\ None \notin O /\ k \in 1..a.len /\ a.cells[k] = c
      BY <1>2, <1>4, <3>1, <3>2, <3>3
    <3>5. /\ Shifted(a, k) \in Arrays /\ Listed(Shifted(a, k), O \ {c})
          /\ Len(Shifted(a, k).cells) = Len(a.cells)
          /\ \A j \in 1..Len(a.cells) :
               /\ Shifted(a, k).cells[j] \in O \/ Shifted(a, k).cells[j] = a.cells[j]
               /\ \E m \in 1..Len(a.cells) : Shifted(a, k).cells[j] = a.cells[m]
      BY ONLY <3>4, ShiftedIs, c \in Subscribers, a \in Arrays
    <3> QED BY ONLY <3>1, <3>2, <3>3, <3>5
  <2>3. \A j \in 1..Len(subs'[s].cells) : subs'[s].cells[j] # None => Belongs(subs'[s].cells[j], s)
    <3> SUFFICES ASSUME NEW j \in 1..Len(subs'[s].cells), subs'[s].cells[j] # None
                 PROVE  Belongs(subs'[s].cells[j], s)
      OBVIOUS
    <3>1. \E k \in 1..Len(subs[s].cells) : subs'[s].cells[j] = subs[s].cells[k]
      BY ONLY <2>1, <2>2, j \in 1..Len(subs'[s].cells)
    <3>2. PICK k \in DOMAIN subs[s].cells : subs'[s].cells[j] = subs[s].cells[k]
      BY <1>3, <3>1
    <3> QED BY <3>2 DEF CellsBelong
  <2>4. \A d \in OpenIn(s) : BelongsNext(d, s)
    BY <1>1 DEF OpenIn, BelongsNext, TypeOK
  <2>5. Rearranged(s)
    BY <2>1, <2>2, <2>4 DEF Rearranged
  <2>6. pub' \in [Publishers -> AtRest \cup OnAWalk]
    BY <2>1 DEF TypeOK
  <2> QED BY <1>1, <1>5, <1>6, <2>1, <2>2, <2>3, <2>5, <2>6
<1> QED BY <1>7, <1>8

\* What a channel was, it stays.
LEMMA BelongsStays ==
  ASSUME TypeOK, [Next]_vars, NEW d, NEW t, Belongs(d, t)
  PROVE  BelongsNext(d, t)
<1>1. d \in Subscribers /\ channel[d].state # "none" /\ channel[d].session = t
  BY DEF Belongs
<1>2. ASSUME NEW c \in Subscribers, NEW s \in Sessions, Subscribe(c, s)
      PROVE  BelongsNext(d, t)
  <2>1. channel' = [channel EXCEPT ![c] = [state |-> "open", session |-> s, buf |-> <<>>]] /\ c # d
    BY <1>1, <1>2 DEF Subscribe
  <2>2. channel'[d] = channel[d]
    BY <1>1, <2>1 DEF TypeOK
  <2> QED BY <1>1, <2>2 DEF BelongsNext
<1>3. ASSUME NEW c \in Subscribers, Unsubscribe(c)
      PROVE  BelongsNext(d, t)
  <2>1. channel' = [channel EXCEPT ![c].state = "closed"]
    BY <1>3 DEF Unsubscribe
  <2>2. channel[d] \in [state : {"none", "open", "closed"}, session : Sessions \cup {None}, buf : Seq(Event)]
    BY <1>1, ChannelTypes
  <2>3. channel'[d] = channel[d] \/ channel'[d] = [channel[d] EXCEPT !.state = "closed"]
    BY <1>1, <2>1 DEF TypeOK
  <2> QED BY <1>1, <2>2, <2>3 DEF BelongsNext
<1>4. ASSUME NEW c \in Subscribers, Receive(c)
      PROVE  BelongsNext(d, t)
  <2>1. channel' = [channel EXCEPT ![c].buf = Tail(@)]
    BY <1>4 DEF Receive
  <2>2. channel[d] \in [state : {"none", "open", "closed"}, session : Sessions \cup {None}, buf : Seq(Event)]
    BY <1>1, ChannelTypes
  <2>3. channel'[d].state = channel[d].state /\ channel'[d].session = channel[d].session
    BY <1>1, <2>1, <2>2 DEF TypeOK
  <2> QED BY <1>1, <2>3 DEF BelongsNext
<1>5. ASSUME NEW p \in Publishers, PublishStart(p)
      PROVE  BelongsNext(d, t)
  BY <1>1, <1>5 DEF PublishStart, StartWith, BelongsNext
<1>6. ASSUME NEW p \in Publishers, PublishSend(p)
      PROVE  BelongsNext(d, t)
  <2>1. PICK c : c = Target(p)
    OBVIOUS
  <2>2. channel' = [channel EXCEPT ![c].buf = Append(@, Message(p))] \/ channel' = channel
    BY <1>6, <2>1 DEF PublishSend
  <2>3. channel[d] \in [state : {"none", "open", "closed"}, session : Sessions \cup {None}, buf : Seq(Event)]
    BY <1>1, ChannelTypes
  <2>4. \/ channel'[d] = channel[d]
        \/ channel'[d] = [channel[d] EXCEPT !.buf = Append(channel[d].buf, Message(p))]
    <3>1. DOMAIN channel = Subscribers
      BY DEF TypeOK
    <3> QED BY ONLY <1>1, <2>2, <3>1
  <2> QED BY <1>1, <2>3, <2>4 DEF BelongsNext
<1>7. CASE UNCHANGED vars
  BY <1>1, <1>7 DEF vars, BelongsNext
<1> QED BY <1>2, <1>3, <1>4, <1>5, <1>6, <1>7 DEF Next

\* A publisher over a session whose array changed walks channels of it still.
LEMMA RearrangedIsSafe ==
  ASSUME TypeOK, WalksAreSafe, NEW s \in Sessions, Rearranged(s), TypeOK',
         \A t \in Sessions : t # s => subs'[t] = subs[t],
         \A d, t : Belongs(d, t) => BelongsNext(d, t)
  PROVE  WalksAreSafe'
<1> SUFFICES ASSUME NEW p \in Publishers, pub'[p].pc = "sending"
             PROVE  /\ pub'[p].i \in 1..pub'[p].len /\ pub'[p].len <= Len(Walked(p)')
                    /\ \A j \in 1..pub'[p].len : BelongsNext(Walked(p)'[j], pub'[p].session)
  BY DEF WalksAreSafe, Belongs, BelongsNext
<1>1. /\ pub[p].pc = "sending" /\ pub'[p].session = pub[p].session
      /\ pub'[p].i = pub[p].i /\ pub'[p].len = pub[p].len
  BY DetachIs DEF Rearranged
<1>2. /\ pub[p].i \in 1..pub[p].len /\ pub[p].len <= Len(Walked(p))
      /\ \A j \in 1..pub[p].len : Belongs(Walked(p)[j], pub[p].session)
  BY <1>1 DEF WalksAreSafe
<1>3. pub[p].session \in Sessions /\ pub[p] \in OnAWalk
  BY <1>1, PubTypes
<1>4. CASE Walking(p, s)
  <2>1. Walked(p) = subs[s].cells /\ pub[p].session = s
    BY <1>4 DEF Walked, Walking
  <2>2. CASE Detach(s)
    <3>1. Walked(p)' = subs[s].cells
      BY <1>1, <1>4, <2>2, DetachIs DEF Walked
    <3> QED BY <1>1, <1>2, <2>1, <3>1
  <2>3. CASE ~Detach(s)
    <3>1. /\ pub' = pub /\ Len(subs'[s].cells) = Len(subs[s].cells)
          /\ \A i \in 1..Len(subs[s].cells) :
               subs'[s].cells[i] = subs[s].cells[i] \/ BelongsNext(subs'[s].cells[i], s)
      BY <2>3 DEF Rearranged
    <3>2. Walked(p)' = subs'[s].cells
      BY <1>4, <3>1 DEF Walked, Walking
    <3>3. pub[p].len \in Nat /\ Len(subs[s].cells) \in Nat
      BY <1>3, SubsTypes, ArrayIs DEF OnAWalk
    <3>4. \A j \in 1..pub[p].len : j \in 1..Len(subs[s].cells)
      BY <1>2, <2>1, <3>3
    <3>5. \A j \in 1..pub[p].len : BelongsNext(subs'[s].cells[j], s)
      BY <1>2, <2>1, <3>1, <3>4
    <3> QED BY <1>1, <1>2, <2>1, <3>1, <3>2, <3>5
  <2> QED BY <2>2, <2>3
<1>5. CASE ~Walking(p, s)
  <2>1. pub'[p] = pub[p]
    BY <1>1, <1>5, DetachIs DEF Rearranged
  <2>2. pub[p].shared => pub[p].session # s
    BY <1>1, <1>5 DEF Walking
  <2>3. Walked(p)' = Walked(p)
    BY <1>3, <2>1, <2>2 DEF Walked
  <2> QED BY <1>1, <1>2, <2>3
<1> QED BY <1>4, <1>5

\* What a publisher has emitted.
LEMMA LatestIs ==
  ASSUME EmitsInOrder, NEW p \in Publishers
  PROVE  \E k \in 0..MaxMessages :
           /\ pub[p].sent = 1..k /\ Cardinality(pub[p].sent) = k
           /\ pub[p].pc = "sending" => pub[p].n = k + 1
           /\ Latest(p) = IF pub[p].pc = "sending" THEN k + 1 ELSE k
<1>1. PICK k \in 0..MaxMessages : pub[p].sent = 1..k /\ (pub[p].pc = "sending" => pub[p].n = k + 1)
  BY DEF EmitsInOrder
<1>2. k \in Nat /\ k \in Int /\ 1 \in Int
  BY <1>1, BusAssumption
<1>3. Cardinality(1..k) = IF 1 > k THEN 0 ELSE k - 1 + 1
  BY <1>2, FS_Interval
<1>4. Cardinality(1..k) = k
  BY <1>2, <1>3
<1> QED BY <1>1, <1>4 DEF Latest

\* A step that leaves a publisher's progress alone.
LEMMA EmitsAsBefore ==
  ASSUME EmitsInOrder, \A p \in Publishers : /\ pub'[p].pc = pub[p].pc /\ pub'[p].sent = pub[p].sent
                                             /\ pub[p].pc = "sending" => pub'[p].n = pub[p].n
  PROVE  EmitsInOrder' /\ \A p \in Publishers : Latest(p)' = Latest(p)
<1>1. EmitsInOrder'
  <2> SUFFICES ASSUME NEW p \in Publishers
               PROVE  \E k \in 0..MaxMessages : pub'[p].sent = 1..k /\ (pub'[p].pc = "sending" => pub'[p].n = k + 1)
    BY DEF EmitsInOrder
  <2> QED BY DEF EmitsInOrder
<1>2. ASSUME NEW p \in Publishers
      PROVE  Latest(p)' = Latest(p)
  BY DEF Latest
<1> QED BY <1>1, <1>2

(***************************************************************************)
(* What a connection has been sent                                         *)
(***************************************************************************)
LEMMA TakenTypes ==
  ASSUME TypeOK, NEW c \in Subscribers
  PROVE  /\ Taken(c) \in Seq(Event) /\ Len(Taken(c)) \in Nat /\ DOMAIN Taken(c) = 1..Len(Taken(c))
         /\ \A i \in DOMAIN Taken(c) : Taken(c)[i] \in Event
         /\ got[c] \in Seq(Event) /\ channel[c].buf \in Seq(Event)
<1>1. got[c] \in Seq(Event) /\ channel[c].buf \in Seq(Event)
  BY ChannelTypes
<1>2. Taken(c) \in Seq(Event)
  BY <1>1, ConcatProperties DEF Taken
<1>3. /\ Len(Taken(c)) \in Nat /\ DOMAIN Taken(c) = 1..Len(Taken(c))
      /\ Taken(c) \in [1..Len(Taken(c)) -> Event]
  BY <1>2, LenProperties
<1> QED BY <1>1, <1>2, <1>3

\* A message that is put at the end, and one that moves to the handler.
LEMMA TakenLater ==
  ASSUME NEW g \in Seq(Event), NEW b \in Seq(Event), NEW m \in Event
  PROVE  g \o Append(b, m) = Append(g \o b, m)
<1>1. <<m>> \in Seq(Event) /\ g \o b \in Seq(Event)
  BY ConcatProperties
<1>2. Append(b, m) = b \o <<m>> /\ Append(g \o b, m) = (g \o b) \o <<m>>
  BY <1>1, AppendIsConcat
<1>3. (g \o b) \o <<m>> = g \o (b \o <<m>>)
  BY <1>1, ConcatAssociative
<1> QED BY ONLY <1>2, <1>3

LEMMA TakenNow ==
  ASSUME NEW g \in Seq(Event), NEW b \in Seq(Event), b # <<>>
  PROVE  Append(g, Head(b)) \o Tail(b) = g \o b
<1>1. /\ Head(b) \in Event /\ Tail(b) \in Seq(Event) /\ Len(Tail(b)) = Len(b) - 1
      /\ \A i \in 1..Len(Tail(b)) : Tail(b)[i] = b[i + 1]
  BY HeadTailProperties
<1>2. PICK h \in Event, t \in Seq(Event) : h = Head(b) /\ t = Tail(b)
  BY <1>1
<1>3. <<h>> \in Seq(Event) /\ Len(<<h>>) = 1 /\ <<h>>[1] = h
  OBVIOUS
<1>4. /\ <<h>> \o t \in Seq(Event) /\ Len(<<h>> \o t) = 1 + Len(t)
      /\ \A i \in 1..1 + Len(t) : (<<h>> \o t)[i] = IF i <= 1 THEN <<h>>[i] ELSE t[i - 1]
  BY <1>3, ConcatProperties
<1>5. Len(b) \in Nat /\ Len(t) \in Nat /\ Len(t) = Len(b) - 1
  BY <1>1, <1>2, LenProperties
<1>6. Head(b) = b[1]
  OBVIOUS
<1>7. ASSUME NEW i \in 1..Len(b)
      PROVE  (<<h>> \o t)[i] = b[i]
  <2>1. CASE i = 1
    BY <1>2, <1>3, <1>4, <1>5, <1>6, <2>1
  <2>2. CASE i # 1
    <3>1. i - 1 \in 1..Len(t) /\ ~(i <= 1) /\ i \in 1..1 + Len(t) /\ i - 1 + 1 = i
      BY <1>5, <2>2
    <3> QED BY ONLY <1>1, <1>2, <1>4, <3>1
  <2> QED BY <2>1, <2>2
<1>8. Len(<<h>> \o t) = Len(b)
  BY <1>4, <1>5
<1>9. <<h>> \o t = b
  <2>1. PICK q \in Seq(Event) : q = <<h>> \o t
    BY <1>4
  <2>2. Len(q) = Len(b) /\ \A i \in 1..Len(q) : q[i] = b[i]
    BY ONLY <1>7, <1>8, <2>1
  <2>3. q = b
    BY ONLY <2>2, SeqEqual, q \in Seq(Event), b \in Seq(Event)
  <2> QED BY ONLY <2>1, <2>3
<1>10. Append(g, h) = g \o <<h>>
  BY AppendIsConcat
<1>11. (g \o <<h>>) \o t = g \o (<<h>> \o t)
  BY <1>3, ConcatAssociative
<1> QED BY ONLY <1>2, <1>9, <1>10, <1>11

Ordered(q) == \A i, j \in DOMAIN q : i < j /\ q[i].from = q[j].from => q[i].n <= q[j].n

LEMMA DeliveredIs ==
  DeliveredAsEmitted <=> \A c \in Subscribers :
      (\A i \in DOMAIN Taken(c) : Taken(c)[i].session = channel[c].session) /\ Ordered(Taken(c))
BY DEF DeliveredAsEmitted, Range, Ordered

LEMMA DeliveredIsPrime ==
  ASSUME \A c \in Subscribers :
      (\A i \in DOMAIN Taken(c)' : Taken(c)'[i].session = channel'[c].session) /\ Ordered(Taken(c)')
  PROVE  DeliveredAsEmitted'
BY DEF DeliveredAsEmitted, Range, Ordered

LEMMA OrderedThen ==
  ASSUME NEW q \in Seq(Event), NEW m \in Event, Ordered(q),
         \A i \in DOMAIN q : q[i].from = m.from => q[i].n <= m.n
  PROVE  Ordered(Append(q, m))
<1>1. /\ Append(q, m) \in Seq(Event) /\ Len(Append(q, m)) = Len(q) + 1
      /\ \A i \in 1..Len(q) : Append(q, m)[i] = q[i]
      /\ Append(q, m)[Len(q) + 1] = m
  BY AppendProperties
<1>2. Len(q) \in Nat /\ DOMAIN q = 1..Len(q) /\ DOMAIN Append(q, m) = 1..Len(q) + 1
  BY <1>1, LenProperties
<1> SUFFICES ASSUME NEW i \in 1..Len(q) + 1, NEW j \in 1..Len(q) + 1, i < j,
                    Append(q, m)[i].from = Append(q, m)[j].from
             PROVE  Append(q, m)[i].n <= Append(q, m)[j].n
  BY <1>2 DEF Ordered
<1>3. i \in 1..Len(q)
  BY <1>2
<1>4. j = Len(q) + 1 \/ j \in 1..Len(q)
  BY <1>2
<1> QED BY <1>1, <1>2, <1>3, <1>4 DEF Ordered

\* A step that sends nothing new: what was sent was emitted, in order.
LEMMA SameDelivery ==
  ASSUME TypeOK, DeliversEmitted, DeliveredAsEmitted,
         \A d \in Subscribers : /\ got'[d] \o channel'[d].buf = Taken(d)
                                /\ Taken(d) = <<>> \/ channel'[d].session = channel[d].session
                                /\ channel'[d].state = "none" => got'[d] = <<>> /\ channel'[d].buf = <<>>,
         \A p \in Publishers : Latest(p) \in Nat /\ Latest(p)' \in Nat /\ Latest(p) <= Latest(p)'
  PROVE  DeliversEmitted' /\ DeliveredAsEmitted'
<1>1. \A d \in Subscribers : Taken(d)' = Taken(d)
  BY DEF Taken
<1>2. ASSUME NEW d \in Subscribers, NEW i \in DOMAIN Taken(d)
      PROVE  \E p \in Publishers : Taken(d)[i].from = p /\ Taken(d)[i].n <= Latest(p)'
  <2>1. Taken(d)[i] \in Event /\ Taken(d)[i].n <= Latest(Taken(d)[i].from)
    BY TakenTypes DEF DeliversEmitted
  <2>2. PICK p \in Publishers : Taken(d)[i].from = p
    BY <2>1 DEF Event
  <2>3. PICK n \in Nat : Taken(d)[i].n = n /\ n <= Latest(p)
    BY <2>1, <2>2 DEF Event
  <2>4. PICK l \in Nat, m \in Nat : l = Latest(p) /\ m = Latest(p)' /\ l <= m
    OBVIOUS
  <2>5. n <= m
    BY ONLY <2>3, <2>4
  <2> QED BY <2>2, <2>3, <2>4, <2>5
<1>3. DeliversEmitted'
  <2> SUFFICES ASSUME NEW d \in Subscribers
               PROVE  /\ \A i \in DOMAIN Taken(d)' : Taken(d)'[i].n <= Latest(Taken(d)[i].from)'
                      /\ channel'[d].state = "none" => got'[d] = <<>> /\ channel'[d].buf = <<>>
    BY DEF DeliversEmitted
  <2>1. ASSUME NEW i \in DOMAIN Taken(d)'
        PROVE  Taken(d)'[i].n <= Latest(Taken(d)[i].from)'
    <3>1. i \in DOMAIN Taken(d) /\ Taken(d)'[i] = Taken(d)[i]
      BY <1>1
    <3>2. PICK p \in Publishers : Taken(d)[i].from = p /\ Taken(d)[i].n <= Latest(p)'
      BY <1>2, <3>1
    <3>3. Taken(d)'[i].from = p
      BY <3>1, <3>2
    <3>4. Latest(Taken(d)[i].from)' = Latest(p)'
      BY ONLY <3>3 DEF Latest
    <3> QED BY ONLY <3>1, <3>2, <3>4
  <2> QED BY <2>1
<1>4. ASSUME NEW d \in Subscribers
      PROVE  (\A i \in DOMAIN Taken(d)' : Taken(d)'[i].session = channel'[d].session) /\ Ordered(Taken(d)')
  <2>1. PICK q : q = Taken(d)
    OBVIOUS
  <2>2. Taken(d)' = q
    BY <1>1, <2>1
  <2>3. (\A i \in DOMAIN q : q[i].session = channel[d].session) /\ Ordered(q)
    BY <2>1, DeliveredIs
  <2>4. q = <<>> => DOMAIN q = {}
    OBVIOUS
  <2>5. \A i \in DOMAIN q : q[i].session = channel'[d].session
    BY <2>1, <2>3, <2>4
  <2> QED BY <2>2, <2>3, <2>5
<1> QED BY <1>3, <1>4, DeliveredIsPrime

\* The next iteration of a publisher's walk, or its end.
LEMMA AdvanceIs ==
  ASSUME TypeOK, WalksAreSafe, EmitsInOrder, NEW p \in Publishers, pub[p].pc = "sending", Advance(p)
  PROVE  /\ pub' \in [Publishers -> AtRest \cup OnAWalk]
         /\ EmitsInOrder'
         /\ \A q \in Publishers : Latest(q) \in Nat /\ Latest(q)' = Latest(q)
         /\ \A q \in Publishers : pub'[q].pc = "sending" =>
              /\ pub[q].pc = "sending" /\ pub'[q].session = pub[q].session /\ pub'[q].len = pub[q].len
              /\ pub'[q].shared = pub[q].shared /\ pub'[q].cells = pub[q].cells
              /\ pub'[q].i \in 1..pub'[q].len
<1>1. /\ pub[p] \in OnAWalk /\ pub[p].i \in 1..pub[p].len
      /\ pub[p].i \in Nat /\ pub[p].len \in Nat
  BY PubTypes DEF WalksAreSafe, OnAWalk
<1>2. PICK k \in 0..MaxMessages :
        /\ pub[p].sent = 1..k /\ Cardinality(pub[p].sent) = k /\ pub[p].n = k + 1
        /\ Latest(p) = k + 1
  BY LatestIs
<1>3. k \in Nat /\ k + 1 \in 0..MaxMessages /\ pub[p].n \in 1..MaxMessages /\ MaxMessages \in Nat
  BY <1>1, <1>2, BusAssumption DEF OnAWalk
<1> DEFINE next == IF pub[p].i < pub[p].len THEN [pub[p] EXCEPT !.i = pub[p].i + 1]
                   ELSE [pc |-> "idle", session |-> pub[p].session, sent |-> pub[p].sent \cup {pub[p].n}]
<1>4. /\ pub' = [q \in Publishers |-> pub'[q]]
      /\ pub'[p] = next /\ \A q \in Publishers \ {p} : pub'[q] = pub[q]
  <2>1. pub = [q \in Publishers |-> pub[q]]
    BY DEF TypeOK
  <2>2. pub' = [pub EXCEPT ![p] = next]
    BY DEF Advance
  <2> HIDE DEF next
  <2> QED BY <2>1, <2>2
<1>5. CASE pub[p].i < pub[p].len
  <2>1. next = [pub[p] EXCEPT !.i = pub[p].i + 1] /\ pub[p].i + 1 \in 1..pub[p].len /\ pub[p].i + 1 \in Nat
    BY <1>1, <1>5
  <2>2. /\ next \in OnAWalk /\ next.pc = "sending" /\ next.session = pub[p].session /\ next.len = pub[p].len
        /\ next.shared = pub[p].shared /\ next.cells = pub[p].cells /\ next.i \in 1..next.len
        /\ next.sent = pub[p].sent /\ next.n = pub[p].n
    BY <1>1, <2>1 DEF OnAWalk
  <2> HIDE DEF next
  <2>3. pub'[p] = next /\ \A q \in Publishers \ {p} : pub'[q] = pub[q]
    BY <1>4
  <2>4. \A q \in Publishers : /\ pub'[q].pc = pub[q].pc /\ pub'[q].sent = pub[q].sent
                              /\ pub[q].pc = "sending" => pub'[q].n = pub[q].n
    BY <2>2, <2>3
  <2>5. EmitsInOrder' /\ \A q \in Publishers : Latest(q)' = Latest(q)
    BY <2>4, EmitsAsBefore
  <2>6. ASSUME NEW q \in Publishers
        PROVE  Latest(q) \in Nat
    <3>1. PICK m \in 0..MaxMessages : Latest(q) = IF pub[q].pc = "sending" THEN m + 1 ELSE m
      BY LatestIs
    <3> QED BY <3>1, BusAssumption
  <2>7. pub' \in [Publishers -> AtRest \cup OnAWalk]
    BY <1>4, <2>2, <2>3 DEF TypeOK
  <2>8. \A q \in Publishers : pub[q].pc = "sending" => pub[q].i \in 1..pub[q].len
    BY DEF WalksAreSafe
  <2> QED BY <2>2, <2>3, <2>5, <2>6, <2>7, <2>8
<1>6. CASE ~(pub[p].i < pub[p].len)
  <2>1. next = [pc |-> "idle", session |-> pub[p].session, sent |-> pub[p].sent \cup {pub[p].n}]
    BY <1>6
  <2>2. pub[p].sent \cup {pub[p].n} = 1..k + 1
    BY <1>2, <1>3
  <2>3. next \in AtRest /\ next.pc = "idle" /\ next.sent = 1..k + 1
    BY <1>1, <1>3, <2>1, <2>2 DEF OnAWalk, AtRest
  <2> HIDE DEF next
  <2>4. pub'[p] = next /\ \A q \in Publishers \ {p} : pub'[q] = pub[q]
    BY <1>4
  <2>5. Cardinality(1..k + 1) = k + 1
    <3>1. Cardinality(1..k + 1) = IF 1 > k + 1 THEN 0 ELSE k + 1 - 1 + 1
      BY <1>3, FS_Interval
    <3> QED BY <1>3, <3>1
  <2>6. Latest(p)' = k + 1
    BY <2>3, <2>4, <2>5 DEF Latest
  <2>7. ASSUME NEW q \in Publishers
        PROVE  Latest(q) \in Nat /\ Latest(q)' = Latest(q)
    <3>1. PICK m \in 0..MaxMessages : Latest(q) = IF pub[q].pc = "sending" THEN m + 1 ELSE m
      BY LatestIs
    <3>2. Latest(q) \in Nat
      BY <3>1, BusAssumption
    <3>3. q # p => Latest(q)' = Latest(q)
      BY <2>4 DEF Latest
    <3> QED BY <1>2, <2>6, <3>2, <3>3
  <2>8. EmitsInOrder'
    <3> SUFFICES ASSUME NEW q \in Publishers
                 PROVE  \E m \in 0..MaxMessages : pub'[q].sent = 1..m /\ (pub'[q].pc = "sending" => pub'[q].n = m + 1)
      BY DEF EmitsInOrder
    <3>1. CASE q = p
      BY <1>3, <2>3, <2>4, <3>1
    <3>2. CASE q # p
      BY <2>4, <3>2 DEF EmitsInOrder
    <3> QED BY <3>1, <3>2
  <2>9. pub' \in [Publishers -> AtRest \cup OnAWalk]
    BY <1>4, <2>3, <2>4 DEF TypeOK
  <2>10. \A q \in Publishers : pub[q].pc = "sending" => pub[q].i \in 1..pub[q].len
    BY DEF WalksAreSafe
  <2> QED BY <2>3, <2>4, <2>7, <2>8, <2>9, <2>10
<1> QED BY <1>5, <1>6

\* The next event: sent to nobody, or a walk over the session's array.
LEMMA StartIs ==
  ASSUME TypeOK, ListsOpenChannels, EmitsInOrder, NEW p \in Publishers, PublishStart(p)
  PROVE  /\ pub' \in [Publishers -> AtRest \cup OnAWalk] /\ EmitsInOrder'
         /\ \A q \in Publishers \ {p} : pub'[q] = pub[q]
         /\ \A q \in Publishers : Latest(q) \in Nat /\ Latest(q)' \in Nat /\ Latest(q) <= Latest(q)'
         /\ pub'[p].pc = "sending" =>
              /\ pub'[p].session = pub[p].session /\ pub'[p].i = 1 /\ pub'[p].shared
              /\ pub'[p].len = subs[pub[p].session].len /\ pub'[p].len >= 1
<1>1. PICK k \in 0..MaxMessages :
        /\ pub[p].sent = 1..k /\ Cardinality(pub[p].sent) = k
        /\ Latest(p) = IF pub[p].pc = "sending" THEN k + 1 ELSE k
  BY LatestIs
<1>2. /\ pub[p].pc = "idle" /\ k + 1 <= MaxMessages
      /\ StartWith(p, k + 1, <<>>, subs[pub[p].session].len)
  BY <1>1 DEF PublishStart, StartWith
<1>3. /\ k \in Nat /\ MaxMessages \in Nat /\ k + 1 \in 1..MaxMessages /\ k + 1 \in 0..MaxMessages
  BY <1>1, <1>2, BusAssumption
<1>4. pub[p] \in AtRest /\ pub[p].session \in Sessions
  BY <1>2, PubTypes
<1>5. PICK len \in Nat : len = subs[pub[p].session].len
  BY <1>4, SubsTypes, ArrayIs
<1>6. <<>> \in Seq(Cell)
  BY EmptySeq
<1> DEFINE next == IF len = 0 THEN [pub[p] EXCEPT !.sent = pub[p].sent \cup {k + 1}]
                   ELSE [pc |-> "sending", session |-> pub[p].session, sent |-> pub[p].sent,
                         n |-> k + 1, i |-> 1, len |-> len, shared |-> <<>> = <<>>, cells |-> <<>>]
<1>7. pub' = [pub EXCEPT ![p] = next]
  BY <1>2, <1>5 DEF StartWith
<1>8. 1..k \cup {k + 1} = 1..k + 1
  BY <1>3
<1>9. \/ next \in AtRest /\ next.pc = "idle" /\ next.sent = 1..k + 1
      \/ /\ next \in OnAWalk /\ next.pc = "sending" /\ next.sent = 1..k /\ next.n = k + 1
         /\ next.session = pub[p].session /\ next.i = 1 /\ next.shared /\ next.len = len /\ len >= 1
  <2>1. CASE len = 0
    <3>1. next = [pub[p] EXCEPT !.sent = 1..k + 1]
      BY <1>1, <1>8, <2>1
    <3> QED BY <1>3, <1>4, <3>1 DEF AtRest
  <2>2. CASE len # 0
    <3>1. next = [pc |-> "sending", session |-> pub[p].session, sent |-> 1..k,
                  n |-> k + 1, i |-> 1, len |-> len, shared |-> TRUE, cells |-> <<>>]
      BY <1>1, <2>2
    <3>2. len >= 1 /\ 1..k \in SUBSET (1..MaxMessages)
      BY <1>3, <2>2
    <3> QED BY <1>3, <1>4, <1>6, <3>1, <3>2 DEF OnAWalk
  <2> QED BY <2>1, <2>2
<1> HIDE DEF next
<1>10. pub'[p] = next /\ \A q \in Publishers \ {p} : pub'[q] = pub[q]
  BY <1>7 DEF TypeOK
<1>11. pub' \in [Publishers -> AtRest \cup OnAWalk]
  BY <1>7, <1>9 DEF TypeOK
<1>12. EmitsInOrder'
  <2> SUFFICES ASSUME NEW q \in Publishers
               PROVE  \E m \in 0..MaxMessages : pub'[q].sent = 1..m /\ (pub'[q].pc = "sending" => pub'[q].n = m + 1)
    BY DEF EmitsInOrder
  <2>1. CASE q = p
    BY <1>3, <1>9, <1>10, <2>1
  <2>2. CASE q # p
    BY <1>10, <2>2 DEF EmitsInOrder
  <2> QED BY <2>1, <2>2
<1>13. Cardinality(1..k + 1) = k + 1
  <2>1. Cardinality(1..k + 1) = IF 1 > k + 1 THEN 0 ELSE k + 1 - 1 + 1
    BY <1>3, FS_Interval
  <2> QED BY <1>3, <2>1
<1>14. Latest(p)' = k + 1 /\ Latest(p) = k
  BY <1>1, <1>2, <1>9, <1>10, <1>13 DEF Latest
<1>15. ASSUME NEW q \in Publishers
       PROVE  Latest(q) \in Nat /\ Latest(q)' \in Nat /\ Latest(q) <= Latest(q)'
  <2>1. PICK m \in 0..MaxMessages : Latest(q) = IF pub[q].pc = "sending" THEN m + 1 ELSE m
    BY LatestIs
  <2>2. Latest(q) \in Nat
    BY <2>1, BusAssumption
  <2>3. q # p => Latest(q)' = Latest(q)
    BY <1>10 DEF Latest
  <2> QED BY <1>3, <1>14, <2>2, <2>3
<1> QED BY <1>5, <1>9, <1>10, <1>11, <1>12, <1>15

\* What a publisher's send finds.
LEMMA TargetIs ==
  ASSUME TypeOK, WalksAreSafe, NEW p \in Publishers, pub[p].pc = "sending"
  PROVE  Target(p) \in Subscribers /\ channel[Target(p)].session = pub[p].session
<1>1. Target(p) = Walked(p)[pub[p].i]
  BY DEF Target, Walked
<1> QED BY <1>1 DEF WalksAreSafe, Belongs

\* The arrays and channels as they were, and walks that go on: they are safe.
LEMMA WalksGoOn ==
  ASSUME TypeOK, WalksAreSafe, CellsBelong, subs' = subs, \A d, t : Belongs(d, t) => BelongsNext(d, t),
         \A q \in Publishers : pub'[q].pc = "sending" =>
            \/ /\ pub[q].pc = "sending" /\ pub'[q].session = pub[q].session /\ pub'[q].len = pub[q].len
               /\ pub'[q].shared = pub[q].shared /\ pub'[q].cells = pub[q].cells
               /\ pub'[q].i \in 1..pub'[q].len
            \/ /\ pub'[q].shared /\ pub'[q].session \in Sessions /\ pub'[q].i \in 1..pub'[q].len
               /\ pub'[q].len = subs[pub'[q].session].len /\ ListsOpenChannels
  PROVE  WalksAreSafe' /\ CellsBelong'
<1>1. CellsBelong'
  BY DEF CellsBelong, Belongs, BelongsNext
<1>2. ASSUME NEW q \in Publishers, pub'[q].pc = "sending"
      PROVE  /\ pub'[q].i \in 1..pub'[q].len /\ pub'[q].len <= Len(Walked(q)')
             /\ \A j \in 1..pub'[q].len : BelongsNext(Walked(q)'[j], pub'[q].session)
  <2>1. CASE /\ pub[q].pc = "sending" /\ pub'[q].session = pub[q].session /\ pub'[q].len = pub[q].len
             /\ pub'[q].shared = pub[q].shared /\ pub'[q].cells = pub[q].cells
             /\ pub'[q].i \in 1..pub'[q].len
    <3>1. Walked(q)' = Walked(q)
      BY <2>1 DEF Walked
    <3>2. /\ pub[q].len <= Len(Walked(q))
          /\ \A j \in 1..pub[q].len : Belongs(Walked(q)[j], pub[q].session)
      BY <2>1 DEF WalksAreSafe
    <3> QED BY <2>1, <3>1, <3>2
  <2>2. CASE /\ pub'[q].shared /\ pub'[q].session \in Sessions /\ pub'[q].i \in 1..pub'[q].len
             /\ pub'[q].len = subs[pub'[q].session].len /\ ListsOpenChannels
    <3>1. PICK s \in Sessions : s = pub'[q].session
      BY <2>2
    <3>2. Walked(q)' = subs[s].cells /\ pub'[q].len = subs[s].len
      BY <2>2, <3>1 DEF Walked
    <3>3. subs[s] \in Arrays /\ Listed(subs[s], OpenIn(s))
      BY <2>2, SubsTypes, ListsAre
    <3>4. \A d \in OpenIn(s) : Belongs(d, s)
      BY DEF OpenIn, Belongs
    <3>5. subs[s].len <= Len(subs[s].cells) /\ \A j \in 1..subs[s].len : BelongsNext(subs[s].cells[j], s)
      BY <3>3, <3>4 DEF Listed, Arrays
    <3> QED BY <2>2, <3>1, <3>2, <3>5
  <2> QED BY <1>2, <2>1, <2>2
<1>3. WalksAreSafe'
  BY <1>2 DEF WalksAreSafe, Belongs, BelongsNext
<1> QED BY <1>1, <1>3

(***************************************************************************)
(* Every step preserves the invariant                                      *)
(***************************************************************************)
\* Publishers whose walks are as they were, but for the array a walk is over.
LEMMA LatestStays ==
  ASSUME TypeOK, EmitsInOrder, NEW s \in Sessions, Rearranged(s)
  PROVE  /\ EmitsInOrder'
         /\ \A p \in Publishers : Latest(p) \in Nat /\ Latest(p)' \in Nat /\ Latest(p) <= Latest(p)'
<1>1. \A p \in Publishers : /\ pub'[p].pc = pub[p].pc /\ pub'[p].sent = pub[p].sent
                            /\ pub[p].pc = "sending" => pub'[p].n = pub[p].n
  BY DetachIs DEF Rearranged
<1>2. EmitsInOrder' /\ \A p \in Publishers : Latest(p)' = Latest(p)
  BY <1>1, EmitsAsBefore
<1>3. ASSUME NEW p \in Publishers
      PROVE  Latest(p) \in Nat
  <2>1. PICK m \in 0..MaxMessages : Latest(p) = IF pub[p].pc = "sending" THEN m + 1 ELSE m
    BY LatestIs
  <2> QED BY <2>1, BusAssumption
<1> QED BY <1>2, <1>3

LEMMA SubscribeKeeps ==
  ASSUME BusInv, NEW c \in Subscribers, NEW s \in Sessions, Subscribe(c, s)
  PROVE  BusInv'
<1> USE DEF BusInv
<1>1. /\ up' = up /\ got' = got
      /\ channel[c].state = "none"
      /\ channel' = [channel EXCEPT ![c] = [state |-> "open", session |-> s, buf |-> <<>>]]
      /\ \A t \in Sessions : t # s => subs'[t] = subs[t]
      /\ DOMAIN subs' = Sessions /\ subs' = [t \in Sessions |-> subs'[t]]
      /\ subs'[s] \in Arrays /\ Listed(subs'[s], OpenIn(s) \cup {c})
      /\ \A i \in 1..Len(subs'[s].cells) : subs'[s].cells[i] # None =>
           subs'[s].cells[i] = c \/ Belongs(subs'[s].cells[i], s)
      /\ Rearranged(s) /\ pub' \in [Publishers -> AtRest \cup OnAWalk]
  BY SubscribeIs
<1>2. /\ DOMAIN channel = Subscribers
      /\ channel'[c] = [state |-> "open", session |-> s, buf |-> <<>>]
      /\ \A d \in Subscribers \ {c} : channel'[d] = channel[d]
  BY <1>1 DEF TypeOK
<1>3. <<>> \in Seq(Event) /\ Len(<<>>) = 0 /\ Capacity \in Nat
  BY EmptySeq, BusAssumption
<1>4. \A t \in Sessions : subs'[t] \in Arrays
  BY <1>1, SubsTypes
<1>5. TypeOK'
  <2>1. channel' \in [Subscribers -> [state : {"none", "open", "closed"}, session : Sessions \cup {None}, buf : Seq(Event)]]
    <3>1. [state |-> "open", session |-> s, buf |-> <<>>]
            \in [state : {"none", "open", "closed"}, session : Sessions \cup {None}, buf : Seq(Event)]
      BY <1>3
    <3> QED BY <1>1, <3>1 DEF TypeOK
  <2>2. \A d \in Subscribers : /\ Len(channel'[d].buf) <= Capacity
                               /\ channel'[d].state # "none" => channel'[d].session \in Sessions
    <3>1. Len(channel'[c].buf) <= Capacity /\ channel'[c].session \in Sessions
      <4>1. channel'[c].buf = <<>> /\ channel'[c].session = s
        BY <1>2
      <4>2. Len(channel'[c].buf) = 0
        BY ONLY <1>3, <4>1
      <4> QED BY <1>3, <4>1, <4>2
    <3>2. \A d \in Subscribers : /\ Len(channel[d].buf) <= Capacity
                                 /\ channel[d].state # "none" => channel[d].session \in Sessions
      BY DEF TypeOK
    <3> QED BY ONLY <1>2, <3>1, <3>2
  <2>3. subs' \in [Sessions -> [cells : Seq(Cell), len : Nat]] /\ \A t \in Sessions : subs'[t].len <= Len(subs'[t].cells)
    BY <1>1, <1>4 DEF Arrays
  <2> QED BY <1>1, <2>1, <2>2, <2>3 DEF TypeOK
<1>6. \A d, t : Belongs(d, t) => BelongsNext(d, t)
  BY BelongsStays DEF Next
<1>7. WalksAreSafe'
  BY <1>1, <1>5, <1>6, RearrangedIsSafe
<1>8. ListsOpenChannels'
  <2>1. OpenIn(s)' = OpenIn(s) \cup {c}
    BY <1>2 DEF OpenIn
  <2>2. \A t \in Sessions \ {s} : OpenIn(t)' = OpenIn(t)
    BY <1>1, <1>2 DEF OpenIn
  <2>3. \A t \in Sessions : Listed(subs[t], OpenIn(t))
    BY ListsAre
  <2>4. \A t \in Sessions : Listed(subs'[t], OpenIn(t)')
    BY <1>1, <2>1, <2>2, <2>3
  <2> QED BY <1>5, <2>4, ListsArePrime
<1>9. CellsBelong'
  <2>1. ASSUME NEW t \in Sessions, NEW i \in DOMAIN subs'[t].cells, subs'[t].cells[i] # None
        PROVE  BelongsNext(subs'[t].cells[i], t)
    <3>1. BelongsNext(c, s)
      BY <1>2 DEF BelongsNext
    <3>2. CASE t = s
      <4>1. i \in 1..Len(subs'[s].cells)
        BY <1>4, <2>1, <3>2, ArrayIs
      <4>2. subs'[s].cells[i] = c \/ Belongs(subs'[s].cells[i], s)
        BY <1>1, <2>1, <3>2, <4>1
      <4> QED BY <1>6, <3>1, <3>2, <4>2
    <3>3. CASE t # s
      <4>1. Belongs(subs[t].cells[i], t)
        BY <1>1, <2>1, <3>3 DEF CellsBelong
      <4> QED BY <1>1, <1>6, <3>3, <4>1
    <3> QED BY <3>2, <3>3
  <2> QED BY <2>1 DEF CellsBelong, Belongs, BelongsNext
<1>10. /\ EmitsInOrder'
       /\ \A p \in Publishers : Latest(p) \in Nat /\ Latest(p)' \in Nat /\ Latest(p) <= Latest(p)'
  BY <1>1, LatestStays
<1>11. ASSUME NEW d \in Subscribers
       PROVE  /\ got'[d] \o channel'[d].buf = Taken(d)
              /\ Taken(d) = <<>> \/ channel'[d].session = channel[d].session
              /\ channel'[d].state = "none" => got'[d] = <<>> /\ channel'[d].buf = <<>>
  <2>1. CASE d = c
    <3>1. got[c] = <<>> /\ channel[c].buf = <<>>
      BY <1>1 DEF DeliversEmitted
    <3>2. <<>> \o <<>> = <<>>
      BY <1>3, ConcatEmptySeq
    <3> QED BY <1>1, <1>2, <2>1, <3>1, <3>2 DEF Taken
  <2>2. CASE d # c
    BY <1>1, <1>2, <2>2 DEF Taken, DeliversEmitted
  <2> QED BY <2>1, <2>2
<1>12. DeliversEmitted' /\ DeliveredAsEmitted'
  BY <1>10, <1>11, SameDelivery
<1> QED BY <1>5, <1>7, <1>8, <1>9, <1>10, <1>12

LEMMA UnsubscribeKeeps ==
  ASSUME BusInv, NEW c \in Subscribers, Unsubscribe(c)
  PROVE  BusInv'
<1> USE DEF BusInv
<1>1. PICK s \in Sessions : s = channel[c].session
  BY DEF Unsubscribe, TypeOK
<1>2. /\ up' = up /\ got' = got
      /\ channel[c].state = "open"
      /\ channel' = [channel EXCEPT ![c].state = "closed"]
      /\ \A t \in Sessions : t # s => subs'[t] = subs[t]
      /\ DOMAIN subs' = Sessions /\ subs' = [t \in Sessions |-> subs'[t]]
      /\ subs'[s] \in Arrays /\ Listed(subs'[s], OpenIn(s) \ {c})
      /\ \A i \in 1..Len(subs'[s].cells) : subs'[s].cells[i] # None => Belongs(subs'[s].cells[i], s)
      /\ Rearranged(s) /\ pub' \in [Publishers -> AtRest \cup OnAWalk]
  <2>1. TypeOK /\ ListsOpenChannels /\ CellsBelong
    OBVIOUS
  <2> QED BY ONLY <1>1, <2>1, UnsubscribeIs, Unsubscribe(c), c \in Subscribers
<1>3. channel[c] \in [state : {"none", "open", "closed"}, session : Sessions \cup {None}, buf : Seq(Event)]
  BY ChannelTypes
<1>4. /\ channel' \in [Subscribers -> [state : {"none", "open", "closed"}, session : Sessions \cup {None},
                                       buf : Seq(Event)]]
      /\ channel'[c].state = "closed" /\ channel'[c].session = s /\ channel'[c].buf = channel[c].buf
      /\ \A d \in Subscribers \ {c} : channel'[d] = channel[d]
  <2>1. [channel[c] EXCEPT !.state = "closed"]
          \in [state : {"none", "open", "closed"}, session : Sessions \cup {None}, buf : Seq(Event)]
    BY <1>3
  <2>2. /\ channel'[c] = [channel[c] EXCEPT !.state = "closed"]
        /\ \A d \in Subscribers \ {c} : channel'[d] = channel[d]
    BY <1>2 DEF TypeOK
  <2>3. channel' = [d \in Subscribers |-> channel'[d]]
    BY <1>2 DEF TypeOK
  <2>4. \A d \in Subscribers :
          channel'[d] \in [state : {"none", "open", "closed"}, session : Sessions \cup {None}, buf : Seq(Event)]
    BY <2>1, <2>2, ChannelTypes
  <2> QED BY <1>1, <1>3, <2>2, <2>3, <2>4
<1>5. \A t \in Sessions : subs'[t] \in Arrays
  BY <1>2, SubsTypes
<1>6. TypeOK'
  <2>1. \A d \in Subscribers : /\ Len(channel'[d].buf) <= Capacity
                               /\ channel'[d].state # "none" => channel'[d].session \in Sessions
    BY <1>4 DEF TypeOK
  <2>2. subs' \in [Sessions -> [cells : Seq(Cell), len : Nat]] /\ \A t \in Sessions : subs'[t].len <= Len(subs'[t].cells)
    BY <1>2, <1>5 DEF Arrays
  <2> QED BY <1>2, <1>4, <2>1, <2>2 DEF TypeOK
<1>7. \A d, t : Belongs(d, t) => BelongsNext(d, t)
  BY BelongsStays DEF Next
<1>8. WalksAreSafe'
  BY <1>2, <1>6, <1>7, RearrangedIsSafe
<1>9. ListsOpenChannels'
  <2>1. OpenIn(s)' = OpenIn(s) \ {c}
    BY <1>4 DEF OpenIn
  <2>2. \A t \in Sessions \ {s} : OpenIn(t)' = OpenIn(t)
    BY <1>1, <1>4 DEF OpenIn
  <2>3. \A t \in Sessions : Listed(subs[t], OpenIn(t))
    BY ListsAre
  <2>4. \A t \in Sessions : Listed(subs'[t], OpenIn(t)')
    <3>1. Listed(subs'[s], OpenIn(s)')
      BY <1>2, <2>1
    <3>2. ASSUME NEW t \in Sessions, t # s PROVE Listed(subs'[t], OpenIn(t)')
      <4>1. subs'[t] = subs[t]
        BY <1>2, <3>2
      <4> QED BY <2>2, <2>3, <3>2, <4>1
    <3> QED BY <3>1, <3>2
  <2> QED BY <1>6, <2>4, ListsArePrime
<1>10. CellsBelong'
  <2>1. ASSUME NEW t \in Sessions, NEW i \in DOMAIN subs'[t].cells, subs'[t].cells[i] # None
        PROVE  BelongsNext(subs'[t].cells[i], t)
    <3>1. CASE t = s
      <4>1. i \in 1..Len(subs'[s].cells)
        BY <1>5, <2>1, <3>1, ArrayIs
      <4>2. Belongs(subs'[s].cells[i], s)
        BY <1>2, <2>1, <3>1, <4>1
      <4> QED BY <1>7, <3>1, <4>2
    <3>2. CASE t # s
      <4>1. Belongs(subs[t].cells[i], t)
        BY <1>2, <2>1, <3>2 DEF CellsBelong
      <4> QED BY <1>2, <1>7, <3>2, <4>1
    <3> QED BY <3>1, <3>2
  <2> QED BY <2>1 DEF CellsBelong, Belongs, BelongsNext
<1>11. /\ EmitsInOrder'
       /\ \A p \in Publishers : Latest(p) \in Nat /\ Latest(p)' \in Nat /\ Latest(p) <= Latest(p)'
  BY <1>2, LatestStays
<1>12. ASSUME NEW d \in Subscribers
       PROVE  /\ got'[d] \o channel'[d].buf = Taken(d)
              /\ Taken(d) = <<>> \/ channel'[d].session = channel[d].session
              /\ channel'[d].state = "none" => got'[d] = <<>> /\ channel'[d].buf = <<>>
  <2>1. CASE d = c
    BY <1>1, <1>2, <1>4, <2>1 DEF Taken
  <2>2. CASE d # c
    BY <1>2, <1>4, <2>2 DEF Taken, DeliversEmitted
  <2> QED BY <2>1, <2>2
<1>13. DeliversEmitted' /\ DeliveredAsEmitted'
  BY <1>11, <1>12, SameDelivery
<1> QED BY <1>6, <1>8, <1>9, <1>10, <1>11, <1>13

LEMMA StartKeeps ==
  ASSUME BusInv, NEW p \in Publishers, PublishStart(p)
  PROVE  BusInv'
<1> USE DEF BusInv
<1>1. up' = up /\ subs' = subs /\ channel' = channel /\ got' = got
  BY DEF PublishStart, StartWith
<1>2. /\ pub' \in [Publishers -> AtRest \cup OnAWalk] /\ EmitsInOrder'
      /\ \A q \in Publishers \ {p} : pub'[q] = pub[q]
      /\ \A q \in Publishers : Latest(q) \in Nat /\ Latest(q)' \in Nat /\ Latest(q) <= Latest(q)'
      /\ pub'[p].pc = "sending" =>
           /\ pub'[p].session = pub[p].session /\ pub'[p].i = 1 /\ pub'[p].shared
           /\ pub'[p].len = subs[pub[p].session].len /\ pub'[p].len >= 1
  BY StartIs
<1>3. TypeOK'
  BY <1>1, <1>2 DEF TypeOK
<1>4. ListsOpenChannels'
  BY <1>1 DEF ListsOpenChannels, Live
<1>5. \A d, t : Belongs(d, t) => BelongsNext(d, t)
  BY <1>1 DEF Belongs, BelongsNext
<1>6. WalksAreSafe' /\ CellsBelong'
  <2>1. ASSUME NEW q \in Publishers, pub'[q].pc = "sending"
        PROVE  \/ /\ pub[q].pc = "sending" /\ pub'[q].session = pub[q].session /\ pub'[q].len = pub[q].len
                  /\ pub'[q].shared = pub[q].shared /\ pub'[q].cells = pub[q].cells
                  /\ pub'[q].i \in 1..pub'[q].len
               \/ /\ pub'[q].shared /\ pub'[q].session \in Sessions /\ pub'[q].i \in 1..pub'[q].len
                  /\ pub'[q].len = subs[pub'[q].session].len /\ ListsOpenChannels
    <3>1. CASE q = p
      <4>1. pub[p].session \in Sessions
        BY PubTypes
      <4>2. subs[pub[p].session].len \in Nat
        BY <4>1, SubsTypes, ArrayIs
      <4>3. 1 \in 1..subs[pub[p].session].len
        BY <1>2, <2>1, <3>1, <4>2
      <4> QED BY <1>2, <2>1, <3>1, <4>1, <4>3
    <3>2. CASE q # p
      BY <1>2, <2>1, <3>2 DEF WalksAreSafe
    <3> QED BY <3>1, <3>2
  <2> QED BY <1>1, <1>5, <2>1, WalksGoOn
<1>7. \A d \in Subscribers : /\ got'[d] \o channel'[d].buf = Taken(d)
                             /\ Taken(d) = <<>> \/ channel'[d].session = channel[d].session
                             /\ channel'[d].state = "none" => got'[d] = <<>> /\ channel'[d].buf = <<>>
  BY <1>1 DEF Taken, DeliversEmitted
<1>8. DeliversEmitted' /\ DeliveredAsEmitted'
  BY <1>2, <1>7, SameDelivery
<1> QED BY <1>2, <1>3, <1>4, <1>6, <1>8

\* An iteration whose message finds no room.
LEMMA DropKeeps ==
  ASSUME BusInv, NEW p \in Publishers, pub[p].pc = "sending", Advance(p),
         up' = up /\ channel' = channel /\ subs' = subs /\ got' = got
  PROVE  BusInv'
<1> USE DEF BusInv
<1>1. /\ pub' \in [Publishers -> AtRest \cup OnAWalk]
      /\ EmitsInOrder'
      /\ \A q \in Publishers : Latest(q) \in Nat /\ Latest(q)' = Latest(q)
      /\ \A q \in Publishers : pub'[q].pc = "sending" =>
           /\ pub[q].pc = "sending" /\ pub'[q].session = pub[q].session /\ pub'[q].len = pub[q].len
           /\ pub'[q].shared = pub[q].shared /\ pub'[q].cells = pub[q].cells
           /\ pub'[q].i \in 1..pub'[q].len
  BY AdvanceIs
<1>2. TypeOK'
  BY <1>1 DEF TypeOK
<1>3. ListsOpenChannels'
  BY DEF ListsOpenChannels, Live
<1>4. \A d, t : Belongs(d, t) => BelongsNext(d, t)
  BY DEF Belongs, BelongsNext
<1>5. WalksAreSafe' /\ CellsBelong'
  BY <1>1, <1>4, WalksGoOn
<1>6. \A d \in Subscribers : /\ got'[d] \o channel'[d].buf = Taken(d)
                             /\ Taken(d) = <<>> \/ channel'[d].session = channel[d].session
                             /\ channel'[d].state = "none" => got'[d] = <<>> /\ channel'[d].buf = <<>>
  BY DEF Taken, DeliversEmitted
<1>7. \A q \in Publishers : Latest(q) \in Nat /\ Latest(q)' \in Nat /\ Latest(q) <= Latest(q)'
  BY <1>1
<1>8. DeliversEmitted' /\ DeliveredAsEmitted'
  BY <1>6, <1>7, SameDelivery
<1> QED BY <1>1, <1>2, <1>3, <1>5, <1>8

\* An iteration whose message is sent.
LEMMA SentKeeps ==
  ASSUME BusInv, NEW p \in Publishers, pub[p].pc = "sending", Advance(p),
         NEW c, c = Target(p), channel[c].state = "open", HasRoom(c),
         channel' = [channel EXCEPT ![c].buf = Append(@, Message(p))],
         up' = up /\ subs' = subs /\ got' = got,
         \A d, t : Belongs(d, t) => BelongsNext(d, t)
  PROVE  BusInv'
<1> USE DEF BusInv
<1>1. /\ pub' \in [Publishers -> AtRest \cup OnAWalk]
      /\ EmitsInOrder'
      /\ \A q \in Publishers : Latest(q) \in Nat /\ Latest(q)' = Latest(q)
      /\ \A q \in Publishers : pub'[q].pc = "sending" =>
           /\ pub[q].pc = "sending" /\ pub'[q].session = pub[q].session /\ pub'[q].len = pub[q].len
           /\ pub'[q].shared = pub[q].shared /\ pub'[q].cells = pub[q].cells
           /\ pub'[q].i \in 1..pub'[q].len
  BY AdvanceIs
<1>2. c \in Subscribers /\ channel[c].session = pub[p].session
  BY TargetIs
<1>3. PICK m \in Event : /\ m = Message(p) /\ m.from = p /\ m.session = pub[p].session /\ m.n = pub[p].n
  <2>1. pub[p].session \in Sessions /\ pub[p].n \in Nat
    BY PubTypes, BusAssumption DEF OnAWalk
  <2>2. Message(p) = [from |-> p, session |-> pub[p].session, n |-> pub[p].n]
    BY DEF Message
  <2>3. Message(p) \in Event
    BY <2>1, <2>2 DEF Event
  <2> QED BY <2>2, <2>3
<1>4. PICK b \in Seq(Event) : b = channel[c].buf
  BY <1>2, ChannelTypes
<1>5. Append(b, m) \in Seq(Event) /\ Len(Append(b, m)) = Len(b) + 1 /\ Len(b) \in Nat
  BY AppendProperties, LenProperties
<1>6. channel[c] \in [state : {"none", "open", "closed"}, session : Sessions \cup {None}, buf : Seq(Event)]
  BY <1>2, ChannelTypes
<1>7. /\ channel'[c] = [channel[c] EXCEPT !.buf = Append(b, m)]
      /\ \A d \in Subscribers \ {c} : channel'[d] = channel[d]
      /\ channel' = [d \in Subscribers |-> channel'[d]]
  <2>1. channel = [d \in Subscribers |-> channel[d]]
    BY DEF TypeOK
  <2> QED BY ONLY <1>2, <1>3, <1>4, <2>1, channel' = [channel EXCEPT ![c].buf = Append(@, Message(p))]
<1>8. /\ channel'[c] \in [state : {"none", "open", "closed"}, session : Sessions \cup {None}, buf : Seq(Event)]
      /\ channel'[c].state = "open" /\ channel'[c].session = channel[c].session /\ channel'[c].buf = Append(b, m)
  <2>1. PICK nb \in Seq(Event) : nb = Append(b, m)
    BY <1>5
  <2>2. PICK ch \in [state : {"none", "open", "closed"}, session : Sessions \cup {None}, buf : Seq(Event)] :
          ch = channel[c]
    BY <1>6
  <2>3. channel'[c] = [ch EXCEPT !.buf = nb]
    BY ONLY <1>7, <2>1, <2>2
  <2>4. ch.state = "open"
    BY <2>2
  <2> QED BY ONLY <2>1, <2>2, <2>3, <2>4
<1>9. TypeOK'
  <2>1. \A d \in Subscribers :
          channel'[d] \in [state : {"none", "open", "closed"}, session : Sessions \cup {None}, buf : Seq(Event)]
    BY <1>7, <1>8, ChannelTypes
  <2>2. Len(b) < Capacity /\ Capacity \in Nat
    BY <1>4, BusAssumption DEF HasRoom
  <2>3. Len(Append(b, m)) <= Capacity
    BY <1>5, <2>2
  <2>4. \A d \in Subscribers : /\ Len(channel[d].buf) <= Capacity
                               /\ channel[d].state # "none" => channel[d].session \in Sessions
    BY DEF TypeOK
  <2>5. \A d \in Subscribers : /\ Len(channel'[d].buf) <= Capacity
                               /\ channel'[d].state # "none" => channel'[d].session \in Sessions
    BY <1>7, <1>8, <2>3, <2>4
  <2> QED BY <1>1, <1>7, <2>1, <2>5 DEF TypeOK
<1>10. ListsOpenChannels'
  <2>1. \A t \in Sessions : OpenIn(t)' = OpenIn(t)
    BY <1>7, <1>8 DEF OpenIn
  <2>2. \A t \in Sessions : Listed(subs'[t], OpenIn(t)')
    BY <2>1, ListsAre
  <2> QED BY <1>9, <2>2, ListsArePrime
<1>11. WalksAreSafe' /\ CellsBelong'
  <2>1. TypeOK /\ WalksAreSafe /\ CellsBelong
    OBVIOUS
  <2> QED BY ONLY <1>1, <2>1, WalksGoOn, subs' = subs, \A d, t : Belongs(d, t) => BelongsNext(d, t)
<1>12. Taken(c)' = Append(Taken(c), m) /\ \A d \in Subscribers \ {c} : Taken(d)' = Taken(d)
  <2>1. got[c] \in Seq(Event)
    BY <1>2, ChannelTypes
  <2>2. Taken(c)' = got[c] \o Append(b, m) /\ Taken(c) = got[c] \o b
    BY <1>4, <1>8 DEF Taken
  <2>3. got[c] \o Append(b, m) = Append(got[c] \o b, m)
    BY ONLY <2>1, TakenLater, b \in Seq(Event), m \in Event
  <2>4. \A d \in Subscribers \ {c} : Taken(d)' = Taken(d)
    BY <1>7 DEF Taken
  <2> QED BY <2>2, <2>3, <2>4
<1>13. PICK q \in Seq(Event) : q = Taken(c)
  BY <1>2, TakenTypes
<1>14. /\ Append(q, m) \in Seq(Event) /\ DOMAIN Append(q, m) = 1..Len(q) + 1 /\ DOMAIN q = 1..Len(q)
       /\ \A i \in 1..Len(q) : Append(q, m)[i] = q[i]
       /\ Append(q, m)[Len(q) + 1] = m /\ Len(q) \in Nat
  <2>1. /\ Append(q, m) \in Seq(Event) /\ Len(Append(q, m)) = Len(q) + 1
        /\ \A i \in 1..Len(q) : Append(q, m)[i] = q[i]
        /\ Append(q, m)[Len(q) + 1] = m
    BY AppendProperties
  <2> QED BY <2>1, LenProperties
<1>15. Latest(p) = m.n /\ m.n \in Nat
  BY <1>3 DEF Latest, Event
<1>16. \A i \in DOMAIN q : q[i].n <= Latest(q[i].from) /\ q[i] \in Event /\ q[i].session = pub[p].session
  BY <1>2, <1>13, TakenTypes, DeliveredIs DEF DeliversEmitted
<1>17. \A i \in DOMAIN q : q[i].from = m.from => q[i].n <= m.n
  BY <1>3, <1>15, <1>16
<1>18. Ordered(Append(q, m))
  <2>1. Ordered(q)
    BY <1>2, <1>13, DeliveredIs
  <2> QED BY <1>17, <2>1, OrderedThen
<1>19. DeliveredAsEmitted'
  <2>1. ASSUME NEW d \in Subscribers
        PROVE  (\A i \in DOMAIN Taken(d)' : Taken(d)'[i].session = channel'[d].session) /\ Ordered(Taken(d)')
    <3>1. CASE d = c
      <4>1. Taken(d)' = Append(q, m) /\ channel'[d].session = pub[p].session
        BY <1>2, <1>8, <1>12, <1>13, <3>1
      <4>2. \A i \in 1..Len(q) + 1 : i \in 1..Len(q) \/ i = Len(q) + 1
        BY <1>14
      <4>3. \A i \in DOMAIN Append(q, m) : Append(q, m)[i].session = pub[p].session
        BY <1>3, <1>14, <1>16, <4>2
      <4> QED BY <1>18, <4>1, <4>3
    <3>2. CASE d # c
      BY <1>7, <1>12, <3>2, DeliveredIs
    <3> QED BY <3>1, <3>2
  <2> QED BY <2>1, DeliveredIsPrime
<1>20. DeliversEmitted'
  <2>1. ASSUME NEW d \in Subscribers, NEW i \in DOMAIN Taken(d)'
        PROVE  \E r \in Publishers : Taken(d)'[i].from = r /\ Taken(d)'[i].n <= Latest(r)'
    <3>1. CASE d = c
      <4>1. Taken(d)' = Append(q, m)
        BY <1>12, <1>13, <3>1
      <4>2. i \in 1..Len(q) \/ i = Len(q) + 1
        BY <1>14, <2>1, <4>1
      <4>3. Append(q, m)[i] = m \/ (i \in DOMAIN q /\ Append(q, m)[i] = q[i])
        BY <1>14, <4>2
      <4>4. m.from \in Publishers /\ m.n <= Latest(m.from)'
        BY <1>1, <1>3, <1>15
      <4>5. i \in DOMAIN q => q[i].from \in Publishers /\ q[i].n <= Latest(q[i].from)
        BY <1>16 DEF Event
      <4>6. i \in DOMAIN q => \E r \in Publishers : q[i].from = r /\ q[i].n <= Latest(r)'
        BY <1>1, <4>5
      <4> QED BY <1>1, <1>3, <1>15, <4>1, <4>3, <4>4, <4>6
    <3>2. CASE d # c
      <4>1. i \in DOMAIN Taken(d) /\ Taken(d)'[i] = Taken(d)[i]
        BY <1>12, <2>1, <3>2
      <4>2. Taken(d)[i] \in Event /\ Taken(d)[i].n <= Latest(Taken(d)[i].from)
        BY <4>1, TakenTypes DEF DeliversEmitted
      <4>3. PICK r \in Publishers : Taken(d)[i].from = r
        BY <4>2 DEF Event
      <4> QED BY <1>1, <4>1, <4>2, <4>3
    <3> QED BY <3>1, <3>2
  <2>2. ASSUME NEW d \in Subscribers, channel'[d].state = "none"
        PROVE  got'[d] = <<>> /\ channel'[d].buf = <<>>
    BY <1>7, <1>8, <2>2 DEF DeliversEmitted
  <2> SUFFICES ASSUME NEW d \in Subscribers, NEW i \in DOMAIN Taken(d)'
               PROVE  Taken(d)'[i].n <= Latest(Taken(d)[i].from)'
    BY <2>2 DEF DeliversEmitted
  <2>3. PICK r \in Publishers : Taken(d)'[i].from = r /\ Taken(d)'[i].n <= Latest(r)'
    BY <2>1
  <2>4. Latest(Taken(d)[i].from)' = Latest(r)'
    BY ONLY <2>3 DEF Latest
  <2> QED BY ONLY <2>3, <2>4
<1> QED BY <1>1, <1>9, <1>10, <1>11, <1>19, <1>20

\* A step that changes nothing but whether the server runs.
LEMMA StutterKeeps ==
  ASSUME BusInv, up' \in BOOLEAN, subs' = subs, channel' = channel, got' = got, pub' = pub
  PROVE  BusInv'
<1>1. TypeOK'
  BY DEF BusInv, TypeOK
<1>2. ListsOpenChannels'
  BY DEF BusInv, ListsOpenChannels, Live
<1>3. CellsBelong'
  BY DEF BusInv, CellsBelong, Belongs
<1>4. WalksAreSafe'
  BY DEF BusInv, WalksAreSafe, Walked, Belongs
<1>5. EmitsInOrder'
  BY DEF BusInv, EmitsInOrder
<1>6. DeliversEmitted'
  BY DEF BusInv, DeliversEmitted, Taken, Latest
<1>7. DeliveredAsEmitted'
  <2>1. \A c \in Subscribers : Taken(c)' = Taken(c)
    BY DEF Taken
  <2>2. DeliveredAsEmitted
    BY DEF BusInv
  <2>3. \A c \in Subscribers :
          (\A i \in DOMAIN Taken(c)' : Taken(c)'[i].session = channel'[c].session) /\ Ordered(Taken(c)')
    BY <2>1, <2>2, DeliveredIs
  <2> QED BY <2>3, DeliveredIsPrime
<1> QED BY <1>1, <1>2, <1>3, <1>4, <1>5, <1>6, <1>7 DEF BusInv

LEMMA SendKeeps ==
  ASSUME BusInv, NEW p \in Publishers, PublishSend(p)
  PROVE  BusInv'
<1>1. /\ pub[p].pc = "sending" /\ subs' = subs /\ got' = got
      /\ \/ /\ channel[Target(p)].state = "open" /\ HasRoom(Target(p))
            /\ channel' = [channel EXCEPT ![Target(p)].buf = Append(@, Message(p))]
            /\ Advance(p) /\ up' = up
         \/ Advance(p) /\ up' = up /\ channel' = channel
         \/ up' = FALSE /\ channel' = channel /\ pub' = pub
  BY DEF PublishSend
<1>2. CASE /\ channel[Target(p)].state = "open" /\ HasRoom(Target(p))
           /\ channel' = [channel EXCEPT ![Target(p)].buf = Append(@, Message(p))]
           /\ Advance(p) /\ up' = up
  <2>1. \A d, t : Belongs(d, t) => BelongsNext(d, t)
    BY BelongsStays DEF Next, BusInv
  <2>2. PICK c : c = Target(p)
    OBVIOUS
  <2>3. /\ channel[c].state = "open" /\ HasRoom(c)
        /\ channel' = [channel EXCEPT ![c].buf = Append(@, Message(p))]
    BY <1>2, <2>2
  <2> QED BY ONLY <1>1, <1>2, <2>1, <2>2, <2>3, SentKeeps, BusInv, p \in Publishers
<1>3. CASE Advance(p) /\ up' = up /\ channel' = channel
  BY <1>1, <1>3, DropKeeps
<1>4. CASE up' = FALSE /\ channel' = channel /\ pub' = pub
  BY <1>1, <1>4, StutterKeeps
<1> QED BY <1>1, <1>2, <1>3, <1>4

LEMMA ReceiveKeeps ==
  ASSUME BusInv, NEW c \in Subscribers, Receive(c)
  PROVE  BusInv'
<1> USE DEF BusInv
<1>1. /\ up' = up /\ subs' = subs /\ pub' = pub /\ channel[c].state = "open" /\ channel[c].buf # <<>>
      /\ got' = [got EXCEPT ![c] = Append(@, Head(channel[c].buf))]
      /\ channel' = [channel EXCEPT ![c].buf = Tail(@)]
  BY DEF Receive
<1>2. PICK b \in Seq(Event), g \in Seq(Event) : b = channel[c].buf /\ g = got[c]
  BY ChannelTypes
<1>3. PICK h \in Event, tl \in Seq(Event) : h = Head(b) /\ tl = Tail(b) /\ Len(tl) = Len(b) - 1
  BY <1>1, <1>2, HeadTailProperties
<1>4. PICK ng \in Seq(Event) : ng = Append(g, h)
  BY AppendProperties
<1>5. ng \o tl = g \o b
  BY <1>1, <1>2, <1>3, <1>4, TakenNow
<1>6. PICK ch \in [state : {"none", "open", "closed"}, session : Sessions \cup {None}, buf : Seq(Event)] :
        ch = channel[c]
  BY ChannelTypes
<1>7. /\ channel'[c] = [ch EXCEPT !.buf = tl]
      /\ \A d \in Subscribers \ {c} : channel'[d] = channel[d]
      /\ channel' = [d \in Subscribers |-> channel'[d]]
  <2>1. channel = [d \in Subscribers |-> channel[d]]
    BY DEF TypeOK
  <2> QED BY ONLY <1>1, <1>2, <1>3, <1>6, <2>1, c \in Subscribers
<1>8. /\ channel'[c] \in [state : {"none", "open", "closed"}, session : Sessions \cup {None}, buf : Seq(Event)]
      /\ channel'[c].state = "open" /\ channel'[c].session = channel[c].session /\ channel'[c].buf = tl
  <2>1. ch.state = "open"
    BY <1>1, <1>6
  <2> QED BY ONLY <1>6, <1>7, <2>1, tl \in Seq(Event)
<1>9. got'[c] = ng /\ (\A d \in Subscribers \ {c} : got'[d] = got[d]) /\ got' \in [Subscribers -> Seq(Event)]
  <2>1. got \in [Subscribers -> Seq(Event)]
    BY DEF TypeOK
  <2>2. got' = [got EXCEPT ![c] = ng]
    BY <1>1, <1>2, <1>3, <1>4
  <2> QED BY ONLY <2>1, <2>2, c \in Subscribers, ng \in Seq(Event)
<1>10. TypeOK'
  <2>1. \A d \in Subscribers :
          channel'[d] \in [state : {"none", "open", "closed"}, session : Sessions \cup {None}, buf : Seq(Event)]
    BY <1>7, <1>8, ChannelTypes
  <2>2. Len(b) \in Nat /\ Len(tl) \in Nat /\ Capacity \in Nat
    BY LenProperties, BusAssumption
  <2>3. Len(b) <= Capacity
    BY <1>2 DEF TypeOK
  <2>4. Len(tl) <= Capacity
    BY ONLY <1>3, <2>2, <2>3
  <2>5. \A d \in Subscribers : /\ Len(channel[d].buf) <= Capacity
                               /\ channel[d].state # "none" => channel[d].session \in Sessions
    BY DEF TypeOK
  <2>6. \A d \in Subscribers : /\ Len(channel'[d].buf) <= Capacity
                               /\ channel'[d].state # "none" => channel'[d].session \in Sessions
    BY <1>1, <1>7, <1>8, <2>4, <2>5
  <2> QED BY <1>1, <1>7, <1>9, <2>1, <2>6 DEF TypeOK
<1>11. ListsOpenChannels'
  <2>1. \A t \in Sessions : OpenIn(t)' = OpenIn(t)
    BY <1>1, <1>7, <1>8 DEF OpenIn
  <2>2. \A t \in Sessions : Listed(subs'[t], OpenIn(t)')
    BY <1>1, <2>1, ListsAre
  <2> QED BY <1>10, <2>2, ListsArePrime
<1>12. \A d, t : Belongs(d, t) => BelongsNext(d, t)
  BY BelongsStays DEF Next
<1>13. WalksAreSafe' /\ CellsBelong'
  <2>1. subs' = subs /\ pub' = pub
    BY <1>1
  <2>2. \A d, t : Belongs(d, t) => Belongs(d, t)'
    BY <1>12 DEF Belongs, BelongsNext
  <2>3. \A p \in Publishers : Walked(p)' = Walked(p)
    BY <2>1 DEF Walked
  <2>4. WalksAreSafe /\ CellsBelong
    OBVIOUS
  <2>5. WalksAreSafe'
    BY ONLY <2>1, <2>2, <2>3, <2>4 DEF WalksAreSafe
  <2>6. CellsBelong'
    BY ONLY <2>1, <2>2, <2>4 DEF CellsBelong
  <2> QED BY <2>5, <2>6
<1>14. \A d \in Subscribers : /\ got'[d] \o channel'[d].buf = Taken(d)
                              /\ Taken(d) = <<>> \/ channel'[d].session = channel[d].session
                              /\ channel'[d].state = "none" => got'[d] = <<>> /\ channel'[d].buf = <<>>
  <2>1. got'[c] \o channel'[c].buf = Taken(c)
    BY <1>2, <1>5, <1>8, <1>9 DEF Taken
  <2>2. \A d \in Subscribers \ {c} : got'[d] \o channel'[d].buf = Taken(d)
    BY <1>7, <1>9 DEF Taken
  <2>3. \A d \in Subscribers : channel'[d].session = channel[d].session
    BY <1>7, <1>8
  <2>4. \A d \in Subscribers : channel'[d].state = "none" => got'[d] = <<>> /\ channel'[d].buf = <<>>
    BY <1>7, <1>8, <1>9 DEF DeliversEmitted
  <2> QED BY <2>1, <2>2, <2>3, <2>4
<1>15. EmitsInOrder' /\ \A q \in Publishers : Latest(q)' = Latest(q)
  BY <1>1, EmitsAsBefore
<1>16. ASSUME NEW q \in Publishers
       PROVE  Latest(q) \in Nat
  <2>1. PICK m \in 0..MaxMessages : Latest(q) = IF pub[q].pc = "sending" THEN m + 1 ELSE m
    BY LatestIs
  <2> QED BY <2>1, BusAssumption
<1>17. \A q \in Publishers : Latest(q) \in Nat /\ Latest(q)' \in Nat /\ Latest(q) <= Latest(q)'
  BY <1>15, <1>16
<1>18. DeliversEmitted' /\ DeliveredAsEmitted'
  BY <1>14, <1>17, SameDelivery
<1> QED BY <1>10, <1>11, <1>13, <1>15, <1>18

LEMMA InitHolds == Init => BusInv
<1> SUFFICES ASSUME Init PROVE BusInv
  OBVIOUS
<1>1. \A S : <<>> \in Seq(S) /\ Len(<<>>) = 0
  BY EmptySeq
<1>2. Capacity \in Nat /\ MaxMessages \in Nat
  BY BusAssumption
<1>3. \A p \in Publishers : \E s \in Sessions : pub[p] = [pc |-> "idle", session |-> s, sent |-> {}]
  BY DEF Init
<1>4. TypeOK
  <2>1. subs \in [Sessions -> [cells : Seq(Cell), len : Nat]] /\ \A s \in Sessions : subs[s].len <= Len(subs[s].cells)
    <3>1. Empty \in [cells : Seq(Cell), len : Nat] /\ Empty.len <= Len(Empty.cells)
      BY <1>1 DEF Empty
    <3> QED BY <3>1 DEF Init
  <2>2. pub \in [Publishers -> AtRest \cup OnAWalk]
    <3>1. \A s \in Sessions : [pc |-> "idle", session |-> s, sent |-> {}] \in AtRest \cup OnAWalk
      BY DEF AtRest
    <3>2. pub = [p \in Publishers |-> pub[p]]
      BY DEF Init
    <3>3. \A p \in Publishers : pub[p] \in AtRest \cup OnAWalk
      BY <1>3, <3>1
    <3> QED BY <3>2, <3>3
  <2>3. /\ channel \in [Subscribers -> [state : {"none", "open", "closed"}, session : Sessions \cup {None},
                                        buf : Seq(Event)]]
        /\ \A c \in Subscribers : channel[c] = [state |-> "none", session |-> None, buf |-> <<>>]
    BY <1>1 DEF Init
  <2>4. \A c \in Subscribers : /\ Len(channel[c].buf) <= Capacity
                               /\ channel[c].state # "none" => channel[c].session \in Sessions
    <3>1. Len(<<>>) <= Capacity
      BY <1>1, <1>2
    <3> QED BY <2>3, <3>1
  <2>5. up \in BOOLEAN /\ got \in [Subscribers -> Seq(Event)]
    BY <1>1 DEF Init
  <2> QED BY <2>1, <2>2, <2>3, <2>4, <2>5 DEF TypeOK
<1>5. \A c \in Subscribers : /\ channel[c] = [state |-> "none", session |-> None, buf |-> <<>>]
                             /\ got[c] = <<>>
  BY DEF Init
<1>6. \A s \in Sessions : subs[s] = Empty
  BY DEF Init
<1>7. ListsOpenChannels
  <2>1. \A s \in Sessions : OpenIn(s) = {} /\ subs[s].len = 0
    BY <1>5, <1>6 DEF OpenIn, Empty
  <2>2. \A s \in Sessions : Listed(subs[s], OpenIn(s))
    BY <2>1 DEF Listed
  <2> QED BY <1>4, <2>2, ListsAre
<1>8. CellsBelong
  <2>1. DOMAIN Empty.cells = {}
    BY DEF Empty
  <2> QED BY <1>6, <2>1 DEF CellsBelong
<1>9. ASSUME NEW p \in Publishers
       PROVE  pub[p].pc = "idle" /\ pub[p].sent = {}
  <2>1. PICK s \in Sessions : pub[p] = [pc |-> "idle", session |-> s, sent |-> {}]
    BY <1>3
  <2> QED BY ONLY <2>1
<1>10. WalksAreSafe
  BY <1>9 DEF WalksAreSafe
<1>11. EmitsInOrder
  <2>1. 0 \in 0..MaxMessages /\ 1..0 = {}
    BY <1>2
  <2> QED BY <1>9, <2>1 DEF EmitsInOrder
<1>12. \A c \in Subscribers : Taken(c) = <<>> /\ DOMAIN Taken(c) = {}
  <2>1. <<>> \in Seq(Event)
    BY <1>1
  <2>2. <<>> \o <<>> = <<>>
    BY ONLY <2>1, ConcatEmptySeq
  <2>3. \A c \in Subscribers : got[c] = <<>> /\ channel[c].buf = <<>>
    BY <1>5
  <2>4. DOMAIN <<>> = {}
    OBVIOUS
  <2>5. ASSUME NEW c \in Subscribers
        PROVE  Taken(c) = <<>>
    BY ONLY <2>2, <2>3, c \in Subscribers DEF Taken
  <2> QED BY <2>4, <2>5
<1>13. DeliversEmitted
  BY <1>5, <1>12 DEF DeliversEmitted
<1>14. DeliveredAsEmitted
  BY <1>12, DeliveredIs DEF Ordered
<1> QED BY <1>4, <1>7, <1>8, <1>10, <1>11, <1>13, <1>14 DEF BusInv

LEMMA BusInvariant == Spec => []BusInv
<1>1. BusInv /\ [Next]_vars => BusInv'
  <2> SUFFICES ASSUME BusInv, [Next]_vars PROVE BusInv'
    OBVIOUS
  <2>1. CASE UNCHANGED vars
    <3>1. up' \in BOOLEAN
      BY <2>1 DEF BusInv, TypeOK, vars
    <3> QED BY <2>1, <3>1, StutterKeeps DEF vars
  <2>2. ASSUME NEW c \in Subscribers, NEW s \in Sessions, Subscribe(c, s)
        PROVE  BusInv'
    BY <2>2, SubscribeKeeps
  <2>3. ASSUME NEW c \in Subscribers, Unsubscribe(c)
        PROVE  BusInv'
    BY <2>3, UnsubscribeKeeps
  <2>4. ASSUME NEW c \in Subscribers, Receive(c)
        PROVE  BusInv'
    BY <2>4, ReceiveKeeps
  <2>5. ASSUME NEW p \in Publishers, PublishStart(p)
        PROVE  BusInv'
    BY <2>5, StartKeeps
  <2>6. ASSUME NEW p \in Publishers, PublishSend(p)
        PROVE  BusInv'
    BY <2>6, SendKeeps
  <2> QED BY <2>1, <2>2, <2>3, <2>4, <2>5, <2>6 DEF Next
<1> QED BY <1>1, InitHolds, PTL DEF Spec

\* A session's slice lists exactly its open channels, each once, through every
\* growth, removal in place and deletion of the session's entry (subscribe, unsub).
THEOREM ChannelsListed == Spec => []ListsOpenChannels
<1>1. BusInv => ListsOpenChannels
  BY DEF BusInv
<1> QED BY <1>1, BusInvariant, PTL

\* A connection is sent its own session's events, each agent's in the order in
\* which they were emitted, whatever happens to the arrays that publishers walk
\* without the lock (Emit, publish, subscribe, unsub).
THEOREM DeliveredInOrder == Spec => []DeliveredAsEmitted
<1>1. BusInv => DeliveredAsEmitted
  BY DEF BusInv
<1> QED BY <1>1, BusInvariant, PTL

\* A publisher never sends on a channel that does not exist: the cells it walks
\* name channels of its own session, open or closed since (publish).
THEOREM WalksStaySafe == Spec => []WalksAreSafe
<1>1. BusInv => WalksAreSafe
  BY DEF BusInv
<1> QED BY <1>1, BusInvariant, PTL
==============================================================================
