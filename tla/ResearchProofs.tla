---------------------------- MODULE ResearchProofs ----------------------------
(***************************************************************************)
(* What holds of tapes, simulated sessions and campaigns for every set of  *)
(* bars, frames, trades, commands, controllers, windows and arms.  A part  *)
(* is proved with an invariant of its own rows; a step of another part     *)
(* leaves them alone.                                                      *)
(***************************************************************************)
EXTENDS Research, SetLemmas

-----------------------------------------------------------------------------
(***************************************************************************)
(* SimulationTape.  What verify_tape looks at between neighbours has to be *)
(* known of all pairs: the distance of two minutes, and, while no barrier  *)
(* was stored, the epoch and the clocks of all frames of a symbol.         *)
(***************************************************************************)
\* Every row has the identity of its predecessor and the chain up to it.
BarsChain ==
  \A s \in Symbols : \A i \in 1..Len(bars[s]) :
    /\ bars[s][i].prev = (IF i = 1 THEN None ELSE bars[s][i - 1].leaf)
    /\ bars[s][i].chain = [j \in 1..i |-> bars[s][j].leaf]

FramesChain ==
  \A i \in 1..Len(frames) :
    /\ frames[i].prev = (IF i = 1 THEN None ELSE frames[i - 1].leaf)
    /\ frames[i].chain = [j \in 1..i |-> frames[j].leaf]

\* Bars are as many minutes apart as places.
BarsEven ==
  \A s \in Symbols : \A i, j \in 1..Len(bars[s]) :
    bars[s][j].leaf.open + i = bars[s][i].leaf.open + j

\* Neighbours in the stream of a symbol are in order.
FramesOrdered ==
  \A i, j \in 1..Len(frames) :
    /\ i < j /\ frames[i].leaf.symbol = frames[j].leaf.symbol
    /\ \A m \in (i + 1)..(j - 1) : frames[m].leaf.symbol # frames[i].leaf.symbol
    => Tape!VerifyOrder(frames[i].leaf, frames[j].leaf)

\* Without a barrier the frames of a symbol are one stream with rising clocks.
OneStream ==
  tape.state # "BLOCKED" =>
    /\ \A i \in 1..Len(frames) : frames[i].leaf.continuity = "ADMITTED"
    /\ \A i, j \in 1..Len(frames) :
         i < j /\ frames[i].leaf.symbol = frames[j].leaf.symbol =>
           /\ frames[i].leaf.epoch = frames[j].leaf.epoch
           /\ frames[i].leaf.at <= frames[j].leaf.at

\* The tape's row sums the frames up.
RowOfFrames == tape.count = Len(frames) /\ tape.head = [i \in 1..Len(frames) |-> frames[i].leaf]

SealOfRows ==
  tape.state = "SEALED" =>
    /\ Tape!VerifySeal
    /\ \A s \in Symbols : bars[s] # <<>> /\ Tape!SameSymbol(s) # {}

\* The inductive invariant of the tape.
TapeInv ==
  /\ Tape!TypeOK
  /\ BarsChain /\ BarsEven /\ FramesChain /\ FramesOrdered /\ OneStream /\ RowOfFrames /\ SealOfRows

\* What the assumption says of bars and frames.
LEMMA TapeFacts ==
  /\ \A b \in Bars : b.symbol \in Symbols /\ b.open \in Nat
  /\ \A f \in Frames : f.symbol \in Symbols /\ f.update \in Nat /\ f.at \in Nat
  /\ MaxFrames \in Nat /\ None \notin Nat /\ None \notin Tape!Seals
  BY ResearchConstants DEF Tape!TapeConstants

\* A tape without a row satisfies it.
LEMMA TapeInit == Tape!Init => TapeInv
<1>. SUFFICES ASSUME Tape!Init PROVE TapeInv
  OBVIOUS
<1>1. /\ tape = [state |-> "NONE", count |-> 0, head |-> <<>>, seal |-> None]
      /\ bars = [s \in Symbols |-> <<>>] /\ frames = <<>>
  BY DEF Tape!Init, Tape!NoTape
<1>2. Len(frames) = 0 /\ \A s \in Symbols : bars[s] = <<>> /\ Len(bars[s]) = 0
  BY <1>1
<1>3. Tape!TypeOK
  BY <1>1, <1>2, TapeFacts DEF Tape!TypeOK
<1>4. BarsChain /\ BarsEven /\ FramesChain /\ FramesOrdered /\ OneStream
  BY <1>2 DEF BarsChain, BarsEven, FramesChain, FramesOrdered, OneStream
<1>5. RowOfFrames /\ SealOfRows
  BY <1>1, <1>2 DEF RowOfFrames, SealOfRows
<1>. QED BY <1>3, <1>4, <1>5 DEF TapeInv

\* A symbol with a frame has a last one, and the order of the stream is the order to it.
LEMMA LastExists ==
  ASSUME Tape!TypeOK, NEW s, NEW i \in 1..Len(frames), frames[i].leaf.symbol = s
  PROVE  \E m \in Tape!LastOf(s) : i <= m
<1>. DEFINE T == Tape!SameSymbol(s)
<1>0. Len(frames) \in Nat
  BY DEF Tape!TypeOK
<1>1. T \in SUBSET Nat /\ i \in T /\ \A m \in T : m <= Len(frames)
  BY <1>0 DEF Tape!SameSymbol
<1>2. PICK n \in T : \A m \in T : m <= n
  <2>. HIDE DEF T
  <2>. QED BY <1>0, <1>1, GreatestNatural
<1>. QED BY <1>1, <1>2 DEF Tape!LastOf
\* What a row e appended to s leaves as it was, and the chain it has to have.
AppendedRow(L, R, s, e) ==
  /\ Tape!Leaves(s) \in Seq(L) /\ Append(s, e) \in Seq(R) /\ Len(Append(s, e)) = Len(s) + 1
  /\ \A i \in 1..Len(s) : Append(s, e)[i] = s[i]
  /\ Append(s, e)[Len(s) + 1] = e
  /\ Append(Tape!Leaves(s), e.leaf) = [j \in 1..(Len(s) + 1) |-> Append(s, e)[j].leaf]

\* The chain of a row that is appended is the chain of the whole sequence.
LEMMA LeavesAppend ==
  ASSUME NEW L, NEW R, NEW s \in Seq(R), \A r \in R : r.leaf \in L, NEW e \in R
  PROVE  AppendedRow(L, R, s, e)
<1>. DEFINE v == Tape!Leaves(s)
<1>1. v = [i \in 1..Len(s) |-> s[i].leaf] /\ Len(s) \in Nat
  BY DEF Tape!Leaves
<1>2. \A i \in 1..Len(s) : s[i] \in R
  OBVIOUS
<1>3. v \in Seq(L)
  <2>1. \A i \in 1..Len(s) : s[i].leaf \in L
    BY <1>2
  <2>. QED BY <1>1, <2>1
<1>4. Len(v) = Len(s)
  BY <1>1, <1>3
<1>. HIDE DEF v
<1>5. Append(v, e.leaf) = [j \in 1..(Len(v) + 1) |-> IF j \in 1..Len(v) THEN v[j] ELSE e.leaf]
  BY <1>3
<1>6. \A j \in 1..(Len(s) + 1) : (IF j \in 1..Len(v) THEN v[j] ELSE e.leaf) = Append(s, e)[j].leaf
  BY <1>1, <1>4
<1>7. Append(v, e.leaf) = [j \in 1..(Len(s) + 1) |-> Append(s, e)[j].leaf]
  BY <1>4, <1>5, <1>6
<1>. QED BY <1>3, <1>7 DEF v, AppendedRow

\* record_closed_bar appends to the bars of one symbol and leaves the frames alone.
LEMMA BarStep ==
  ASSUME TapeInv, NEW b \in Bars, Tape!RecordClosedBar(b)
  PROVE  TapeInv'
<1>. DEFINE y == b.symbol
            s == bars[y]
            r == [leaf |-> b, prev |-> IF s = <<>> THEN None ELSE Tape!Last(s).leaf,
                  chain |-> Append(Tape!Leaves(s), b)]
            n == Len(s) + 1
<1>0. Tape!TypeOK /\ BarsChain /\ BarsEven /\ FramesChain /\ FramesOrdered /\ OneStream /\ RowOfFrames /\ SealOfRows
  BY DEF TapeInv
<1>1. /\ y \in Symbols /\ b.open \in Nat /\ s \in Seq(Tape!BarRows) /\ Len(s) \in Nat
      /\ bars \in [Symbols -> Seq(Tape!BarRows)]
  BY <1>0, TapeFacts DEF Tape!TypeOK
<1>2. /\ Tape!Opened.state = "OPEN" /\ tape' = Tape!Opened /\ frames' = frames
      /\ s # <<>> => b.open = Tape!Last(s).leaf.open + 1
  BY DEF Tape!RecordClosedBar, Tape!Contiguous
<1>3. bars' = [bars EXCEPT ![y] = Append(s, r)]
  BY DEF Tape!RecordClosedBar
<1>4. \A q \in Tape!BarRows : q.leaf \in Bars /\ q.leaf.open \in Nat
  BY TapeFacts DEF Tape!BarRows
<1>5. s # <<>> => Len(s) \in 1..Len(s) /\ Tape!Last(s) = s[Len(s)]
  BY <1>1 DEF Tape!Last
<1>6. r \in Tape!BarRows /\ r.leaf = b
  <2>1. Tape!Leaves(s) \in Seq(Bars)
    <3>1. \A i \in 1..Len(s) : s[i].leaf \in Bars
      BY <1>1, <1>4
    <3>. QED BY <1>1, <3>1 DEF Tape!Leaves
  <2>2. Append(Tape!Leaves(s), b) \in Seq(Bars)
    BY <2>1
  <2>3. (IF s = <<>> THEN None ELSE Tape!Last(s).leaf) \in Bars \cup {None}
    BY <1>1, <1>4, <1>5
  <2>. HIDE DEF s
  <2>. QED BY <2>2, <2>3 DEF Tape!BarRows
<1>7. /\ Append(s, r) \in Seq(Tape!BarRows) /\ Len(Append(s, r)) = n
      /\ \A i \in 1..Len(s) : Append(s, r)[i] = s[i]
      /\ Append(s, r)[n] = r
      /\ r.chain = [j \in 1..n |-> Append(s, r)[j].leaf]
  <2>. HIDE DEF r, s
  <2>1. Append(Tape!Leaves(s), r.leaf) = r.chain
    BY <1>6 DEF r
  <2>2. s \in Seq(Tape!BarRows) /\ (\A q \in Tape!BarRows : q.leaf \in Bars) /\ r \in Tape!BarRows
    BY <1>1, <1>4, <1>6
  <2>3. AppendedRow(Bars, Tape!BarRows, s, r)
    BY <2>2, LeavesAppend
  <2>. QED BY <2>1, <2>3 DEF AppendedRow
<1>8. /\ bars' \in [Symbols -> Seq(Tape!BarRows)] /\ bars'[y] = Append(s, r)
      /\ \A z \in Symbols : z # y => bars'[z] = bars[z]
  <2>. HIDE DEF s, r
  <2>. QED BY <1>1, <1>3, <1>7
<1>9. r.prev = (IF s = <<>> THEN None ELSE Tape!Last(s).leaf)
  OBVIOUS
<1>. HIDE DEF r
<1>10. /\ tape.state \in {"NONE", "OPEN"} /\ tape'.state = "OPEN" /\ tape'.count = tape.count
       /\ tape'.head = tape.head /\ tape'.seal = tape.seal
       /\ tape' \in [state : {"NONE", "OPEN", "SEALED", "BLOCKED"}, count : 0..MaxFrames,
                     head : Seq(Frames), seal : Tape!Seals \cup {None}]
  BY <1>0, <1>2 DEF Tape!Opened, Tape!TypeOK
<1>11. Tape!TypeOK'
  <2>1. \A z \in Symbols : \A i \in 1..Len(bars'[z]) : bars'[z][i].leaf.symbol = z
    <3>. SUFFICES ASSUME NEW z \in Symbols, NEW i \in 1..Len(bars'[z]) PROVE bars'[z][i].leaf.symbol = z
      OBVIOUS
    <3>1. CASE z # y
      BY <3>1, <1>0, <1>8 DEF Tape!TypeOK
    <3>2. CASE z = y /\ i = n
      BY <3>2, <1>6, <1>7, <1>8
    <3>3. CASE z = y /\ i # n
      BY <3>3, <1>0, <1>1, <1>7, <1>8 DEF Tape!TypeOK
    <3>. QED BY <3>1, <3>2, <3>3
  <2>2. (tape'.seal # None) <=> (tape'.state = "SEALED")
    BY <1>0, <1>10 DEF Tape!TypeOK
  <2>3. frames' \in Seq(Tape!FrameRows) /\ Len(frames') <= MaxFrames
    BY <1>0, <1>2 DEF Tape!TypeOK
  <2>. QED BY <1>8, <1>10, <2>1, <2>2, <2>3 DEF Tape!TypeOK, Tape!BarRows, Tape!FrameRows, Tape!Seals
<1>12. BarsChain'
  <2>. SUFFICES ASSUME NEW z \in Symbols, NEW i \in 1..Len(bars'[z])
                PROVE  /\ bars'[z][i].prev = (IF i = 1 THEN None ELSE bars'[z][i - 1].leaf)
                       /\ bars'[z][i].chain = [j \in 1..i |-> bars'[z][j].leaf]
    BY DEF BarsChain
  <2>1. CASE z # y
    BY <2>1, <1>0, <1>8 DEF BarsChain
  <2>2. CASE z = y /\ i = n
    <3>1. bars'[z][i].prev = (IF i = 1 THEN None ELSE bars'[z][i - 1].leaf)
      <4>1. s = <<>> => Len(s) = 0
        OBVIOUS
      <4>2. s # <<>> => Len(s) # 0 /\ n - 1 = Len(s) /\ n # 1
        BY <1>1, <1>5
      <4>. QED BY <2>2, <1>1, <1>5, <1>7, <1>8, <1>9, <4>1, <4>2
    <3>. QED BY <2>2, <3>1, <1>7, <1>8
  <2>3. CASE z = y /\ i # n
    <3>1. i \in 1..Len(s) /\ (i # 1 => i - 1 \in 1..Len(s)) /\ \A j \in 1..i : j \in 1..Len(s)
      BY <2>3, <1>1, <1>7, <1>8
    <3>2. /\ s[i].prev = (IF i = 1 THEN None ELSE s[i - 1].leaf)
          /\ s[i].chain = [j \in 1..i |-> s[j].leaf]
      BY <3>1, <1>0, <1>1 DEF BarsChain
    <3>3. \A j \in 1..Len(s) : bars'[z][j] = s[j]
      BY <2>3, <1>7, <1>8
    <3>4. [j \in 1..i |-> bars'[z][j].leaf] = [j \in 1..i |-> s[j].leaf]
      BY <3>1, <3>3
    <3>. QED BY <3>1, <3>2, <3>3, <3>4
  <2>. QED BY <2>1, <2>2, <2>3
<1>13. BarsEven'
  <2>. SUFFICES ASSUME NEW z \in Symbols, NEW i \in 1..Len(bars'[z]), NEW j \in 1..Len(bars'[z])
                PROVE  bars'[z][j].leaf.open + i = bars'[z][i].leaf.open + j
    BY DEF BarsEven
  <2>1. CASE z # y
    BY <2>1, <1>0, <1>8 DEF BarsEven
  <2>2. CASE z = y
    <3>1. \A k, m \in 1..Len(s) : s[m].leaf.open + k = s[k].leaf.open + m
      BY <1>0, <1>1 DEF BarsEven
    <3>2. \A k \in 1..Len(s) : s[k].leaf.open \in Nat /\ b.open = s[Len(s)].leaf.open + 1
      <4>1. \A k \in 1..Len(s) : s # <<>> /\ s[k] \in Tape!BarRows
        BY <1>1
      <4>. QED BY <4>1, <1>2, <1>4, <1>5
    <3>3. \A k \in 1..Len(s) : b.open + k = s[k].leaf.open + n
      <4>. SUFFICES ASSUME NEW k \in 1..Len(s) PROVE b.open + k = s[k].leaf.open + n
        OBVIOUS
      <4>1. Len(s) \in 1..Len(s) /\ s[Len(s)].leaf.open + k = s[k].leaf.open + Len(s)
        BY <1>1, <3>1
      <4>2. s[Len(s)].leaf.open \in Nat /\ s[k].leaf.open \in Nat /\ b.open = s[Len(s)].leaf.open + 1
        BY <3>2, <4>1
      <4>. DEFINE p == s[k].leaf.open
                  last == s[Len(s)].leaf.open
                  len == Len(s)
      <4>3. last \in Nat /\ p \in Nat /\ len \in Nat /\ k \in Nat /\ last + k = p + len /\ b.open = last + 1
        BY <4>1, <4>2, <1>1
      <4>. HIDE DEF p, last, len
      <4>4. b.open + k = p + (len + 1)
        BY <4>3
      <4>. QED BY <4>4 DEF p, len
    <3>4. CASE i = n /\ j = n
      BY <3>4
    <3>5. CASE i = n /\ j # n
      <4>1. j \in 1..Len(s)
        BY <2>2, <3>5, <1>1, <1>7, <1>8
      <4>. QED BY <2>2, <3>3, <3>5, <4>1, <1>6, <1>7, <1>8
    <3>6. CASE i # n /\ j = n
      <4>1. i \in 1..Len(s)
        BY <2>2, <3>6, <1>1, <1>7, <1>8
      <4>. QED BY <2>2, <3>3, <3>6, <4>1, <1>6, <1>7, <1>8
    <3>7. CASE i # n /\ j # n
      <4>1. i \in 1..Len(s) /\ j \in 1..Len(s)
        BY <2>2, <3>7, <1>1, <1>7, <1>8
      <4>. QED BY <2>2, <3>1, <4>1, <1>7, <1>8
    <3>. QED BY <3>4, <3>5, <3>6, <3>7
  <2>. QED BY <2>1, <2>2
<1>14. FramesChain' /\ FramesOrdered' /\ OneStream' /\ RowOfFrames'
  BY <1>0, <1>2, <1>10 DEF FramesChain, FramesOrdered, OneStream, RowOfFrames, Tape!VerifyOrder
<1>15. SealOfRows'
  BY <1>10 DEF SealOfRows
<1>. QED BY <1>11, <1>12, <1>13, <1>14, <1>15 DEF TapeInv

\* record_book_frame appends to the frames; the guard compares with the last frame
\* of the symbol, and through that with all of them.
LEMMA FrameStep ==
  ASSUME TapeInv, NEW f \in Frames, NEW n, NEW prev, Tape!RecordBookFrame(f, n, prev)
  PROVE  TapeInv'
<1>. DEFINE r == [leaf |-> f, prev |-> prev, chain |-> Append(Tape!Leaves(frames), f)]
<1>0. Tape!TypeOK /\ BarsChain /\ BarsEven /\ FramesChain /\ FramesOrdered /\ OneStream /\ RowOfFrames /\ SealOfRows
  BY DEF TapeInv
<1>1. frames \in Seq(Tape!FrameRows) /\ Len(frames) \in Nat
  BY <1>0 DEF Tape!TypeOK
<1>2. /\ Tape!Opened.state = "OPEN" /\ n = Len(frames) + 1 /\ n <= MaxFrames
      /\ prev = (IF frames = <<>> THEN None ELSE Tape!Last(frames).leaf)
      /\ Tape!InStreamOrder(f) /\ frames' = Append(frames, r)
      /\ tape' = Tape!AfterFrame(f) /\ bars' = bars
  BY DEF Tape!RecordBookFrame
<1>3. \A q \in Tape!FrameRows : q.leaf \in Frames
  BY DEF Tape!FrameRows
<1>4. frames # <<>> => Len(frames) \in 1..Len(frames) /\ Tape!Last(frames) = frames[Len(frames)]
  BY <1>1 DEF Tape!Last
<1>5. r \in Tape!FrameRows /\ r.leaf = f /\ r.prev = prev
  <2>1. Tape!Leaves(frames) \in Seq(Frames)
    <3>1. \A i \in 1..Len(frames) : frames[i].leaf \in Frames
      BY <1>1, <1>3
    <3>. QED BY <1>1, <3>1 DEF Tape!Leaves
  <2>2. Append(Tape!Leaves(frames), f) \in Seq(Frames)
    BY <2>1
  <2>3. prev \in Frames \cup {None}
    BY <1>1, <1>2, <1>3, <1>4
  <2>. QED BY <2>2, <2>3 DEF Tape!FrameRows
<1>6. /\ frames' \in Seq(Tape!FrameRows) /\ Len(frames') = n
      /\ \A i \in 1..Len(frames) : frames'[i] = frames[i]
      /\ frames'[n] = r
      /\ r.chain = [j \in 1..n |-> frames'[j].leaf]
      /\ Append(Tape!Leaves(frames), f) = [j \in 1..n |-> frames'[j].leaf]
      /\ Tape!Leaves(frames) \in Seq(Frames)
  <2>0. Append(Tape!Leaves(frames), r.leaf) = r.chain /\ r.leaf = f
    OBVIOUS
  <2>. HIDE DEF r
  <2>1. AppendedRow(Frames, Tape!FrameRows, frames, r)
    BY <1>1, <1>3, <1>5, LeavesAppend
  <2>. QED BY <1>2, <2>0, <2>1 DEF AppendedRow
<1>. HIDE DEF r
<1>7. n \in Nat /\ n > 0 /\ 1..Len(frames') = 1..n /\ \A i \in 1..n : i # n => i \in 1..Len(frames) /\ i < n
  BY <1>1, <1>2, <1>6
<1>8. /\ tape.state \in {"NONE", "OPEN"} /\ tape'.seal = tape.seal
      /\ tape'.state = (IF f.continuity = "ADMITTED" THEN "OPEN" ELSE "BLOCKED")
      /\ tape'.count = tape.count + 1 /\ tape'.head = Append(Tape!Leaves(frames), f)
  <2>1. tape \in [state : {"NONE", "OPEN", "SEALED", "BLOCKED"}, count : 0..MaxFrames,
                  head : Seq(Frames), seal : Tape!Seals \cup {None}]
    BY <1>0 DEF Tape!TypeOK
  <2>2. /\ Tape!Opened \in [state : {"NONE", "OPEN", "SEALED", "BLOCKED"}, count : 0..MaxFrames,
                            head : Seq(Frames), seal : Tape!Seals \cup {None}]
        /\ tape.state \in {"NONE", "OPEN"} /\ Tape!Opened.seal = tape.seal /\ Tape!Opened.count = tape.count
    BY <1>2, <2>1 DEF Tape!Opened
  <2>. QED BY <1>2, <2>2 DEF Tape!AfterFrame
<1>9. \A i \in 1..Len(frames) :
        frames[i].leaf \in Frames /\ frames[i].leaf.at \in Nat /\ frames[i].leaf.update \in Nat
  <2>1. \A i \in 1..Len(frames) : frames[i].leaf \in Frames
    BY <1>1, <1>3
  <2>. QED BY <2>1, TapeFacts
<1>10. Tape!TypeOK'
  <2>1. tape' \in [state : {"NONE", "OPEN", "SEALED", "BLOCKED"}, count : 0..MaxFrames,
                   head : Seq(Frames), seal : Tape!Seals \cup {None}]
    <3>1. tape.count = Len(frames) /\ tape.seal \in Tape!Seals \cup {None}
      BY <1>0 DEF RowOfFrames, Tape!TypeOK
    <3>2. tape.count + 1 \in 0..MaxFrames
      BY <3>1, <1>2, <1>7, TapeFacts
    <3>3. Append(Tape!Leaves(frames), f) \in Seq(Frames)
      <4>1. Tape!Leaves(frames) \in Seq(Frames)
        BY <1>6
      <4>. QED BY <4>1
    <3>4. tape \in [state : {"NONE", "OPEN", "SEALED", "BLOCKED"}, count : 0..MaxFrames,
                    head : Seq(Frames), seal : Tape!Seals \cup {None}]
      BY <1>0 DEF Tape!TypeOK
    <3>5. /\ Tape!Opened \in [state : {"NONE", "OPEN", "SEALED", "BLOCKED"}, count : 0..MaxFrames,
                             head : Seq(Frames), seal : Tape!Seals \cup {None}]
          /\ Tape!Opened.count = tape.count
      BY <3>4 DEF Tape!Opened
    <3>. QED BY <1>2, <3>2, <3>3, <3>5 DEF Tape!AfterFrame
  <2>2. (tape'.seal # None) <=> (tape'.state = "SEALED")
    BY <1>0, <1>8 DEF Tape!TypeOK
  <2>3. tape'.state # "NONE"
    BY <1>8
  <2>4. /\ bars' \in [Symbols -> Seq(Tape!BarRows)]
        /\ \A z \in Symbols : \A i \in 1..Len(bars'[z]) : bars'[z][i].leaf.symbol = z
    BY <1>0, <1>2 DEF Tape!TypeOK
  <2>. QED BY <1>2, <1>6, <2>1, <2>2, <2>3, <2>4 DEF Tape!TypeOK, Tape!BarRows, Tape!FrameRows, Tape!Seals
<1>11. BarsChain' /\ BarsEven'
  BY <1>0, <1>2 DEF BarsChain, BarsEven
<1>12. FramesChain'
  <2>. SUFFICES ASSUME NEW i \in 1..n
                PROVE  /\ frames'[i].prev = (IF i = 1 THEN None ELSE frames'[i - 1].leaf)
                       /\ frames'[i].chain = [j \in 1..i |-> frames'[j].leaf]
    BY <1>7 DEF FramesChain
  <2>1. CASE i = n
    <3>1. frames = <<>> => Len(frames) = 0
      OBVIOUS
    <3>2. frames # <<>> => n # 1 /\ n - 1 = Len(frames)
      BY <1>1, <1>2, <1>4
    <3>. QED BY <2>1, <3>1, <3>2, <1>1, <1>2, <1>4, <1>5, <1>6
  <2>2. CASE i # n
    <3>1. i \in 1..Len(frames) /\ (i # 1 => i - 1 \in 1..Len(frames)) /\ \A j \in 1..i : j \in 1..Len(frames)
      BY <2>2, <1>1, <1>2
    <3>2. /\ frames[i].prev = (IF i = 1 THEN None ELSE frames[i - 1].leaf)
          /\ frames[i].chain = [j \in 1..i |-> frames[j].leaf]
      BY <3>1, <1>0 DEF FramesChain
    <3>3. [j \in 1..i |-> frames'[j].leaf] = [j \in 1..i |-> frames[j].leaf]
      BY <3>1, <1>6
    <3>. QED BY <3>1, <3>2, <3>3, <1>6
  <2>. QED BY <2>1, <2>2
<1>13. \A i \in Tape!LastOf(f.symbol) : i \in 1..Len(frames) /\ Tape!VerifyOrder(frames[i].leaf, f)
  BY <1>2, <1>9, TapeFacts DEF Tape!InStreamOrder, Tape!VerifyOrder, Tape!LastOf, Tape!SameSymbol
<1>14. FramesOrdered'
  <2>. SUFFICES ASSUME NEW i \in 1..n, NEW j \in 1..n, i < j,
                       frames'[i].leaf.symbol = frames'[j].leaf.symbol,
                       \A m \in (i + 1)..(j - 1) : frames'[m].leaf.symbol # frames'[i].leaf.symbol
                PROVE  Tape!VerifyOrder(frames'[i].leaf, frames'[j].leaf)
    BY <1>7 DEF FramesOrdered, Tape!VerifyOrder
  <2>1. i \in 1..Len(frames) /\ frames'[i] = frames[i]
    BY <1>1, <1>2, <1>6
  <2>2. \A m \in (i + 1)..(j - 1) : m \in 1..Len(frames) /\ frames'[m] = frames[m]
    BY <1>1, <1>2, <1>6
  <2>3. CASE j = n
    <3>1. frames[i].leaf.symbol = f.symbol
      BY <2>1, <2>3, <1>5, <1>6
    <3>2. \A m \in 1..Len(frames) : m > i => m \in (i + 1)..(j - 1)
      BY <2>1, <2>3, <1>1, <1>2
    <3>3. i \in Tape!LastOf(f.symbol)
      <4>1. \A m \in Tape!SameSymbol(f.symbol) : m \in 1..Len(frames) /\ ~(m > i)
        BY <2>1, <2>2, <3>1, <3>2 DEF Tape!SameSymbol
      <4>2. \A m \in Tape!SameSymbol(f.symbol) : m <= i
        BY <4>1, <1>1
      <4>. QED BY <4>2, <2>1, <3>1 DEF Tape!LastOf, Tape!SameSymbol
    <3>. QED BY <3>3, <2>1, <2>3, <1>5, <1>6, <1>13
  <2>4. CASE j # n
    <3>1. j \in 1..Len(frames) /\ frames'[j] = frames[j]
      BY <2>4, <1>6, <1>7
    <3>. QED BY <2>1, <2>2, <3>1, <1>0 DEF FramesOrdered
  <2>. QED BY <2>3, <2>4
<1>15. OneStream'
  <2>. SUFFICES ASSUME f.continuity = "ADMITTED"
                PROVE  /\ \A i \in 1..n : frames'[i].leaf.continuity = "ADMITTED"
                       /\ \A i, j \in 1..n :
                            i < j /\ frames'[i].leaf.symbol = frames'[j].leaf.symbol =>
                              /\ frames'[i].leaf.epoch = frames'[j].leaf.epoch
                              /\ frames'[i].leaf.at <= frames'[j].leaf.at
    BY <1>7, <1>8 DEF OneStream
  <2>1. /\ \A i \in 1..Len(frames) : frames[i].leaf.continuity = "ADMITTED"
        /\ \A i, j \in 1..Len(frames) :
             i < j /\ frames[i].leaf.symbol = frames[j].leaf.symbol =>
               /\ frames[i].leaf.epoch = frames[j].leaf.epoch
               /\ frames[i].leaf.at <= frames[j].leaf.at
    BY <1>0, <1>8 DEF OneStream
  <2>2. \A i \in 1..n : frames'[i].leaf.continuity = "ADMITTED"
    BY <2>1, <1>5, <1>6, <1>7
  <2>3. ASSUME NEW i \in 1..n, NEW j \in 1..n, i < j, frames'[i].leaf.symbol = frames'[j].leaf.symbol
        PROVE  /\ frames'[i].leaf.epoch = frames'[j].leaf.epoch
               /\ frames'[i].leaf.at <= frames'[j].leaf.at
    <3>0. i \in 1..Len(frames) /\ frames'[i] = frames[i]
      BY <2>3, <1>1, <1>2, <1>6
    <3>1. CASE j = n
      <4>1. frames[i].leaf.symbol = f.symbol
        BY <2>3, <3>0, <3>1, <1>5, <1>6
      <4>2. PICK m \in Tape!LastOf(f.symbol) : i <= m
        BY <4>1, <3>0, <1>0, LastExists
      <4>3. /\ m \in 1..Len(frames) /\ frames[m].leaf.symbol = f.symbol
            /\ Tape!VerifyOrder(frames[m].leaf, f)
        BY <4>2, <1>13 DEF Tape!LastOf, Tape!SameSymbol
      <4>4. f.epoch = frames[m].leaf.epoch /\ f.at >= frames[m].leaf.at
        BY <4>3 DEF Tape!VerifyOrder
      <4>5. frames[i].leaf.epoch = frames[m].leaf.epoch /\ frames[i].leaf.at <= frames[m].leaf.at
        <5>1. CASE i = m
          BY <5>1, <3>0, <1>9
        <5>2. CASE i # m
          <6>1. i < m
            BY <5>2, <4>2, <4>3, <3>0, <1>1
          <6>. QED BY <6>1, <2>1, <3>0, <4>1, <4>3
        <5>. QED BY <5>1, <5>2
      <4>6. frames[i].leaf.at <= f.at
        BY <4>3, <4>4, <4>5, <3>0, <1>9, TapeFacts
      <4>. QED BY <4>4, <4>5, <4>6, <3>0, <3>1, <1>5, <1>6
    <3>2. CASE j # n
      <4>1. j \in 1..Len(frames) /\ frames'[j] = frames[j]
        BY <3>2, <1>6, <1>7
      <4>. QED BY <2>1, <2>3, <3>0, <4>1
    <3>. QED BY <3>1, <3>2
  <2>. QED BY <2>2, <2>3
<1>16. RowOfFrames'
  BY <1>0, <1>2, <1>6, <1>8 DEF RowOfFrames
<1>17. SealOfRows'
  BY <1>8 DEF SealOfRows
<1>. QED BY <1>10, <1>11, <1>12, <1>14, <1>15, <1>16, <1>17 DEF TapeInv

\* seal_tape copies the chains; the rows stay.
LEMMA SealStep ==
  ASSUME TapeInv, Tape!SealTape
  PROVE  TapeInv'
<1>. DEFINE b == [s \in Symbols |-> [count |-> Len(bars[s]), head |-> Tape!Leaves(bars[s])]]
            k == [count |-> Len(frames), head |-> Tape!Leaves(frames)]
<1>0. Tape!TypeOK /\ BarsChain /\ BarsEven /\ FramesChain /\ FramesOrdered /\ OneStream /\ RowOfFrames /\ SealOfRows
  BY DEF TapeInv
<1>1. /\ tape.state = "OPEN" /\ bars' = bars /\ frames' = frames
      /\ tape' = [tape EXCEPT !.state = "SEALED", !.seal = [bars |-> b, book |-> k]]
      /\ \A s \in Symbols : bars[s] # <<>> /\ \E i \in 1..Len(frames) : frames[i].leaf.symbol = s
  BY DEF Tape!SealTape, Tape!Sealable
<1>2. b \in [Symbols -> [count : Nat, head : Seq(Bars)]]
  <2>. SUFFICES ASSUME NEW s \in Symbols
                PROVE  Len(bars[s]) \in Nat /\ Tape!Leaves(bars[s]) \in Seq(Bars)
    OBVIOUS
  <2>1. bars[s] \in Seq(Tape!BarRows)
    BY <1>0 DEF Tape!TypeOK
  <2>2. \A i \in 1..Len(bars[s]) : bars[s][i].leaf \in Bars
    <3>1. \A q \in Tape!BarRows : q.leaf \in Bars
      BY DEF Tape!BarRows
    <3>. QED BY <2>1, <3>1
  <2>. QED BY <2>1, <2>2 DEF Tape!Leaves
<1>3. k \in [count : Nat, head : Seq(Frames)]
  <2>1. frames \in Seq(Tape!FrameRows)
    BY <1>0 DEF Tape!TypeOK
  <2>2. \A i \in 1..Len(frames) : frames[i].leaf \in Frames
    <3>1. \A q \in Tape!FrameRows : q.leaf \in Frames
      BY DEF Tape!FrameRows
    <3>. QED BY <2>1, <3>1
  <2>. QED BY <2>1, <2>2 DEF Tape!Leaves
<1>4. /\ b = [s \in Symbols |-> [count |-> Len(bars[s]), head |-> [i \in 1..Len(bars[s]) |-> bars[s][i].leaf]]]
      /\ k = [count |-> Len(frames), head |-> [i \in 1..Len(frames) |-> frames[i].leaf]]
  BY DEF Tape!Leaves
<1>. HIDE DEF b, k
<1>5. [bars |-> b, book |-> k] \in Tape!Seals
  BY <1>2, <1>3 DEF Tape!Seals
<1>6. /\ tape'.state = "SEALED" /\ tape'.seal = [bars |-> b, book |-> k]
      /\ tape'.count = tape.count /\ tape'.head = tape.head
      /\ tape' \in [state : {"NONE", "OPEN", "SEALED", "BLOCKED"}, count : 0..MaxFrames,
                    head : Seq(Frames), seal : Tape!Seals \cup {None}]
  BY <1>0, <1>1, <1>5 DEF Tape!TypeOK
<1>7. Tape!TypeOK'
  <2>1. tape'.seal # None
    BY <1>5, <1>6, TapeFacts
  <2>. QED BY <1>0, <1>1, <1>6, <2>1 DEF Tape!TypeOK, Tape!BarRows, Tape!FrameRows, Tape!Seals
<1>8. BarsChain' /\ BarsEven' /\ FramesChain' /\ FramesOrdered' /\ RowOfFrames'
  BY <1>0, <1>1, <1>6 DEF BarsChain, BarsEven, FramesChain, FramesOrdered, RowOfFrames, Tape!VerifyOrder
<1>9. OneStream'
  BY <1>0, <1>1, <1>6 DEF OneStream
<1>10. SealOfRows'
  <2>1. Tape!VerifySeal'
    BY <1>1, <1>4, <1>6 DEF Tape!VerifySeal
  <2>2. \A s \in Symbols : bars'[s] # <<>> /\ (Tape!SameSymbol(s) # {})'
    BY <1>1 DEF Tape!SameSymbol
  <2>. QED BY <2>1, <2>2 DEF SealOfRows
<1>. QED BY <1>7, <1>8, <1>9, <1>10 DEF TapeInv

\* Every step of the tape, and every step that leaves it alone, keeps the invariant.
LEMMA TapeStep == TapeInv /\ [Tape!Next]_tapeVars => TapeInv'
<1>. SUFFICES ASSUME TapeInv, [Tape!Next]_tapeVars PROVE TapeInv'
  OBVIOUS
<1>1. ASSUME NEW b \in Bars, Tape!RecordClosedBar(b) PROVE TapeInv'
  BY <1>1, BarStep
<1>2. ASSUME NEW f \in Frames, NEW n \in 1..MaxFrames, NEW prev \in {None} \cup Frames, Tape!RecordBookFrame(f, n, prev)
      PROVE  TapeInv'
  BY <1>2, FrameStep
<1>3. CASE Tape!SealTape
  BY <1>3, SealStep
<1>4. CASE UNCHANGED tapeVars
  <2>1. tape' = tape /\ bars' = bars /\ frames' = frames
    BY <1>4 DEF tapeVars
  <2>2. Tape!TypeOK'
    BY <2>1 DEF TapeInv, Tape!TypeOK, Tape!BarRows, Tape!FrameRows, Tape!Seals
  <2>3. BarsChain' /\ BarsEven'
    BY <2>1 DEF TapeInv, BarsChain, BarsEven
  <2>4. FramesChain' /\ FramesOrdered'
    BY <2>1 DEF TapeInv, FramesChain, FramesOrdered, Tape!VerifyOrder
  <2>5. OneStream' /\ RowOfFrames' /\ SealOfRows'
    BY <2>1 DEF TapeInv, OneStream, RowOfFrames, SealOfRows, Tape!VerifySeal, Tape!SameSymbol
  <2>. QED BY <2>2, <2>3, <2>4, <2>5 DEF TapeInv
<1>. QED BY <1>1, <1>2, <1>3, <1>4 DEF Tape!Next

\* verify_tape accepts the rows.
LEMMA InvVerifies == TapeInv => Tape!TapeVerifies
<1>. SUFFICES ASSUME TapeInv PROVE Tape!VerifyTape
  BY DEF Tape!TapeVerifies
<1>0. Tape!TypeOK /\ BarsChain /\ BarsEven /\ FramesChain /\ FramesOrdered /\ RowOfFrames /\ SealOfRows
  BY DEF TapeInv
<1>1. Tape!VerifyBars
  <2>. SUFFICES ASSUME NEW s \in Symbols, NEW i \in 1..Len(bars[s])
                PROVE  /\ bars[s][i].prev = (IF i = 1 THEN None ELSE bars[s][i - 1].leaf)
                       /\ i > 1 => bars[s][i].leaf.open = bars[s][i - 1].leaf.open + 1
                       /\ bars[s][i].chain = [j \in 1..i |-> bars[s][j].leaf]
    BY DEF Tape!VerifyBars
  <2>1. ASSUME i > 1 PROVE bars[s][i].leaf.open = bars[s][i - 1].leaf.open + 1
    <3>1. i \in Nat /\ i - 1 \in 1..Len(bars[s])
      BY <2>1, <1>0 DEF Tape!TypeOK
    <3>2. bars[s] \in Seq(Tape!BarRows) /\ \A q \in Tape!BarRows : q.leaf.open \in Nat
      BY <1>0, TapeFacts DEF Tape!TypeOK, Tape!BarRows
    <3>3. bars[s][i].leaf.open \in Nat /\ bars[s][i - 1].leaf.open \in Nat
      BY <3>1, <3>2
    <3>4. bars[s][i].leaf.open + (i - 1) = bars[s][i - 1].leaf.open + i
      BY <3>1, <1>0 DEF BarsEven
    <3>. DEFINE p == bars[s][i].leaf.open
                q == bars[s][i - 1].leaf.open
    <3>5. p \in Nat /\ q \in Nat /\ p + (i - 1) = q + i
      BY <3>3, <3>4
    <3>. HIDE DEF p, q
    <3>6. p = q + 1
      BY <3>1, <3>5
    <3>. QED BY <3>6 DEF p, q
  <2>. QED BY <2>1, <1>0 DEF BarsChain
<1>2. Tape!VerifyFrames
  BY <1>0 DEF Tape!VerifyFrames, FramesChain, FramesOrdered
<1>. QED BY <1>0, <1>1, <1>2 DEF Tape!VerifyTape, RowOfFrames, SealOfRows

\* A sealed tape has no barrier, since none was stored.
LEMMA InvUnbroken == TapeInv => Tape!SealedIsUnbroken
<1>. SUFFICES ASSUME TapeInv, tape.state = "SEALED"
              PROVE  /\ \A i \in 1..Len(frames) : frames[i].leaf.continuity = "ADMITTED"
                     /\ \A i, j \in 1..Len(frames) :
                          frames[i].leaf.symbol = frames[j].leaf.symbol => frames[i].leaf.epoch = frames[j].leaf.epoch
                     /\ \A s \in Symbols : bars[s] # <<>> /\ Tape!SameSymbol(s) # {}
  BY DEF Tape!SealedIsUnbroken
<1>1. OneStream /\ SealOfRows /\ Len(frames) \in Nat
  BY DEF TapeInv, Tape!TypeOK
<1>2. ASSUME NEW i \in 1..Len(frames), NEW j \in 1..Len(frames), frames[i].leaf.symbol = frames[j].leaf.symbol
      PROVE  frames[i].leaf.epoch = frames[j].leaf.epoch
  <2>1. i < j \/ j < i \/ i = j
    BY <1>1
  <2>. QED BY <1>1, <1>2, <2>1 DEF OneStream
<1>. QED BY <1>1, <1>2 DEF OneStream, SealOfRows

\* The frame a replay takes is the last candidate: clocks rise along a stream.
LEMMA InvReplay == TapeInv => Tape!ReplayFollowsTape
<1>. SUFFICES ASSUME TapeInv, tape.state = "SEALED", NEW s \in Symbols, NEW t \in {f.at : f \in Frames},
                     NEW i, i = Tape!LatestBookFrame(s, t)
              PROVE  IF i = None THEN Tape!Candidates(s, t) = {}
                     ELSE \A j \in 1..Len(frames) : j > i /\ frames[j].leaf.symbol = s => frames[j].leaf.at > t
  BY DEF Tape!ReplayFollowsTape
<1>. DEFINE C == Tape!Candidates(s, t)
            Best(k) == \A j \in C : \/ frames[j].leaf.at < frames[k].leaf.at
                                    \/ frames[j].leaf.at = frames[k].leaf.at /\ j <= k
<1>1. CASE C = {}
  BY <1>1 DEF Tape!LatestBookFrame
<1>2. CASE C # {}
  <2>0. Len(frames) \in Nat /\ frames \in Seq(Tape!FrameRows) /\ OneStream
    BY DEF TapeInv, Tape!TypeOK
  <2>1. C \in SUBSET (1..Len(frames)) /\ C \in SUBSET Nat
    BY DEF Tape!Candidates
  <2>2. \A j \in 1..Len(frames) : frames[j].leaf.at \in Nat
    <3>1. \A q \in Tape!FrameRows : q.leaf.at \in Nat
      BY TapeFacts DEF Tape!FrameRows
    <3>. QED BY <2>0, <3>1
  <2>3. t \in Nat
    BY TapeFacts
  <2>4. PICK g \in C : \A m \in C : m <= g
    <3>. HIDE DEF C
    <3>1. \A m \in C : m <= Len(frames)
      BY <2>0, <2>1
    <3>. QED BY <1>2, <2>0, <2>1, <3>1, GreatestNatural
  <2>5. \A j \in C : frames[j].leaf.symbol = s
    BY DEF Tape!Candidates
  <2>6. \A k, j \in C : j <= k => frames[j].leaf.at <= frames[k].leaf.at
    <3>. SUFFICES ASSUME NEW k \in C, NEW j \in C, j <= k PROVE frames[j].leaf.at <= frames[k].leaf.at
      OBVIOUS
    <3>1. CASE j = k
      BY <3>1, <2>1, <2>2
    <3>2. CASE j # k
      <4>1. j < k /\ j \in 1..Len(frames) /\ k \in 1..Len(frames)
        BY <3>2, <2>1
      <4>. QED BY <4>1, <2>0, <2>5 DEF OneStream
    <3>. QED BY <3>1, <3>2
  <2>7. Best(g)
    <3>. SUFFICES ASSUME NEW j \in C
                  PROVE  \/ frames[j].leaf.at < frames[g].leaf.at
                         \/ frames[j].leaf.at = frames[g].leaf.at /\ j <= g
      OBVIOUS
    <3>1. j <= g /\ frames[j].leaf.at <= frames[g].leaf.at /\ frames[j].leaf.at \in Nat /\ frames[g].leaf.at \in Nat
      BY <2>1, <2>2, <2>4, <2>6
    <3>. QED BY <3>1
  <2>8. i = CHOOSE k \in C : Best(k)
    BY <1>2, Zenon DEF Tape!LatestBookFrame
  <2>9. i \in C /\ Best(i)
    <3>. HIDE DEF C, Best
    <3>. QED BY <2>4, <2>7, <2>8
  <2>10. i = g
    <3>1. i <= g /\ frames[i].leaf.at <= frames[g].leaf.at /\ frames[i].leaf.at \in Nat /\ frames[g].leaf.at \in Nat
      BY <2>1, <2>2, <2>4, <2>6, <2>9
    <3>2. g <= i
      BY <3>1, <2>4, <2>9
    <3>. QED BY <3>1, <3>2, <2>1, <2>4, <2>9
  <2>11. i # None
    BY <2>1, <2>9, TapeFacts
  <2>12. ASSUME NEW j \in 1..Len(frames), j > i, frames[j].leaf.symbol = s PROVE frames[j].leaf.at > t
    <3>1. j \notin C
      <4>. HIDE DEF C
      <4>. QED BY <2>1, <2>4, <2>10, <2>12
    <3>2. frames[j].leaf.continuity = "ADMITTED"
      BY <2>0 DEF OneStream
    <3>3. ~(frames[j].leaf.at <= t)
      BY <3>1, <3>2, <2>12 DEF Tape!Candidates
    <3>. QED BY <3>3, <2>2, <2>3
  <2>. QED BY <2>11, <2>12
<1>. QED BY <1>1, <1>2

\* A page goes on where the one before ended: minutes are as far apart as places.
LEMMA InvPages == TapeInv => Tape!PagesCoverTape
<1>. SUFFICES ASSUME TapeInv, NEW s \in Symbols, NEW i \in 0..Len(bars[s]), NEW limit \in 1..(Len(bars[s]) + 1)
              PROVE  Tape!ClosedBarPage(s, IF i = 0 THEN None ELSE bars[s][i].leaf.open, limit)
                       = {j \in 1..Len(bars[s]) : i < j /\ j <= i + limit}
  BY DEF Tape!PagesCoverTape
<1>. DEFINE n == Len(bars[s])
            open == [k \in 1..n |-> bars[s][k].leaf.open]
            after == IF i = 0 THEN None ELSE bars[s][i].leaf.open
            found == {k \in 1..n : after # None => open[k] > after}
            upTo(k) == {j \in found : open[j] <= open[k]}
<1>1. n \in Nat /\ \A k \in 1..n : open[k] \in Nat
  <2>1. bars[s] \in Seq(Tape!BarRows) /\ \A q \in Tape!BarRows : q.leaf.open \in Nat
    BY TapeFacts DEF TapeInv, Tape!TypeOK, Tape!BarRows
  <2>2. n \in Nat /\ \A k \in 1..n : bars[s][k] \in Tape!BarRows
    BY <2>1
  <2>. QED BY <2>1, <2>2
<1>2. \A k, m \in 1..n : open[m] + k = open[k] + m
  BY DEF TapeInv, BarsEven
<1>3. i # 0 => i \in 1..n /\ after = open[i]
  BY <1>1
<1>4. i = 0 => after = None
  OBVIOUS
<1>5. Tape!ClosedBarPage(s, after, limit) = {k \in found : Tape!Cardinality(upTo(k)) <= limit}
  BY Zenon DEF Tape!ClosedBarPage
<1>. HIDE DEF open, after
<1>6. \A k, m \in 1..n : (open[m] <= open[k]) <=> (m <= k)
  <2>. SUFFICES ASSUME NEW k \in 1..n, NEW m \in 1..n PROVE (open[m] <= open[k]) <=> (m <= k)
    OBVIOUS
  <2>1. open[m] \in Nat /\ open[k] \in Nat /\ open[m] + k = open[k] + m
    BY <1>1, <1>2
  <2>. QED BY <2>1, <1>1
<1>7. found = (i + 1)..n
  <2>1. CASE i = 0
    BY <2>1, <1>1, <1>4
  <2>2. CASE i # 0
    <3>1. i \in 1..n /\ after = open[i] /\ after \in Nat /\ after # None
      BY <2>2, <1>1, <1>3, TapeFacts
    <3>2. \A k \in 1..n : (open[k] > after) <=> (k > i)
      <4>. SUFFICES ASSUME NEW k \in 1..n PROVE (open[k] > after) <=> (k > i)
        OBVIOUS
      <4>1. (open[k] <= open[i]) <=> (k <= i)
        BY <3>1, <1>6
      <4>2. open[k] \in Nat /\ open[i] \in Nat /\ k \in Nat /\ i \in Nat
        BY <3>1, <1>1
      <4>. QED BY <4>1, <4>2, <3>1
    <3>3. found = {k \in 1..n : k > i}
      BY <3>1, <3>2
    <3>. QED BY <3>1, <3>3, <1>1
  <2>. QED BY <2>1, <2>2
<1>. HIDE DEF found
<1>8. \A k \in found : Tape!Cardinality(upTo(k)) = k - i
  <2>. SUFFICES ASSUME NEW k \in found PROVE Tape!Cardinality(upTo(k)) = k - i
    OBVIOUS
  <2>0. i \in Nat /\ k \in Nat /\ k >= i + 1 /\ k \in 1..n
    BY <1>1, <1>7
  <2>1. upTo(k) = (i + 1)..k
    <3>1. \A j \in found : j \in 1..n
      BY <1>1, <1>7
    <3>2. upTo(k) = {j \in found : j <= k}
      BY <3>1, <2>0, <1>6
    <3>. QED BY <3>2, <2>0, <1>1, <1>7
  <2>2. Cardinality((i + 1)..k) = k - i
    <3>1. i + 1 \in Int /\ k \in Int
      BY <2>0
    <3>2. Cardinality((i + 1)..k) = IF i + 1 > k THEN 0 ELSE k - (i + 1) + 1
      BY <3>1, FS_Interval
    <3>. QED BY <3>2, <2>0
  <2>3. Tape!Cardinality((i + 1)..k) = Cardinality((i + 1)..k)
    BY Zenon DEF Tape!Cardinality, Cardinality
  <2>. QED BY <2>1, <2>2, <2>3
<1>9. Tape!ClosedBarPage(s, after, limit) = {k \in found : k - i <= limit}
  BY <1>5, <1>8
<1>10. {k \in found : k - i <= limit} = {j \in 1..n : i < j /\ j <= i + limit}
  BY <1>1, <1>7
<1>. QED BY <1>9, <1>10 DEF after

\* Only the tape's part of a behaviour changes its rows.
LEMMA TapeInvariant == Spec => []TapeInv
<1>1. Init => TapeInv
  BY TapeInit DEF Init
<1>2. TapeInv /\ [Next]_vars => TapeInv'
  <2>1. [Next]_vars => [Tape!Next]_tapeVars
    BY DEF Next, TapeNext, SimNext, CampaignNext, vars, tapeVars
  <2>. QED BY <2>1, TapeStep
<1>. QED BY <1>1, <1>2, PTL DEF Spec

\* What the recorders store is sound: verify_tape accepts it, pages cover it, and a
\* replay of a sealed tape sees one unbroken recording.
THEOREM TapeSound == Spec => []TapeIsSound
<1>1. TapeInv => TapeIsSound
  BY InvVerifies, InvUnbroken, InvReplay, InvPages DEF TapeIsSound, Tape!TapeIsSound
<1>. QED BY <1>1, TapeInvariant, PTL

-----------------------------------------------------------------------------
(***************************************************************************)
(* SimulationJournal.  No event leaves a terminal state: the kernel makes  *)
(* none, so none is in a call and none in a log.  That is why a trade with *)
(* a result stays where it ended, whatever calls are still under way.      *)
(***************************************************************************)
\* A trade and its journal.
SimRow(p, row) ==
  /\ row \in Sim(p)!TradeRows /\ Sim(p)!VerifyTradeChain(row)
  /\ \A i \in 1..Len(row.log) : row.log[i].from \notin Sim(p)!Terminal

\* A call that is prepared or under way, over trades tr and commands cm: its events
\* name its own command, or one that is complete.
SimCall(p, call, tr, cm) ==
  /\ call \in Sim(p)!Calls /\ tr[call.trade] # None
  /\ call.cmd # None => call.trade = Sims[p].tradeOf[call.cmd] /\ cm[call.cmd] # "NONE"
  /\ call.evs # None => \A i \in 1..Len(call.evs) :
       /\ call.evs[i].from \notin Sim(p)!Terminal
       /\ call.evs[i].cmd # None => call.evs[i].cmd = call.cmd \/ cm[call.evs[i].cmd] = "COMPLETED"

\* A journal that went on.
Extends(row, new) ==
  Len(row.log) <= Len(new.log) /\ \A i \in 1..Len(row.log) : new.log[i] = row.log[i]

\* What the events evs, none of them from a terminal state, make of a journal.
Taken(p, row, evs, new) ==
  /\ SimRow(p, new) /\ Extends(row, new)
  /\ \A i \in 1..Len(evs) : evs[i] \in Sim(p)!ToSet(new.log)
  /\ \A e \in Sim(p)!ToSet(new.log) : e \in Sim(p)!ToSet(row.log) \/ \E i \in 1..Len(evs) : e = evs[i]
  /\ row.state \in Sim(p)!Terminal => new = row

\* What the assumption says of a session.
LEMMA SimFacts ==
  ASSUME NEW p \in SimParts
  PROVE  /\ Sims[p].tradeOf \in [Sims[p].commands -> Sims[p].trades]
         /\ Sims[p].moves \subseteq {"PENDING", "ACTIVE"} \X Sim(p)!States
         /\ Sims[p].maxCrashes \in Nat
         /\ None \notin Sim(p)!States /\ None \notin Sims[p].commands /\ None \notin Sim(p)!EventIds
         /\ None \notin Seq(Sim(p)!Events)
         /\ None \notin Sim(p)!TradeRows /\ None \notin Sim(p)!Receipts /\ None \notin Sim(p)!Calls
  BY ResearchConstants DEF Sim!JournalConstants

\* The identity of an event is one.
LEMMA IdOfEvent ==
  ASSUME NEW p \in SimParts, NEW e \in Sim(p)!Events
  PROVE  Sim(p)!EventId(e) \in Sim(p)!EventIds
<1>1. e.prev \in Seq(Sim(p)!States \X (Sims[p].commands \cup {None}))
      /\ <<e.to, e.cmd>> \in Sim(p)!States \X (Sims[p].commands \cup {None})
  BY DEF Sim!Events, Sim!EventIds
<1>. QED BY <1>1 DEF Sim!EventId, Sim!EventIds

\* _append_trade_event_locked keeps the chain, extends it by at most this event, and
\* does not move a trade that has ended.
LEMMA AppendOne ==
  ASSUME NEW p \in SimParts, NEW row, SimRow(p, row), NEW e \in Sim(p)!Events,
         e.from \notin Sim(p)!Terminal, Sim(p)!Appended(row, e) # None
  PROVE  /\ SimRow(p, Sim(p)!Appended(row, e)) /\ Extends(row, Sim(p)!Appended(row, e))
         /\ e \in Sim(p)!ToSet(Sim(p)!Appended(row, e).log)
         /\ \A x \in Sim(p)!ToSet(Sim(p)!Appended(row, e).log) : x \in Sim(p)!ToSet(row.log) \/ x = e
         /\ row.state \in Sim(p)!Terminal => Sim(p)!Appended(row, e) = row
<1>. DEFINE new == [state |-> e.to, next |-> row.next + 1, count |-> row.count + 1,
                    head |-> Sim(p)!EventId(e), log |-> Append(row.log, e)]
<1>0. row \in Sim(p)!TradeRows /\ row # None
  BY SimFacts DEF SimRow
<1>1. /\ row.state \in Sim(p)!States /\ row.next \in Nat /\ row.count \in Nat /\ row.head \in Sim(p)!EventIds
      /\ row.log \in Seq(Sim(p)!Events) /\ Len(row.log) \in Nat
  BY <1>0 DEF Sim!TradeRows
<1>2. CASE e \in Sim(p)!ToSet(row.log)
  <2>1. Sim(p)!Appended(row, e) = row
    BY <1>0, <1>2 DEF Sim!Appended
  <2>. QED BY <1>1, <1>2, <2>1 DEF Extends
<1>3. CASE e \notin Sim(p)!ToSet(row.log)
  <2>1. Sim(p)!Fits(row, e) /\ Sim(p)!Appended(row, e) = new
    BY <1>0, <1>3 DEF Sim!Appended
  <2>2. /\ e.seq = row.next /\ e.prev = row.head
        /\ IF e.seq = 1 THEN e.from = None /\ e.to = row.state ELSE e.from = row.state
    BY <2>1 DEF Sim!Fits
  <2>. DEFINE n == Len(row.log) + 1
              log == Append(row.log, e)
  <2>3. /\ log \in Seq(Sim(p)!Events) /\ Len(log) = n /\ n \in Nat /\ n > 0
        /\ \A i \in 1..Len(row.log) : log[i] = row.log[i]
        /\ log[n] = e
    BY <1>1
  <2>4. \A i \in 1..n : i # n => i \in 1..Len(row.log) /\ (i # 1 => i - 1 \in 1..Len(row.log))
    BY <1>1
  <2>5. e.to \in Sim(p)!States
    BY DEF Sim!Events
  <2>6. new \in Sim(p)!TradeRows
    <3>1. Sim(p)!EventId(e) \in Sim(p)!EventIds
      BY IdOfEvent
    <3>. HIDE DEF log
    <3>2. new = [state |-> e.to, next |-> row.next + 1, count |-> row.count + 1,
                 head |-> Sim(p)!EventId(e), log |-> log]
      BY DEF log
    <3>. QED BY <3>1, <3>2, <1>1, <2>3, <2>5 DEF Sim!TradeRows
  <2>7. new.log = log /\ new.state = e.to /\ new.next = row.next + 1 /\ new.count = row.count + 1
        /\ new.head = Sim(p)!EventId(e)
    OBVIOUS
  <2>. HIDE DEF new, log
  <2>8. /\ \A i \in 1..Len(row.log) :
             /\ row.log[i].seq = i /\ row.log[i].prev = (IF i = 1 THEN <<>> ELSE Sim(p)!EventId(row.log[i - 1]))
             /\ IF i = 1 THEN row.log[i].from = None /\ row.log[i].to = "PENDING"
                         ELSE row.log[i].from = row.log[i - 1].to
        /\ row.state = (IF row.log = <<>> THEN "PENDING" ELSE row.log[Len(row.log)].to)
        /\ row.next = Len(row.log) + 1 /\ row.count = Len(row.log)
        /\ row.head = (IF row.log = <<>> THEN <<>> ELSE Sim(p)!EventId(row.log[Len(row.log)]))
    BY DEF SimRow, Sim!VerifyTradeChain, Sim!Last
  <2>9. row.log = <<>> <=> n = 1
    BY <1>1
  <2>10. /\ e.seq = n /\ e.prev = (IF n = 1 THEN <<>> ELSE Sim(p)!EventId(log[n - 1]))
         /\ IF n = 1 THEN e.from = None /\ e.to = "PENDING" ELSE e.from = log[n - 1].to
    <3>1. CASE n = 1
      BY <3>1, <2>2, <2>8, <2>9
    <3>2. CASE n # 1
      <4>1. n - 1 = Len(row.log) /\ Len(row.log) \in 1..Len(row.log)
        BY <3>2, <1>1
      <4>. QED BY <3>2, <4>1, <2>2, <2>3, <2>8, <2>9
    <3>. QED BY <3>1, <3>2
  <2>11. \A i \in 1..n :
           /\ log[i].seq = i /\ log[i].prev = (IF i = 1 THEN <<>> ELSE Sim(p)!EventId(log[i - 1]))
           /\ IF i = 1 THEN log[i].from = None /\ log[i].to = "PENDING" ELSE log[i].from = log[i - 1].to
    <3>. SUFFICES ASSUME NEW i \in 1..n
                  PROVE  /\ log[i].seq = i /\ log[i].prev = (IF i = 1 THEN <<>> ELSE Sim(p)!EventId(log[i - 1]))
                         /\ IF i = 1 THEN log[i].from = None /\ log[i].to = "PENDING" ELSE log[i].from = log[i - 1].to
      OBVIOUS
    <3>1. CASE i = n
      BY <3>1, <2>3, <2>10
    <3>2. CASE i # n
      BY <3>2, <2>3, <2>4, <2>8
    <3>. QED BY <3>1, <3>2
  <2>12. Sim(p)!VerifyTradeChain(new)
    <3>1. log # <<>>
      BY <2>3
    <3>. QED BY <3>1, <2>3, <2>7, <2>8, <2>11 DEF Sim!VerifyTradeChain, Sim!Last
  <2>13. \A i \in 1..n : log[i].from \notin Sim(p)!Terminal
    BY <2>3, <2>4 DEF SimRow
  <2>14. SimRow(p, new) /\ Extends(row, new)
    BY <1>1, <2>3, <2>6, <2>7, <2>12, <2>13 DEF SimRow, Extends
  <2>15. e \in Sim(p)!ToSet(log) /\ \A x \in Sim(p)!ToSet(log) : x \in Sim(p)!ToSet(row.log) \/ x = e
    BY <2>3, <2>4 DEF Sim!ToSet
  <2>16. row.state \notin Sim(p)!Terminal
    <3>1. CASE n = 1
      BY <3>1, <2>8, <2>9 DEF Sim!Terminal
    <3>2. CASE n # 1
      BY <3>2, <2>2, <2>10
    <3>. QED BY <3>1, <3>2
  <2>. QED BY <2>1, <2>7, <2>14, <2>15, <2>16
<1>. QED BY <1>2, <1>3

\* The equation of the rows after n of the events.
AfterEq(p, row, evs, n, g) ==
  g = [k \in 0..n |-> IF k = 0 THEN row ELSE Sim(p)!Appended(g[k - 1], evs[k])]

\* It has a solution for every n: the least n without one would have.
LEMMA AfterExists ==
  ASSUME NEW p, NEW row, NEW evs, NEW n \in Nat
  PROVE  \E g : AfterEq(p, row, evs, n, g)
<1>. DEFINE Bad == {m \in Nat : ~\E g : AfterEq(p, row, evs, m, g)}
<1>. SUFFICES ASSUME Bad # {} PROVE FALSE
  OBVIOUS
<1>1. PICK m \in Bad : \A k \in Bad : m <= k
  <2>1. Bad \in SUBSET Nat
    OBVIOUS
  <2>. HIDE DEF Bad
  <2>. QED BY <2>1, LeastNatural
<1>2. CASE m = 0
  <2>1. AfterEq(p, row, evs, 0, [k \in 0..0 |-> row])
    BY DEF AfterEq
  <2>. QED BY <1>2, <2>1
<1>3. CASE m # 0
  <2>1. m \in Nat /\ m - 1 \in Nat /\ m - 1 \notin Bad
    BY <1>1, <1>3
  <2>2. PICK g : AfterEq(p, row, evs, m - 1, g)
    BY <2>1
  <2>3. \A k \in 0..(m - 1) : g[k] = IF k = 0 THEN row ELSE Sim(p)!Appended(g[k - 1], evs[k])
    <3>1. g = [k \in 0..(m - 1) |-> IF k = 0 THEN row ELSE Sim(p)!Appended(g[k - 1], evs[k])]
      BY <2>2 DEF AfterEq
    <3>. QED BY <3>1, Zenon
  <2>. DEFINE h == [k \in 0..m |-> IF k = m THEN Sim(p)!Appended(g[m - 1], evs[m]) ELSE g[k]]
  <2>4. \A k \in 0..m : h[k] = IF k = 0 THEN row ELSE Sim(p)!Appended(h[k - 1], evs[k])
    <3>. SUFFICES ASSUME NEW k \in 0..m
                  PROVE  h[k] = IF k = 0 THEN row ELSE Sim(p)!Appended(h[k - 1], evs[k])
      OBVIOUS
    <3>1. CASE k = m
      <4>1. m - 1 \in 0..m /\ m - 1 # m
        BY <2>1
      <4>2. h[m - 1] = g[m - 1]
        BY <4>1
      <4>. QED BY <3>1, <4>2, <1>3
    <3>2. CASE k # m
      <4>1. k \in 0..(m - 1) /\ (k # 0 => k - 1 \in 0..m /\ k - 1 # m)
        BY <3>2, <2>1
      <4>2. h[k] = g[k] /\ (k # 0 => h[k - 1] = g[k - 1])
        BY <3>2, <4>1
      <4>. QED BY <4>1, <4>2, <2>3
    <3>. QED BY <3>1, <3>2
  <2>5. h = [k \in 0..m |-> h[k]]
    BY Zenon
  <2>. HIDE DEF h
  <2>6. AfterEq(p, row, evs, m, h)
    BY <2>4, <2>5 DEF AfterEq
  <2>. QED BY <2>6
<1>. QED BY <1>2, <1>3

\* The events of a call are all in the journal afterwards, and nothing else is new.
LEMMA AppendAll ==
  ASSUME NEW p \in SimParts, NEW row, SimRow(p, row), NEW evs \in Seq(Sim(p)!Events),
         \A i \in 1..Len(evs) : evs[i].from \notin Sim(p)!Terminal,
         Sim(p)!AppendedAll(row, evs) # None
  PROVE  Taken(p, row, evs, Sim(p)!AppendedAll(row, evs))
<1>. DEFINE N == Len(evs)
            g == CHOOSE g : AfterEq(p, row, evs, N, g)
<1>0. N \in Nat /\ \A i \in 1..N : evs[i] \in Sim(p)!Events
  OBVIOUS
<1>1. AfterEq(p, row, evs, N, g)
  BY <1>0, AfterExists
<1>2. Sim(p)!AppendedAll(row, evs) = g[N]
  BY Zenon DEF Sim!AppendedAll, AfterEq
<1>. HIDE DEF g
<1>3. \A k \in 0..N : g[k] = IF k = 0 THEN row ELSE Sim(p)!Appended(g[k - 1], evs[k])
  <2>1. g = [k \in 0..N |-> IF k = 0 THEN row ELSE Sim(p)!Appended(g[k - 1], evs[k])]
    BY <1>1 DEF AfterEq
  <2>. QED BY <2>1, Zenon
<1>. DEFINE Good(k) ==
       /\ SimRow(p, g[k]) /\ Extends(row, g[k])
       /\ \A i \in 1..k : evs[i] \in Sim(p)!ToSet(g[k].log)
       /\ \A e \in Sim(p)!ToSet(g[k].log) : e \in Sim(p)!ToSet(row.log) \/ \E i \in 1..k : e = evs[i]
       /\ row.state \in Sim(p)!Terminal => g[k] = row
            Bad == {k \in 0..N : g[k] # None /\ ~Good(k)}
<1>4. row.log \in Seq(Sim(p)!Events) /\ Len(row.log) \in Nat
  BY DEF SimRow, Sim!TradeRows
<1>5. Bad = {}
  <2>. SUFFICES ASSUME Bad # {} PROVE FALSE
    OBVIOUS
  <2>1. PICK m \in Bad : \A k \in Bad : m <= k
    <3>1. Bad \in SUBSET Nat
      BY <1>0
    <3>. HIDE DEF Bad
    <3>. QED BY <3>1, LeastNatural
  <2>2. m \in 0..N /\ m \in Nat /\ g[m] # None /\ ~Good(m)
    BY <2>1, <1>0
  <2>3. CASE m = 0
    <3>1. g[0] = row
      BY <1>0, <1>3
    <3>2. Good(0)
      BY <1>4, <3>1 DEF Extends
    <3>. QED BY <2>2, <2>3, <3>2
  <2>4. CASE m # 0
    <3>1. m - 1 \in 0..N /\ m \in 1..N /\ m - 1 < m /\ m - 1 \in Nat
      BY <2>2, <2>4, <1>0
    <3>2. g[m] = Sim(p)!Appended(g[m - 1], evs[m])
      BY <2>2, <2>4, <1>3
    <3>3. g[m - 1] # None
      BY <2>2, <3>2 DEF Sim!Appended
    <3>4. Good(m - 1)
      <4>1. m - 1 \notin Bad
        BY <2>1, <2>2, <3>1
      <4>. HIDE DEF Good
      <4>. QED BY <3>1, <3>3, <4>1
    <3>. DEFINE old == g[m - 1]
                new == g[m]
                e == evs[m]
    <3>5. /\ SimRow(p, old) /\ Extends(row, old) /\ e \in Sim(p)!Events /\ e.from \notin Sim(p)!Terminal
          /\ new = Sim(p)!Appended(old, e) /\ new # None
      BY <1>0, <2>2, <3>1, <3>2, <3>4
    <3>6. /\ \A i \in 1..(m - 1) : evs[i] \in Sim(p)!ToSet(old.log)
          /\ \A x \in Sim(p)!ToSet(old.log) : x \in Sim(p)!ToSet(row.log) \/ \E i \in 1..(m - 1) : x = evs[i]
          /\ row.state \in Sim(p)!Terminal => old = row
      BY <3>4
    <3>7. evs[m] = e
      OBVIOUS
    <3>. HIDE DEF old, new, e, Good
    <3>8. /\ SimRow(p, new) /\ Extends(old, new)
          /\ e \in Sim(p)!ToSet(new.log)
          /\ \A x \in Sim(p)!ToSet(new.log) : x \in Sim(p)!ToSet(old.log) \/ x = e
          /\ old.state \in Sim(p)!Terminal => new = old
      BY <3>5, AppendOne
    <3>9. /\ old.log \in Seq(Sim(p)!Events) /\ new.log \in Seq(Sim(p)!Events)
          /\ Len(old.log) \in Nat /\ Len(new.log) \in Nat
      BY <3>5, <3>8 DEF SimRow, Sim!TradeRows
    <3>10. Extends(row, new)
      BY <1>4, <3>5, <3>8, <3>9 DEF Extends
    <3>11. \A x \in Sim(p)!ToSet(old.log) : x \in Sim(p)!ToSet(new.log)
      <4>1. \A i \in 1..Len(old.log) : i \in 1..Len(new.log) /\ new.log[i] = old.log[i]
        BY <3>8, <3>9 DEF Extends
      <4>. QED BY <4>1 DEF Sim!ToSet
    <3>12. \A i \in 1..m : i = m \/ i \in 1..(m - 1)
      BY <3>1
    <3>13. \A i \in 1..(m - 1) : i \in 1..m
      BY <3>1
    <3>14. m \in 1..m
      BY <3>1
    <3>15. \A i \in 1..m : evs[i] \in Sim(p)!ToSet(new.log)
      BY <3>6, <3>7, <3>8, <3>11, <3>12
    <3>16. \A x \in Sim(p)!ToSet(new.log) : x \in Sim(p)!ToSet(row.log) \/ \E i \in 1..m : x = evs[i]
      BY <3>6, <3>7, <3>8, <3>13, <3>14
    <3>17. Good(m)
      BY <3>6, <3>8, <3>10, <3>15, <3>16 DEF Good, new
    <3>. QED BY <2>2, <3>17
  <2>. QED BY <2>3, <2>4
<1>6. Good(N)
  <2>1. N \in 0..N /\ g[N] # None
    BY <1>0, <1>2
  <2>. QED BY <1>5, <2>1
<1>. QED BY <1>2, <1>6 DEF Taken

\* An event the kernel makes from a journal fits it and leaves no terminal state.
LEMMA KernelEvents ==
  ASSUME NEW p \in SimParts, NEW row, SimRow(p, row), NEW c \in Sims[p].commands \cup {None},
         NEW e \in Sim(p)!NextEvents(row, c)
  PROVE  /\ e \in Sim(p)!Events /\ e.from \notin Sim(p)!Terminal /\ e.cmd = c
         /\ Sim(p)!Appended(row, e) # None
<1>0. row \in Sim(p)!TradeRows /\ row # None
  BY SimFacts DEF SimRow
<1>1. /\ row.state \in Sim(p)!States /\ row.next \in Nat /\ row.count \in Nat /\ row.head \in Sim(p)!EventIds
      /\ row.log \in Seq(Sim(p)!Events)
  BY <1>0 DEF Sim!TradeRows
<1>2. PICK s \in (IF row.next = 1 THEN {row.state} ELSE {s \in Sim(p)!States : <<row.state, s>> \in Sims[p].moves}) :
        e = [seq |-> row.next, prev |-> row.head, to |-> s, cmd |-> c,
             from |-> IF row.next = 1 THEN None ELSE row.state]
  BY Zenon DEF Sim!NextEvents
<1>3. /\ s \in Sim(p)!States
      /\ row.next = 1 => s = row.state
      /\ row.next # 1 => row.state \in {"PENDING", "ACTIVE"}
  <2>1. CASE row.next = 1
    BY <2>1, <1>1, <1>2
  <2>2. CASE row.next # 1
    <3>1. <<row.state, s>> \in {"PENDING", "ACTIVE"} \X Sim(p)!States
      BY <2>2, <1>2, SimFacts
    <3>. QED BY <2>2, <3>1
  <2>. QED BY <2>1, <2>2
<1>4. /\ e.seq = row.next /\ e.prev = row.head /\ e.to = s /\ e.cmd = c
      /\ e.from = (IF row.next = 1 THEN None ELSE row.state)
  BY <1>2
<1>5. e.from \in Sim(p)!States \cup {None} /\ e.from \notin Sim(p)!Terminal
  BY <1>1, <1>3, <1>4, SimFacts DEF Sim!States, Sim!Terminal
<1>6. e \in Sim(p)!Events
  BY <1>1, <1>2, <1>3 DEF Sim!Events
<1>7. Sim(p)!Fits(row, e)
  BY <1>3, <1>4 DEF Sim!Fits
<1>8. Sim(p)!Appended(row, e) # None
  <2>. DEFINE new == [state |-> e.to, next |-> row.next + 1, count |-> row.count + 1,
                      head |-> Sim(p)!EventId(e), log |-> Append(row.log, e)]
  <2>1. new \in Sim(p)!TradeRows
    <3>1. Sim(p)!EventId(e) \in Sim(p)!EventIds
      BY <1>6, IdOfEvent
    <3>2. Append(row.log, e) \in Seq(Sim(p)!Events)
      BY <1>1, <1>6
    <3>. QED BY <3>1, <3>2, <1>1, <1>3, <1>4 DEF Sim!TradeRows
  <2>2. Sim(p)!Appended(row, e) = row \/ Sim(p)!Appended(row, e) = new
    BY <1>0, <1>7 DEF Sim!Appended
  <2>. HIDE DEF new
  <2>. QED BY <1>0, <2>1, <2>2, SimFacts
<1>. QED BY <1>4, <1>5, <1>6, <1>8

\* So do the events of a completion.
LEMMA KernelPlans ==
  ASSUME NEW p \in SimParts, NEW row, SimRow(p, row), NEW c \in Sims[p].commands \cup {None},
         NEW evs \in Sim(p)!Plans(row, c)
  PROVE  /\ evs \in Seq(Sim(p)!Events)
         /\ \A i \in 1..Len(evs) : evs[i].from \notin Sim(p)!Terminal /\ evs[i].cmd = c
<1>1. \/ evs = <<>>
      \/ \E e \in Sim(p)!NextEvents(row, c) : evs = <<e>>
      \/ \E e \in Sim(p)!NextEvents(row, c) : \E f \in Sim(p)!NextEvents(Sim(p)!Appended(row, e), c) : evs = <<e, f>>
  BY Zenon DEF Sim!Plans
<1>2. CASE evs = <<>>
  BY <1>2
<1>3. ASSUME NEW e \in Sim(p)!NextEvents(row, c), evs = <<e>>
      PROVE  /\ evs \in Seq(Sim(p)!Events)
             /\ \A i \in 1..Len(evs) : evs[i].from \notin Sim(p)!Terminal /\ evs[i].cmd = c
  <2>1. e \in Sim(p)!Events /\ e.from \notin Sim(p)!Terminal /\ e.cmd = c
    BY KernelEvents
  <2>. QED BY <1>3, <2>1
<1>4. ASSUME NEW e \in Sim(p)!NextEvents(row, c), NEW f \in Sim(p)!NextEvents(Sim(p)!Appended(row, e), c), evs = <<e, f>>
      PROVE  /\ evs \in Seq(Sim(p)!Events)
             /\ \A i \in 1..Len(evs) : evs[i].from \notin Sim(p)!Terminal /\ evs[i].cmd = c
  <2>1. e \in Sim(p)!Events /\ e.from \notin Sim(p)!Terminal /\ e.cmd = c /\ Sim(p)!Appended(row, e) # None
    BY KernelEvents
  <2>2. SimRow(p, Sim(p)!Appended(row, e))
    BY <2>1, AppendOne
  <2>3. f \in Sim(p)!Events /\ f.from \notin Sim(p)!Terminal /\ f.cmd = c
    BY <2>2, KernelEvents
  <2>4. evs \in Seq(Sim(p)!Events) /\ Len(evs) = 2 /\ evs[1] = e /\ evs[2] = f
    BY <1>4, <2>1, <2>3
  <2>5. \A i \in 1..Len(evs) : i = 1 \/ i = 2
    BY <2>4
  <2>. QED BY <2>1, <2>3, <2>4, <2>5
<1>. QED BY <1>1, <1>2, <1>3, <1>4

\* The parts of the inductive invariant of a session.
SimRows(p) == \A t \in Sims[p].trades : trade[t] # None => SimRow(p, trade[t])

SimCalls(p) ==
  /\ \A x \in Sims[p].controllers : ctl[x] # None => SimCall(p, ctl[x], trade, command)
  /\ late # None => SimCall(p, late, trade, command) /\ late.evs # None

SimClosed(p) ==
  /\ sealed # None => \A t \in DOMAIN sealed : t \in Sims[p].trades /\ trade[t] # None /\ sealed[t].count \in Nat
  /\ \A t \in Sims[p].trades : result[t] # None => trade[t] # None

SimInv(p) ==
  /\ Sim(p)!TypeOK
  /\ SimRows(p) /\ SimCalls(p) /\ SimClosed(p)
  /\ Sim(p)!CompletionIsWhole /\ Sim(p)!ResultIsTheEnd /\ Sim(p)!SealedIsHistory

\* A session without rows.
LEMMA SimInit ==
  ASSUME NEW p \in SimParts, Sim(p)!Init
  PROVE  SimInv(p)
<1>1. /\ \A t \in Sims[p].trades : trade[t] = None /\ result[t] = None
      /\ \A c \in Sims[p].commands : command[c] = "NONE" /\ receipt[c] = None
      /\ \A x \in Sims[p].controllers : ctl[x] = None
      /\ late = None /\ sealed = None
  BY DEF Sim!Init
<1>2. Sim(p)!TypeOK
  <2>1. Sim(p)!Created = {}
    BY <1>1 DEF Sim!Created
  <2>2. {ctl[x] : x \in Sims[p].controllers} \cup {late} \subseteq {None}
    BY <1>1
  <2>. QED BY <1>1, <2>1, <2>2, SimFacts DEF Sim!TypeOK, Sim!Init
<1>3. SimRows(p) /\ SimCalls(p) /\ SimClosed(p)
  BY <1>1 DEF SimRows, SimCalls, SimClosed
<1>4. Sim(p)!CompletionIsWhole /\ Sim(p)!ResultIsTheEnd /\ Sim(p)!SealedIsHistory
  BY <1>1 DEF Sim!CompletionIsWhole, Sim!ResultIsTheEnd, Sim!SealedIsHistory, Sim!Created
<1>. QED BY <1>2, <1>3, <1>4 DEF SimInv

\* A step in which trades go on, commands do not go back and nothing is closed.
Onward(p) ==
  /\ trade' \in [Sims[p].trades -> Sim(p)!TradeRows \cup {None}]
  /\ \A t \in Sims[p].trades : trade'[t] # None => SimRow(p, trade'[t])
  /\ \A t \in Sims[p].trades : trade[t] # None =>
       /\ trade'[t] # None /\ Extends(trade[t], trade'[t])
       /\ trade[t].state \in Sim(p)!Terminal => trade'[t] = trade[t]

CommandsOnward(p) ==
  \A c \in Sims[p].commands : /\ command[c] # "NONE" => command'[c] # "NONE"
                              /\ command[c] = "COMPLETED" => command'[c] = "COMPLETED"

\* No event is lost.
LEMMA LogGrows ==
  ASSUME NEW p, NEW row, NEW new, SimRow(p, row), SimRow(p, new), Extends(row, new)
  PROVE  Sim(p)!ToSet(row.log) \subseteq Sim(p)!ToSet(new.log)
<1>1. Len(row.log) \in Nat /\ Len(new.log) \in Nat
  BY DEF SimRow, Sim!TradeRows
<1>2. \A i \in 1..Len(row.log) : i \in 1..Len(new.log) /\ new.log[i] = row.log[i]
  BY <1>1 DEF Extends
<1>. QED BY <1>2 DEF Sim!ToSet

\* What a result and a session receipt say then stays true.
LEMMA ClosedStays ==
  ASSUME NEW p \in SimParts, SimInv(p), Onward(p), sealed' = sealed, result' = result
  PROVE  SimRows(p)' /\ SimClosed(p)' /\ Sim(p)!ResultIsTheEnd' /\ Sim(p)!SealedIsHistory'
<1>0. SimRows(p) /\ SimClosed(p) /\ Sim(p)!ResultIsTheEnd /\ Sim(p)!SealedIsHistory /\ Sim(p)!TypeOK
  BY DEF SimInv
<1>1. SimRows(p)'
  BY DEF Onward, SimRows
<1>2. SimClosed(p)'
  BY <1>0 DEF Onward, SimClosed
<1>3. Sim(p)!ResultIsTheEnd'
  <2>. SUFFICES ASSUME NEW t \in Sims[p].trades, result[t] # None
                PROVE  trade'[t].state \in Sim(p)!Terminal /\ result[t] = Sim(p)!EventId(Sim(p)!Last(trade'[t].log))
    BY DEF Sim!ResultIsTheEnd
  <2>1. trade[t].state \in Sim(p)!Terminal /\ result[t] = Sim(p)!EventId(Sim(p)!Last(trade[t].log))
    BY <1>0 DEF Sim!ResultIsTheEnd
  <2>2. trade'[t] = trade[t]
    BY <1>0, <2>1 DEF Onward, SimClosed
  <2>. QED BY <2>1, <2>2
<1>4. Sim(p)!SealedIsHistory'
  <2>. SUFFICES ASSUME sealed # None, NEW t \in DOMAIN sealed
                PROVE  /\ sealed[t].count <= Len(trade'[t].log)
                       /\ sealed[t].head = (IF sealed[t].count = 0 THEN <<>> ELSE Sim(p)!EventId(trade'[t].log[sealed[t].count]))
    BY DEF Sim!SealedIsHistory
  <2>1. /\ sealed[t].count <= Len(trade[t].log)
        /\ sealed[t].head = (IF sealed[t].count = 0 THEN <<>> ELSE Sim(p)!EventId(trade[t].log[sealed[t].count]))
    BY <1>0 DEF Sim!SealedIsHistory
  <2>2. t \in Sims[p].trades /\ trade[t] # None /\ sealed[t].count \in Nat
    BY <1>0 DEF SimClosed
  <2>3. trade'[t] # None /\ Extends(trade[t], trade'[t]) /\ SimRow(p, trade[t]) /\ SimRow(p, trade'[t])
    BY <2>2, <1>0 DEF Onward, SimRows
  <2>4. Len(trade[t].log) \in Nat /\ Len(trade'[t].log) \in Nat
    BY <2>3 DEF SimRow, Sim!TradeRows
  <2>5. sealed[t].count # 0 => sealed[t].count \in 1..Len(trade[t].log)
    BY <2>1, <2>2, <2>4
  <2>. QED BY <2>1, <2>2, <2>3, <2>4, <2>5 DEF Extends
<1>. QED BY <1>1, <1>2, <1>3, <1>4

\* A call stays one.
LEMMA CallStays ==
  ASSUME NEW p \in SimParts, SimInv(p), Onward(p), CommandsOnward(p),
         NEW call, SimCall(p, call, trade, command)
  PROVE  SimCall(p, call, trade', command')
<1>1. /\ call \in Sim(p)!Calls /\ trade[call.trade] # None
      /\ call.cmd # None => call.trade = Sims[p].tradeOf[call.cmd] /\ command[call.cmd] # "NONE"
      /\ call.evs # None => \A i \in 1..Len(call.evs) :
           /\ call.evs[i].from \notin Sim(p)!Terminal
           /\ call.evs[i].cmd # None => call.evs[i].cmd = call.cmd \/ command[call.evs[i].cmd] = "COMPLETED"
  BY DEF SimCall
<1>2. call.trade \in Sims[p].trades /\ call.cmd \in Sims[p].commands \cup {None}
      /\ (call.evs # None => call.evs \in Seq(Sim(p)!Events))
  BY <1>1 DEF Sim!Calls
<1>3. trade'[call.trade] # None
  BY <1>1, <1>2 DEF Onward
<1>4. call.cmd # None => command'[call.cmd] # "NONE"
  BY <1>1, <1>2 DEF CommandsOnward
<1>5. call.evs # None => \A i \in 1..Len(call.evs) :
        call.evs[i].cmd # None => call.evs[i].cmd = call.cmd \/ command'[call.evs[i].cmd] = "COMPLETED"
  <2>1. call.evs # None => \A i \in 1..Len(call.evs) : call.evs[i].cmd \in Sims[p].commands \cup {None}
    <3>1. \A e \in Sim(p)!Events : e.cmd \in Sims[p].commands \cup {None}
      BY DEF Sim!Events
    <3>. QED BY <1>2, <3>1
  <2>. QED BY <1>1, <2>1 DEF CommandsOnward
<1>. QED BY <1>1, <1>3, <1>4, <1>5 DEF SimCall

\* Completions stay whole while no command is completed and new events name
\* commands that are.
LEMMA WholeStays ==
  ASSUME NEW p \in SimParts, SimInv(p), Onward(p), receipt' = receipt,
         \A c \in Sims[p].commands : command'[c] = "COMPLETED" <=> command[c] = "COMPLETED",
         \A t \in Sims[p].trades : trade'[t] # None =>
           \A e \in Sim(p)!ToSet(trade'[t].log) : e.cmd # None => command'[e.cmd] = "COMPLETED"
  PROVE  Sim(p)!CompletionIsWhole'
<1>0. Sim(p)!CompletionIsWhole /\ SimRows(p) /\ Sim(p)!TypeOK
  BY DEF SimInv
<1>1. \A c \in Sims[p].commands : receipt'[c] # None <=> command'[c] = "COMPLETED"
  BY <1>0 DEF Sim!CompletionIsWhole
<1>2. ASSUME NEW c \in Sims[p].commands, receipt[c] # None
      PROVE  Sim(p)!ToSet(receipt[c].evs) \subseteq Sim(p)!ToSet(trade'[Sims[p].tradeOf[c]].log)
  <2>. DEFINE t == Sims[p].tradeOf[c]
  <2>1. t \in Sims[p].trades /\ trade[t] # None
    BY <1>0, <1>2 DEF Sim!CompletionIsWhole, Sim!TypeOK, Sim!Created
  <2>2. Sim(p)!ToSet(receipt[c].evs) \subseteq Sim(p)!ToSet(trade[t].log)
    BY <1>0, <1>2 DEF Sim!CompletionIsWhole
  <2>3. Extends(trade[t], trade'[t]) /\ SimRow(p, trade[t]) /\ SimRow(p, trade'[t])
    BY <2>1, <1>0 DEF Onward, SimRows
  <2>. HIDE DEF t
  <2>4. Sim(p)!ToSet(trade[t].log) \subseteq Sim(p)!ToSet(trade'[t].log)
    BY <2>3, LogGrows
  <2>. QED BY <2>2, <2>4 DEF t
<1>3. \A t \in Sim(p)!Created' : \A e \in Sim(p)!ToSet(trade'[t].log) : e.cmd # None => command'[e.cmd] = "COMPLETED"
  BY DEF Sim!Created
<1>. QED BY <1>1, <1>2, <1>3 DEF Sim!CompletionIsWhole

\* Trades that are left alone go on as well.
LEMMA OnwardSame ==
  ASSUME NEW p \in SimParts, SimInv(p), trade' = trade
  PROVE  Onward(p)
<1>1. trade \in [Sims[p].trades -> Sim(p)!TradeRows \cup {None}] /\ SimRows(p)
  BY DEF SimInv, Sim!TypeOK
<1>2. ASSUME NEW t \in Sims[p].trades, trade[t] # None PROVE Extends(trade[t], trade[t])
  <2>1. Len(trade[t].log) \in Nat
    BY <1>1, <1>2 DEF SimRows, SimRow, Sim!TradeRows
  <2>. QED BY <2>1 DEF Extends
<1>. QED BY <1>1, <1>2 DEF Onward, SimRows

\* What the type invariant says of the calls.
LEMMA CallTypes ==
  ASSUME NEW p \in SimParts, Sim(p)!TypeOK
  PROVE  /\ ctl \in [Sims[p].controllers -> Sim(p)!Calls \cup {None}] /\ late \in Sim(p)!Calls \cup {None}
         /\ \A x \in Sims[p].controllers : ctl[x] # None => ctl[x].trade \in Sim(p)!Created
         /\ late # None => late.trade \in Sim(p)!Created
<1>1. \A call \in ({ctl[x] : x \in Sims[p].controllers} \cup {late}) \ {None} : call.trade \in Sim(p)!Created
  BY DEF Sim!TypeOK
<1>. QED BY <1>1 DEF Sim!TypeOK

\* Commands and calls left alone, trades that go on: the types of the calls hold, and
\* the calls are what they were.
LEMMA CallsKept ==
  ASSUME NEW p \in SimParts, SimInv(p), Onward(p), CommandsOnward(p), ctl' = ctl, late' = late
  PROVE  /\ SimCalls(p)'
         /\ ctl' \in [Sims[p].controllers -> Sim(p)!Calls \cup {None}] /\ late' \in Sim(p)!Calls \cup {None}
         /\ \A call \in ({ctl'[x] : x \in Sims[p].controllers} \cup {late'}) \ {None} : call.trade \in Sim(p)!Created'
<1>0. Sim(p)!TypeOK /\ SimCalls(p)
  BY DEF SimInv
<1>1. SimCalls(p)'
  BY <1>0, CallStays DEF SimCalls
<1>2. Sim(p)!Created \subseteq Sim(p)!Created'
  BY DEF Onward, Sim!Created
<1>. QED BY <1>0, <1>1, <1>2, CallTypes

\* Actions that touch the session, the decisions or the admissions.
LEMMA QuietStep ==
  ASSUME NEW p \in SimParts, SimInv(p),
         \/ Sim(p)!CreateSession
         \/ \E t \in Sims[p].trades, d \in {"APPROVED", "REJECTED"} : Sim(p)!RecordRiskDecision(t, d)
         \/ \E t \in Sims[p].trades : Sim(p)!CreateAdmission(t)
  PROVE  SimInv(p)'
<1>0. Sim(p)!TypeOK /\ SimRows(p) /\ SimCalls(p) /\ SimClosed(p)
      /\ Sim(p)!CompletionIsWhole /\ Sim(p)!ResultIsTheEnd /\ Sim(p)!SealedIsHistory
  BY DEF SimInv
<1>1. /\ trade' = trade /\ command' = command /\ receipt' = receipt /\ sealed' = sealed /\ result' = result
      /\ ctl' = ctl /\ late' = late /\ liquidity' = liquidity /\ crashes' = crashes
  BY DEF Sim!CreateSession, Sim!RecordRiskDecision, Sim!CreateAdmission
<1>2. /\ session' \in {"NONE", "OPEN", "COMPLETED", "BLOCKED"} /\ (session # "NONE" => session' = session)
      /\ decisions' \in [Sims[p].trades -> SUBSET {"APPROVED", "REJECTED"}]
      /\ admitted' \subseteq Sims[p].trades /\ admitted \subseteq admitted'
  <2>1. CASE Sim(p)!CreateSession
    BY <2>1, <1>0 DEF Sim!CreateSession, Sim!TypeOK
  <2>2. ASSUME NEW t \in Sims[p].trades, NEW d \in {"APPROVED", "REJECTED"}, Sim(p)!RecordRiskDecision(t, d)
        PROVE  /\ session' = session /\ admitted' = admitted
               /\ decisions' \in [Sims[p].trades -> SUBSET {"APPROVED", "REJECTED"}]
    <3>1. decisions \in [Sims[p].trades -> SUBSET {"APPROVED", "REJECTED"}]
      BY <1>0 DEF Sim!TypeOK
    <3>. QED BY <2>2, <3>1 DEF Sim!RecordRiskDecision
  <2>3. ASSUME NEW t \in Sims[p].trades, Sim(p)!CreateAdmission(t)
        PROVE  session' = session /\ decisions' = decisions /\ admitted' = admitted \cup {t}
    BY <2>3 DEF Sim!CreateAdmission
  <2>. QED BY <1>0, <2>1, <2>2, <2>3 DEF Sim!TypeOK
<1>3. Sim(p)!Created' = Sim(p)!Created
  BY <1>1 DEF Sim!Created
<1>4. Sim(p)!TypeOK'
  BY <1>0, <1>1, <1>2, <1>3 DEF Sim!TypeOK
<1>5. Onward(p)
  BY <1>1, OnwardSame
<1>6. SimRows(p)' /\ SimClosed(p)' /\ Sim(p)!ResultIsTheEnd' /\ Sim(p)!SealedIsHistory'
  BY <1>1, <1>5, ClosedStays
<1>7. SimCalls(p)' /\ Sim(p)!CompletionIsWhole'
  BY <1>0, <1>1 DEF SimCalls, Sim!CompletionIsWhole, Sim!Created
<1>. QED BY <1>4, <1>6, <1>7 DEF SimInv

\* The command an event of a journal names is one of the session.
LEMMA EventsTyped ==
  ASSUME NEW p, NEW row, SimRow(p, row), NEW e \in Sim(p)!ToSet(row.log), e.cmd # None
  PROVE  e.cmd \in Sims[p].commands
<1>1. row.log \in Seq(Sim(p)!Events) /\ \A x \in Sim(p)!Events : x.cmd \in Sims[p].commands \cup {None}
  BY DEF SimRow, Sim!TradeRows, Sim!Events
<1>2. e \in Sim(p)!Events
  BY <1>1 DEF Sim!ToSet
<1>. QED BY <1>1, <1>2

\* create_trade.
LEMMA CreateStep ==
  ASSUME NEW p \in SimParts, SimInv(p), NEW t \in Sims[p].trades, Sim(p)!CreateTrade(t)
  PROVE  SimInv(p)'
<1>. DEFINE new == [state |-> "PENDING", next |-> 1, count |-> 0, head |-> <<>>, log |-> <<>>]
<1>0. Sim(p)!TypeOK /\ SimRows(p) /\ SimCalls(p) /\ SimClosed(p)
      /\ Sim(p)!CompletionIsWhole /\ Sim(p)!ResultIsTheEnd /\ Sim(p)!SealedIsHistory
  BY DEF SimInv
<1>1. /\ t \in admitted /\ trade[t] = None /\ trade' = [trade EXCEPT ![t] = new]
      /\ session' = session /\ decisions' = decisions /\ admitted' = admitted
      /\ command' = command /\ receipt' = receipt /\ sealed' = sealed /\ result' = result
      /\ ctl' = ctl /\ late' = late /\ liquidity' = liquidity /\ crashes' = crashes
  BY DEF Sim!CreateTrade, Sim!Created, Sim!NewTrade
<1>2. SimRow(p, new) /\ new \in Sim(p)!TradeRows /\ Sim(p)!ToSet(new.log) = {}
  <2>1. new \in Sim(p)!TradeRows
    BY DEF Sim!TradeRows, Sim!EventIds, Sim!States
  <2>2. Len(new.log) = 0
    OBVIOUS
  <2>3. Sim(p)!VerifyTradeChain(new)
    BY <2>2 DEF Sim!VerifyTradeChain
  <2>. QED BY <2>1, <2>2, <2>3 DEF SimRow, Sim!ToSet
<1>. HIDE DEF new
<1>3. /\ trade \in [Sims[p].trades -> Sim(p)!TradeRows \cup {None}]
      /\ trade' \in [Sims[p].trades -> Sim(p)!TradeRows \cup {None}] /\ trade'[t] = new /\ new # None
      /\ \A u \in Sims[p].trades : u # t => trade'[u] = trade[u]
  BY <1>0, <1>1, <1>2, SimFacts DEF Sim!TypeOK
<1>4. Onward(p)
  <2>1. ASSUME NEW u \in Sims[p].trades, trade[u] # None
        PROVE  trade'[u] = trade[u] /\ Extends(trade[u], trade[u]) /\ SimRow(p, trade[u])
    <3>1. SimRow(p, trade[u]) /\ u # t
      BY <1>0, <1>1, <2>1 DEF SimRows
    <3>2. Len(trade[u].log) \in Nat
      BY <3>1 DEF SimRow, Sim!TradeRows
    <3>. QED BY <1>3, <3>1, <3>2 DEF Extends
  <2>. QED BY <1>2, <1>3, <2>1 DEF Onward
<1>5. CommandsOnward(p)
  BY <1>1 DEF CommandsOnward
<1>6. /\ SimCalls(p)'
      /\ ctl' \in [Sims[p].controllers -> Sim(p)!Calls \cup {None}] /\ late' \in Sim(p)!Calls \cup {None}
      /\ \A call \in ({ctl'[x] : x \in Sims[p].controllers} \cup {late'}) \ {None} : call.trade \in Sim(p)!Created'
  BY <1>1, <1>4, <1>5, CallsKept
<1>7. Sim(p)!Created' = Sim(p)!Created \cup {t}
  BY <1>1, <1>3 DEF Sim!Created
<1>8. Sim(p)!TypeOK'
  BY <1>0, <1>1, <1>3, <1>6, <1>7 DEF Sim!TypeOK
<1>9. SimRows(p)' /\ SimClosed(p)' /\ Sim(p)!ResultIsTheEnd' /\ Sim(p)!SealedIsHistory'
  BY <1>1, <1>4, ClosedStays
<1>10. Sim(p)!CompletionIsWhole'
  <2>1. \A u \in Sims[p].trades : trade'[u] # None =>
          \A e \in Sim(p)!ToSet(trade'[u].log) : e.cmd # None => command'[e.cmd] = "COMPLETED"
    BY <1>0, <1>1, <1>2, <1>3 DEF Sim!CompletionIsWhole, Sim!Created
  <2>. QED BY <1>1, <1>4, <2>1, WholeStays
<1>. QED BY <1>6, <1>8, <1>9, <1>10 DEF SimInv

\* prepare_command.
LEMMA PrepareStep ==
  ASSUME NEW p \in SimParts, SimInv(p), NEW c \in Sims[p].commands, Sim(p)!PrepareCommand(c)
  PROVE  SimInv(p)'
<1>0. Sim(p)!TypeOK /\ SimRows(p) /\ SimCalls(p) /\ SimClosed(p)
      /\ Sim(p)!CompletionIsWhole /\ Sim(p)!ResultIsTheEnd /\ Sim(p)!SealedIsHistory
  BY DEF SimInv
<1>1. /\ Sims[p].tradeOf[c] \in Sim(p)!Created /\ command[c] = "NONE"
      /\ command' = [command EXCEPT ![c] = "PREPARED"]
      /\ session' = session /\ decisions' = decisions /\ admitted' = admitted
      /\ trade' = trade /\ receipt' = receipt /\ sealed' = sealed /\ result' = result
      /\ ctl' = ctl /\ late' = late /\ liquidity' = liquidity /\ crashes' = crashes
  BY DEF Sim!PrepareCommand
<1>2. /\ command' \in [Sims[p].commands -> {"NONE", "PREPARED", "COMPLETED"}]
      /\ \A d \in Sims[p].commands : command'[d] = IF d = c THEN "PREPARED" ELSE command[d]
  BY <1>0, <1>1 DEF Sim!TypeOK
<1>3. Onward(p) /\ CommandsOnward(p)
  BY <1>1, <1>2, OnwardSame DEF CommandsOnward
<1>4. /\ SimCalls(p)'
      /\ ctl' \in [Sims[p].controllers -> Sim(p)!Calls \cup {None}] /\ late' \in Sim(p)!Calls \cup {None}
      /\ \A call \in ({ctl'[x] : x \in Sims[p].controllers} \cup {late'}) \ {None} : call.trade \in Sim(p)!Created'
  BY <1>1, <1>3, CallsKept
<1>5. Sim(p)!Created' = Sim(p)!Created
  BY <1>1 DEF Sim!Created
<1>6. Sim(p)!TypeOK'
  BY <1>0, <1>1, <1>2, <1>4, <1>5 DEF Sim!TypeOK
<1>7. SimRows(p)' /\ SimClosed(p)' /\ Sim(p)!ResultIsTheEnd' /\ Sim(p)!SealedIsHistory'
  BY <1>1, <1>3, ClosedStays
<1>8. Sim(p)!CompletionIsWhole'
  <2>1. \A u \in Sims[p].trades : trade'[u] # None =>
          \A e \in Sim(p)!ToSet(trade'[u].log) : e.cmd # None => command'[e.cmd] = "COMPLETED"
    <3>. SUFFICES ASSUME NEW u \in Sims[p].trades, trade[u] # None, NEW e \in Sim(p)!ToSet(trade[u].log), e.cmd # None
                  PROVE  command'[e.cmd] = "COMPLETED"
      BY <1>1
    <3>1. command[e.cmd] = "COMPLETED"
      BY <1>0 DEF Sim!CompletionIsWhole, Sim!Created
    <3>2. e.cmd \in Sims[p].commands
      BY <1>0, EventsTyped DEF SimRows
    <3>. QED BY <1>1, <1>2, <3>1, <3>2
  <2>. QED BY <1>1, <1>2, <1>3, <2>1, WholeStays
<1>. QED BY <1>4, <1>6, <1>7, <1>8 DEF SimInv

\* record_result: an event to a terminal state is the last one.
LEMMA ResultStep ==
  ASSUME NEW p \in SimParts, SimInv(p), NEW t \in Sims[p].trades, Sim(p)!RecordResult(t)
  PROVE  SimInv(p)'
<1>0. Sim(p)!TypeOK /\ SimRows(p) /\ SimCalls(p) /\ SimClosed(p)
      /\ Sim(p)!CompletionIsWhole /\ Sim(p)!ResultIsTheEnd /\ Sim(p)!SealedIsHistory
  BY DEF SimInv
<1>1. /\ trade[t] # None /\ trade[t].state \in Sim(p)!Terminal /\ result[t] = None
      /\ session' = session /\ decisions' = decisions /\ admitted' = admitted
      /\ trade' = trade /\ command' = command /\ receipt' = receipt /\ sealed' = sealed
      /\ ctl' = ctl /\ late' = late /\ liquidity' = liquidity /\ crashes' = crashes
  BY DEF Sim!RecordResult, Sim!Created
<1>2. PICK i \in 1..Len(trade[t].log) :
        /\ trade[t].log[i].to = trade[t].state
        /\ result' = [result EXCEPT ![t] = Sim(p)!EventId(trade[t].log[i])]
  BY DEF Sim!RecordResult
<1>. DEFINE row == trade[t]
            n == Len(row.log)
<1>3. SimRow(p, row) /\ row.log \in Seq(Sim(p)!Events) /\ n \in Nat
  BY <1>0, <1>1 DEF SimRows, SimRow, Sim!TradeRows
<1>4. i = n
  <2>. SUFFICES ASSUME i # n PROVE FALSE
    OBVIOUS
  <2>1. i + 1 \in 1..n /\ i + 1 # 1 /\ (i + 1) - 1 = i
    BY <1>2, <1>3
  <2>2. row.log[i + 1].from = row.log[(i + 1) - 1].to
    BY <1>3, <2>1 DEF SimRow, Sim!VerifyTradeChain
  <2>3. row.log[i + 1].from \notin Sim(p)!Terminal
    BY <1>3, <2>1 DEF SimRow
  <2>. QED BY <1>1, <1>2, <2>1, <2>2, <2>3
<1>5. Sim(p)!EventId(trade[t].log[i]) \in Sim(p)!EventIds
  <2>1. trade[t].log[i] \in Sim(p)!Events
    BY <1>2, <1>3
  <2>. QED BY <2>1, IdOfEvent
<1>6. /\ result' \in [Sims[p].trades -> Sim(p)!EventIds \cup {None}]
      /\ \A u \in Sims[p].trades : result'[u] = IF u = t THEN Sim(p)!EventId(Sim(p)!Last(trade[t].log)) ELSE result[u]
  <2>1. result \in [Sims[p].trades -> Sim(p)!EventIds \cup {None}]
    BY <1>0 DEF Sim!TypeOK
  <2>2. Sim(p)!Last(trade[t].log) = trade[t].log[i]
    BY <1>4 DEF Sim!Last
  <2>. QED BY <1>2, <1>5, <2>1, <2>2
<1>7. Sim(p)!Created' = Sim(p)!Created
  BY <1>1 DEF Sim!Created
<1>8. Sim(p)!TypeOK'
  BY <1>0, <1>1, <1>6, <1>7 DEF Sim!TypeOK
<1>9. SimRows(p)' /\ SimCalls(p)' /\ Sim(p)!CompletionIsWhole' /\ Sim(p)!SealedIsHistory'
  BY <1>0, <1>1 DEF SimRows, SimCalls, Sim!CompletionIsWhole, Sim!SealedIsHistory, Sim!Created
<1>10. SimClosed(p)'
  BY <1>0, <1>1, <1>6 DEF SimClosed
<1>11. Sim(p)!ResultIsTheEnd'
  BY <1>0, <1>1, <1>6 DEF Sim!ResultIsTheEnd
<1>. QED BY <1>8, <1>9, <1>10, <1>11 DEF SimInv

\* record_session_receipt: the heads are those of the rows.
LEMMA ReceiptStep ==
  ASSUME NEW p \in SimParts, SimInv(p), NEW s \in {"COMPLETED", "BLOCKED"}, Sim(p)!RecordSessionReceipt(s)
  PROVE  SimInv(p)'
<1>0. Sim(p)!TypeOK /\ SimRows(p) /\ SimCalls(p) /\ SimClosed(p)
      /\ Sim(p)!CompletionIsWhole /\ Sim(p)!ResultIsTheEnd /\ Sim(p)!SealedIsHistory
  BY DEF SimInv
<1>1. /\ session' = s /\ decisions' = decisions /\ admitted' = admitted /\ result' = result
      /\ trade' = trade /\ command' = command /\ receipt' = receipt
      /\ ctl' = ctl /\ late' = late /\ liquidity' = liquidity /\ crashes' = crashes
      /\ sealed' = [t \in Sim(p)!Created |-> [state |-> trade[t].state, count |-> trade[t].count, head |-> trade[t].head]]
  BY DEF Sim!RecordSessionReceipt
<1>2. /\ DOMAIN sealed' = Sim(p)!Created
      /\ \A t \in Sim(p)!Created : sealed'[t].count = trade[t].count /\ sealed'[t].head = trade[t].head
  BY <1>1
<1>3. \A t \in Sim(p)!Created : t \in Sims[p].trades /\ trade[t] # None /\ SimRow(p, trade[t])
  BY <1>0 DEF Sim!Created, SimRows
<1>4. ASSUME NEW t \in Sim(p)!Created
      PROVE  /\ trade[t].count \in Nat /\ trade[t].count <= Len(trade[t].log)
             /\ trade[t].head = (IF trade[t].count = 0 THEN <<>> ELSE Sim(p)!EventId(trade[t].log[trade[t].count]))
  <2>1. /\ trade[t].count = Len(trade[t].log)
        /\ trade[t].head = (IF trade[t].log = <<>> THEN <<>> ELSE Sim(p)!EventId(trade[t].log[Len(trade[t].log)]))
    BY <1>3 DEF SimRow, Sim!VerifyTradeChain, Sim!Last
  <2>2. trade[t].log \in Seq(Sim(p)!Events) /\ Len(trade[t].log) \in Nat
    BY <1>3 DEF SimRow, Sim!TradeRows
  <2>3. trade[t].log = <<>> <=> Len(trade[t].log) = 0
    BY <2>2
  <2>. QED BY <2>1, <2>2, <2>3
<1>5. Sim(p)!Created' = Sim(p)!Created
  BY <1>1 DEF Sim!Created
<1>6. Sim(p)!TypeOK'
  BY <1>0, <1>1, <1>5 DEF Sim!TypeOK
<1>7. SimRows(p)' /\ SimCalls(p)' /\ Sim(p)!CompletionIsWhole' /\ Sim(p)!ResultIsTheEnd'
  BY <1>0, <1>1 DEF SimRows, SimCalls, Sim!CompletionIsWhole, Sim!ResultIsTheEnd, Sim!Created
<1>8. SimClosed(p)'
  <2>1. \A t \in DOMAIN sealed' : t \in Sims[p].trades /\ trade'[t] # None /\ sealed'[t].count \in Nat
    BY <1>1, <1>2, <1>3, <1>4
  <2>. QED BY <1>0, <1>1, <2>1 DEF SimClosed
<1>9. Sim(p)!SealedIsHistory'
  BY <1>1, <1>2, <1>4 DEF Sim!SealedIsHistory
<1>. QED BY <1>6, <1>7, <1>8, <1>9 DEF SimInv

\* Steps that change what the controllers hold and, when one dies, what is under way.
LEMMA ControllerStep ==
  ASSUME NEW p \in SimParts, SimInv(p),
         session' = session, sealed' = sealed, decisions' = decisions, admitted' = admitted, trade' = trade,
         command' = command, receipt' = receipt, liquidity' = liquidity, result' = result,
         NEW x \in Sims[p].controllers, NEW call, call # None => SimCall(p, call, trade, command),
         ctl' = [ctl EXCEPT ![x] = call], late' = late \/ (late' = ctl[x] /\ ctl[x].evs # None), crashes' \in 0..Sims[p].maxCrashes
  PROVE  SimInv(p)'
<1>0. Sim(p)!TypeOK /\ SimRows(p) /\ SimCalls(p) /\ SimClosed(p)
      /\ Sim(p)!CompletionIsWhole /\ Sim(p)!ResultIsTheEnd /\ Sim(p)!SealedIsHistory
  BY DEF SimInv
<1>1. Sim(p)!Created' = Sim(p)!Created
  BY DEF Sim!Created
<1>2. call # None => call \in Sim(p)!Calls /\ call.trade \in Sim(p)!Created
  <2>1. call # None => call \in Sim(p)!Calls /\ trade[call.trade] # None
    BY DEF SimCall
  <2>. QED BY <2>1 DEF Sim!Calls, Sim!Created
<1>3. /\ ctl \in [Sims[p].controllers -> Sim(p)!Calls \cup {None}] /\ late \in Sim(p)!Calls \cup {None}
      /\ \A y \in Sims[p].controllers : ctl[y] # None => ctl[y].trade \in Sim(p)!Created
      /\ late # None => late.trade \in Sim(p)!Created
  BY <1>0, CallTypes
<1>4. /\ ctl' \in [Sims[p].controllers -> Sim(p)!Calls \cup {None}]
      /\ \A y \in Sims[p].controllers : ctl'[y] = IF y = x THEN call ELSE ctl[y]
  BY <1>2, <1>3
<1>5. \A c \in ({ctl'[y] : y \in Sims[p].controllers} \cup {late'}) \ {None} : c.trade \in Sim(p)!Created'
  BY <1>1, <1>2, <1>3, <1>4
<1>6. late' \in Sim(p)!Calls \cup {None}
  BY <1>3
<1>7. Sim(p)!TypeOK'
  BY <1>0, <1>1, <1>4, <1>5, <1>6 DEF Sim!TypeOK
<1>8. SimCalls(p)'
  BY <1>0, <1>4 DEF SimCalls
<1>9. SimRows(p)' /\ SimClosed(p)' /\ Sim(p)!CompletionIsWhole' /\ Sim(p)!ResultIsTheEnd' /\ Sim(p)!SealedIsHistory'
  BY <1>0 DEF SimRows, SimClosed, Sim!CompletionIsWhole, Sim!ResultIsTheEnd, Sim!SealedIsHistory, Sim!Created
<1>. QED BY <1>7, <1>8, <1>9 DEF SimInv

\* What a controller reads and plans is a call.
LEMMA PlanStep ==
  ASSUME NEW p \in SimParts, SimInv(p), NEW x \in Sims[p].controllers,
         NEW t \in Sims[p].trades, NEW c \in Sims[p].commands \cup {None}, Sim(p)!PlanEvent(x, t, c)
  PROVE  SimInv(p)'
<1>0. Sim(p)!TypeOK /\ SimRows(p) /\ Sim(p)!CompletionIsWhole
  BY DEF SimInv
<1>1. /\ session' = session /\ sealed' = sealed /\ decisions' = decisions /\ admitted' = admitted /\ trade' = trade
      /\ command' = command /\ receipt' = receipt /\ liquidity' = liquidity /\ result' = result
      /\ late' = late /\ crashes' = crashes /\ trade[t] # None
      /\ c # None => receipt[c] # None
  BY DEF Sim!PlanEvent, Sim!rows, Sim!Created
<1>2. PICK e \in Sim(p)!NextEvents(trade[t], c) :
        ctl' = [ctl EXCEPT ![x] = [trade |-> t, cmd |-> None, base |-> {}, evs |-> <<e>>]]
  BY DEF Sim!PlanEvent
<1>. DEFINE call == [trade |-> t, cmd |-> None, base |-> {}, evs |-> <<e>>]
<1>3. e \in Sim(p)!Events /\ e.from \notin Sim(p)!Terminal /\ e.cmd = c
  BY <1>0, <1>1, KernelEvents DEF SimRows
<1>4. SimCall(p, call, trade, command)
  <2>1. <<e>> \in Seq(Sim(p)!Events) /\ Len(<<e>>) = 1 /\ <<e>>[1] = e
    BY <1>3
  <2>2. call \in Sim(p)!Calls
    BY <2>1 DEF Sim!Calls
  <2>3. c # None => command[c] = "COMPLETED"
    BY <1>0, <1>1 DEF Sim!CompletionIsWhole
  <2>4. \A i \in 1..Len(<<e>>) : <<e>>[i] = e
    BY <2>1
  <2>5. call.trade = t /\ call.cmd = None /\ call.evs = <<e>>
    OBVIOUS
  <2>. HIDE DEF call
  <2>. QED BY <1>1, <1>3, <2>2, <2>3, <2>4, <2>5 DEF SimCall
<1>5. crashes' \in 0..Sims[p].maxCrashes
  BY <1>0, <1>1 DEF Sim!TypeOK
<1>6. ctl' = [ctl EXCEPT ![x] = call]
  BY <1>2
<1>. HIDE DEF call
<1>. QED BY <1>1, <1>4, <1>5, <1>6, ControllerStep

\* A controller goes on after a restart with the call it finds prepared.
LEMMA ResumeStep ==
  ASSUME NEW p \in SimParts, SimInv(p), NEW x \in Sims[p].controllers,
         NEW c \in Sims[p].commands, Sim(p)!Resume(x, c)
  PROVE  SimInv(p)'
<1>. DEFINE call == [trade |-> Sims[p].tradeOf[c], cmd |-> c, base |-> liquidity, evs |-> None]
<1>0. Sim(p)!TypeOK
  BY DEF SimInv
<1>1. /\ session' = session /\ sealed' = sealed /\ decisions' = decisions /\ admitted' = admitted /\ trade' = trade
      /\ command' = command /\ receipt' = receipt /\ liquidity' = liquidity /\ result' = result
      /\ late' = late /\ crashes' = crashes /\ command[c] = "PREPARED"
      /\ ctl' = [ctl EXCEPT ![x] = call]
  BY DEF Sim!Resume, Sim!rows
<1>2. /\ Sims[p].tradeOf[c] \in Sims[p].trades /\ trade[Sims[p].tradeOf[c]] # None
      /\ liquidity \subseteq Sims[p].commands /\ crashes \in 0..Sims[p].maxCrashes
  BY <1>0, <1>1, SimFacts DEF Sim!TypeOK, Sim!Created
<1>3. call \in Sim(p)!Calls
  BY <1>2 DEF Sim!Calls
<1>4. call.trade = Sims[p].tradeOf[c] /\ call.cmd = c /\ call.evs = None
  OBVIOUS
<1>. HIDE DEF call
<1>5. SimCall(p, call, trade, command)
  BY <1>1, <1>2, <1>3, <1>4 DEF SimCall
<1>. QED BY <1>1, <1>2, <1>5, ControllerStep

\* The kernel plans a call from what the trade is; it makes no event out of a terminal state.
LEMMA KernelStep ==
  ASSUME NEW p \in SimParts, SimInv(p), NEW x \in Sims[p].controllers, Sim(p)!RunKernel(x)
  PROVE  SimInv(p)'
<1>0. Sim(p)!TypeOK /\ SimRows(p) /\ SimCalls(p)
  BY DEF SimInv
<1>1. /\ session' = session /\ sealed' = sealed /\ decisions' = decisions /\ admitted' = admitted /\ trade' = trade
      /\ command' = command /\ receipt' = receipt /\ liquidity' = liquidity /\ result' = result
      /\ late' = late /\ crashes' = crashes /\ ctl[x] # None
  BY DEF Sim!RunKernel, Sim!rows
<1>2. PICK evs \in Sim(p)!Plans(trade[ctl[x].trade], ctl[x].cmd) : ctl' = [ctl EXCEPT ![x].evs = evs]
  BY DEF Sim!RunKernel
<1>. DEFINE old == ctl[x]
            call == [old EXCEPT !.evs = evs]
<1>3. SimCall(p, old, trade, command)
  BY <1>0, <1>1 DEF SimCalls
<1>4. /\ old \in Sim(p)!Calls /\ trade[old.trade] # None
      /\ old.cmd # None => old.trade = Sims[p].tradeOf[old.cmd] /\ command[old.cmd] # "NONE"
  BY <1>3 DEF SimCall
<1>5. old.trade \in Sims[p].trades /\ old.cmd \in Sims[p].commands \cup {None}
  BY <1>4 DEF Sim!Calls
<1>6. SimRow(p, trade[old.trade])
  BY <1>0, <1>4, <1>5 DEF SimRows
<1>7. /\ evs \in Seq(Sim(p)!Events)
      /\ \A i \in 1..Len(evs) : evs[i].from \notin Sim(p)!Terminal /\ evs[i].cmd = old.cmd
  BY <1>2, <1>5, <1>6, KernelPlans
<1>8. call \in Sim(p)!Calls /\ call.trade = old.trade /\ call.cmd = old.cmd /\ call.evs = evs
  <2>. HIDE DEF old
  <2>. QED BY <1>4, <1>7 DEF Sim!Calls
<1>9. ctl' = [ctl EXCEPT ![x] = call]
  BY <1>2
<1>10. crashes' \in 0..Sims[p].maxCrashes
  BY <1>0, <1>1 DEF Sim!TypeOK
<1>. HIDE DEF call, old
<1>11. SimCall(p, call, trade, command)
  BY <1>4, <1>7, <1>8 DEF SimCall
<1>. QED BY <1>1, <1>9, <1>10, <1>11, ControllerStep

\* A controller that dies leaves nothing, or the COMMIT it had sent.
LEMMA SimCrashStep ==
  ASSUME NEW p \in SimParts, SimInv(p), NEW x \in Sims[p].controllers, Sim(p)!Crash(x)
  PROVE  SimInv(p)'
<1>1. /\ session' = session /\ sealed' = sealed /\ decisions' = decisions /\ admitted' = admitted /\ trade' = trade
      /\ command' = command /\ receipt' = receipt /\ liquidity' = liquidity /\ result' = result
  BY DEF Sim!Crash, Sim!rows
<1>2. /\ ctl' = [ctl EXCEPT ![x] = None] /\ (late' = late \/ (late' = ctl[x] /\ ctl[x].evs # None))
      /\ crashes < Sims[p].maxCrashes /\ crashes' = crashes + 1
  BY DEF Sim!Crash
<1>3. crashes' \in 0..Sims[p].maxCrashes
  <2>1. crashes \in 0..Sims[p].maxCrashes
    BY DEF SimInv, Sim!TypeOK
  <2>. QED BY <1>2, <2>1, SimFacts
<1>. QED BY <1>1, <1>2, <1>3, ControllerStep

\* What a transaction leaves: the rows of the session but for its calls.
Committed(p) ==
  /\ session' = session /\ sealed' = sealed /\ decisions' = decisions /\ admitted' = admitted /\ result' = result
  /\ Onward(p) /\ CommandsOnward(p) /\ Sim(p)!CompletionIsWhole'
  /\ command' \in [Sims[p].commands -> {"NONE", "PREPARED", "COMPLETED"}] /\ liquidity' \subseteq Sims[p].commands
  /\ receipt' \in [Sims[p].commands -> Sim(p)!Receipts \cup {None}]
  /\ Sim(p)!Created' = Sim(p)!Created
  /\ \A c \in Sims[p].commands : command'[c] # "NONE" => command[c] # "NONE"

\* append_trade_event and complete_command, whenever they are delivered.
LEMMA TransactionKeeps ==
  ASSUME NEW p \in SimParts, SimInv(p), NEW call, SimCall(p, call, trade, command), call.evs # None,
         Sim(p)!Transaction(call)
  PROVE  Committed(p)
<1>. DEFINE t == call.trade
            row == Sim(p)!AppendedAll(trade[t], call.evs)
<1>0. Sim(p)!TypeOK /\ SimRows(p) /\ Sim(p)!CompletionIsWhole
  BY DEF SimInv
<1>1. /\ session' = session /\ sealed' = sealed /\ decisions' = decisions /\ admitted' = admitted /\ result' = result
      /\ IF call.cmd = None
         THEN trade' = [trade EXCEPT ![t] = IF row # None /\ Sim(p)!HasLineage(call) THEN row ELSE @]
              /\ receipt' = receipt /\ liquidity' = liquidity /\ command' = command
         ELSE Sim(p)!CompleteCommand(call)
  BY DEF Sim!Transaction, Sim!AppendTradeEvent
<1>2. /\ call \in Sim(p)!Calls /\ trade[t] # None
      /\ call.cmd # None => t = Sims[p].tradeOf[call.cmd] /\ command[call.cmd] # "NONE"
      /\ \A i \in 1..Len(call.evs) :
           /\ call.evs[i].from \notin Sim(p)!Terminal
           /\ call.evs[i].cmd # None => call.evs[i].cmd = call.cmd \/ command[call.evs[i].cmd] = "COMPLETED"
  BY DEF SimCall
<1>3. /\ t \in Sims[p].trades /\ call.cmd \in Sims[p].commands \cup {None}
      /\ call.evs \in Seq(Sim(p)!Events) /\ call.base \subseteq Sims[p].commands
  BY <1>2 DEF Sim!Calls
<1>4. /\ trade \in [Sims[p].trades -> Sim(p)!TradeRows \cup {None}]
      /\ command \in [Sims[p].commands -> {"NONE", "PREPARED", "COMPLETED"}] /\ liquidity \subseteq Sims[p].commands
      /\ receipt \in [Sims[p].commands -> Sim(p)!Receipts \cup {None}]
  BY <1>0 DEF Sim!TypeOK
<1>5. SimRow(p, trade[t])
  BY <1>0, <1>2, <1>3 DEF SimRows
<1>6. ASSUME row # None PROVE Taken(p, trade[t], call.evs, row) /\ row \in Sim(p)!TradeRows
  <2>1. Taken(p, trade[t], call.evs, row)
    BY <1>2, <1>3, <1>5, <1>6, AppendAll
  <2>. QED BY <2>1 DEF Taken, SimRow
<1>. HIDE DEF t, row
<1>7. CASE trade' = trade /\ receipt' = receipt /\ liquidity' = liquidity /\ command' = command
  <2>1. Onward(p) /\ CommandsOnward(p)
    BY <1>7, OnwardSame DEF CommandsOnward
  <2>2. Sim(p)!CompletionIsWhole' /\ Sim(p)!Created' = Sim(p)!Created
    BY <1>0, <1>7 DEF Sim!CompletionIsWhole, Sim!Created
  <2>. QED BY <1>1, <1>4, <1>7, <2>1, <2>2 DEF Committed
<1>8. ASSUME row # None, trade' = [trade EXCEPT ![t] = row]
      PROVE  /\ Onward(p) /\ Sim(p)!Created' = Sim(p)!Created
             /\ trade'[t] = row /\ \A u \in Sims[p].trades : u # t => trade'[u] = trade[u]
  <2>1. /\ trade' \in [Sims[p].trades -> Sim(p)!TradeRows \cup {None}] /\ trade'[t] = row
        /\ \A u \in Sims[p].trades : u # t => trade'[u] = trade[u]
    BY <1>3, <1>4, <1>6, <1>8
  <2>2. SimRow(p, row) /\ Extends(trade[t], row) /\ (trade[t].state \in Sim(p)!Terminal => row = trade[t])
    BY <1>6, <1>8 DEF Taken
  <2>3. ASSUME NEW u \in Sims[p].trades, trade[u] # None PROVE Extends(trade[u], trade[u]) /\ SimRow(p, trade[u])
    <3>1. SimRow(p, trade[u])
      BY <1>0, <2>3 DEF SimRows
    <3>2. Len(trade[u].log) \in Nat
      BY <3>1 DEF SimRow, Sim!TradeRows
    <3>. QED BY <3>1, <3>2 DEF Extends
  <2>4. Onward(p)
    BY <1>8, <2>1, <2>2, <2>3 DEF Onward
  <2>5. Sim(p)!Created' = Sim(p)!Created
    BY <1>2, <1>8, <2>1 DEF Sim!Created, t
  <2>. QED BY <2>1, <2>4, <2>5
<1>9. ASSUME row # None, NEW e \in Sim(p)!ToSet(row.log), e.cmd # None
      PROVE  e.cmd \in Sims[p].commands /\ (e.cmd = call.cmd \/ command[e.cmd] = "COMPLETED")
  <2>1. SimRow(p, row) /\ (e \in Sim(p)!ToSet(trade[t].log) \/ \E i \in 1..Len(call.evs) : e = call.evs[i])
    BY <1>6, <1>9 DEF Taken
  <2>2. e.cmd \in Sims[p].commands
    BY <1>9, <2>1, EventsTyped
  <2>3. e \in Sim(p)!ToSet(trade[t].log) => command[e.cmd] = "COMPLETED"
    BY <1>0, <1>2, <1>3, <1>9 DEF Sim!CompletionIsWhole, Sim!Created, t
  <2>. QED BY <1>2, <1>9, <2>1, <2>2, <2>3
<1>10. CASE call.cmd = None
  <2>1. receipt' = receipt /\ liquidity' = liquidity /\ command' = command
    BY <1>1, <1>10
  <2>2. CASE ~(row # None /\ Sim(p)!HasLineage(call))
    <3>1. trade' = trade
      BY <1>1, <1>4, <1>10, <2>2
    <3>. QED BY <1>7, <2>1, <3>1
  <2>3. CASE row # None /\ Sim(p)!HasLineage(call)
    <3>1. trade' = [trade EXCEPT ![t] = row]
      BY <1>1, <1>10, <2>3
    <3>2. /\ Onward(p) /\ Sim(p)!Created' = Sim(p)!Created
          /\ trade'[t] = row /\ \A u \in Sims[p].trades : u # t => trade'[u] = trade[u]
      BY <1>8, <2>3, <3>1
    <3>3. CommandsOnward(p)
      BY <2>1 DEF CommandsOnward
    <3>4. \A u \in Sims[p].trades : trade'[u] # None =>
            \A e \in Sim(p)!ToSet(trade'[u].log) : e.cmd # None => command'[e.cmd] = "COMPLETED"
      <4>. SUFFICES ASSUME NEW u \in Sims[p].trades, trade'[u] # None, NEW e \in Sim(p)!ToSet(trade'[u].log), e.cmd # None
                    PROVE  command[e.cmd] = "COMPLETED"
        BY <2>1
      <4>1. CASE u = t
        BY <1>9, <1>10, <2>3, <3>2, <4>1
      <4>2. CASE u # t
        BY <1>0, <3>2, <4>2 DEF Sim!CompletionIsWhole, Sim!Created
      <4>. QED BY <4>1, <4>2
    <3>5. Sim(p)!CompletionIsWhole'
      BY <2>1, <3>2, <3>4, WholeStays
    <3>. QED BY <1>1, <1>4, <2>1, <3>2, <3>3, <3>5 DEF Committed
  <2>. QED BY <2>2, <2>3
<1>11. CASE call.cmd # None
  <2>. DEFINE c == call.cmd
              ok == command[c] = "PREPARED" /\ receipt[c] = None /\ row # None
  <2>0. c \in Sims[p].commands /\ c # None /\ t = Sims[p].tradeOf[c]
    BY <1>2, <1>3, <1>11 DEF t
  <2>1. CASE ~ok
    <3>1. trade' = trade /\ receipt' = receipt /\ liquidity' = liquidity /\ command' = command
      BY <1>1, <1>11, <2>1 DEF Sim!CompleteCommand, row, t
    <3>. QED BY <1>7, <3>1
  <2>2. CASE ok
    <3>1. /\ receipt' = [receipt EXCEPT ![c] = [base |-> call.base, evs |-> call.evs]]
          /\ liquidity' = call.base \cup {c} /\ trade' = [trade EXCEPT ![t] = row]
          /\ command' = [command EXCEPT ![c] = "COMPLETED"] /\ row # None
      BY <1>1, <1>11, <2>2 DEF Sim!CompleteCommand, row, t
    <3>2. /\ Onward(p) /\ Sim(p)!Created' = Sim(p)!Created
          /\ trade'[t] = row /\ \A u \in Sims[p].trades : u # t => trade'[u] = trade[u]
      BY <1>8, <3>1
    <3>3. /\ command' \in [Sims[p].commands -> {"NONE", "PREPARED", "COMPLETED"}]
          /\ \A d \in Sims[p].commands : command'[d] = IF d = c THEN "COMPLETED" ELSE command[d]
          /\ liquidity' \subseteq Sims[p].commands
      BY <1>3, <1>4, <2>0, <3>1
    <3>. DEFINE r == [base |-> call.base, evs |-> call.evs]
    <3>4. r \in Sim(p)!Receipts /\ r # None /\ r.evs = call.evs
      <4>1. r \in Sim(p)!Receipts /\ r.evs = call.evs
        BY <1>3 DEF Sim!Receipts
      <4>. HIDE DEF r
      <4>. QED BY <4>1, SimFacts
    <3>. HIDE DEF r
    <3>5. /\ receipt' \in [Sims[p].commands -> Sim(p)!Receipts \cup {None}]
          /\ \A d \in Sims[p].commands : receipt'[d] = IF d = c THEN r ELSE receipt[d]
      BY <1>4, <2>0, <3>1, <3>4 DEF r
    <3>6. CommandsOnward(p) /\ \A d \in Sims[p].commands : command'[d] # "NONE" => command[d] # "NONE"
      BY <1>2, <2>0, <3>3 DEF CommandsOnward
    <3>7. \A d \in Sims[p].commands : receipt'[d] # None <=> command'[d] = "COMPLETED"
      BY <1>0, <3>3, <3>4, <3>5 DEF Sim!CompletionIsWhole
    <3>8. ASSUME NEW d \in Sims[p].commands, receipt'[d] # None
          PROVE  Sim(p)!ToSet(receipt'[d].evs) \subseteq Sim(p)!ToSet(trade'[Sims[p].tradeOf[d]].log)
      <4>1. CASE d = c
        <5>1. \A i \in 1..Len(call.evs) : call.evs[i] \in Sim(p)!ToSet(row.log)
          BY <1>6, <3>1 DEF Taken
        <5>2. Sim(p)!ToSet(call.evs) \subseteq Sim(p)!ToSet(row.log)
          BY <5>1 DEF Sim!ToSet
        <5>. QED BY <2>0, <3>2, <3>4, <3>5, <4>1, <5>2
      <4>2. CASE d # c
        <5>. DEFINE u == Sims[p].tradeOf[d]
        <5>0. receipt'[d] = receipt[d] /\ receipt[d] # None
          BY <3>5, <3>8, <4>2
        <5>1. u \in Sims[p].trades /\ trade[u] # None
          BY <1>0, <5>0 DEF Sim!CompletionIsWhole, Sim!TypeOK, Sim!Created
        <5>2. Sim(p)!ToSet(receipt[d].evs) \subseteq Sim(p)!ToSet(trade[u].log)
          BY <1>0, <5>0 DEF Sim!CompletionIsWhole
        <5>3. Extends(trade[u], trade'[u]) /\ SimRow(p, trade[u]) /\ SimRow(p, trade'[u])
          BY <1>0, <3>2, <5>1 DEF Onward, SimRows
        <5>. HIDE DEF u
        <5>4. Sim(p)!ToSet(trade[u].log) \subseteq Sim(p)!ToSet(trade'[u].log)
          BY <5>3, LogGrows
        <5>. QED BY <5>0, <5>2, <5>4 DEF u
      <4>. QED BY <4>1, <4>2
    <3>9. ASSUME NEW u \in Sim(p)!Created, NEW e \in Sim(p)!ToSet(trade'[u].log), e.cmd # None
          PROVE  command'[e.cmd] = "COMPLETED"
      <4>0. u \in Sims[p].trades /\ trade[u] # None /\ SimRow(p, trade[u])
        BY <1>0 DEF Sim!Created, SimRows
      <4>1. CASE u = t
        <5>1. e.cmd \in Sims[p].commands /\ (e.cmd = call.cmd \/ command[e.cmd] = "COMPLETED")
          BY <1>9, <3>1, <3>2, <3>9, <4>1
        <5>. QED BY <3>3, <5>1
      <4>2. CASE u # t
        <5>1. trade'[u] = trade[u]
          BY <3>2, <4>0, <4>2
        <5>2. e.cmd \in Sims[p].commands
          BY <3>9, <4>0, <5>1, EventsTyped
        <5>3. command[e.cmd] = "COMPLETED"
          BY <1>0, <3>9, <5>1 DEF Sim!CompletionIsWhole
        <5>. QED BY <3>3, <5>2, <5>3
      <4>. QED BY <4>1, <4>2
    <3>10. Sim(p)!CompletionIsWhole'
      BY <3>2, <3>7, <3>8, <3>9 DEF Sim!CompletionIsWhole
    <3>. QED BY <1>1, <3>2, <3>3, <3>5, <3>6, <3>10 DEF Committed
  <2>. QED BY <2>1, <2>2
<1>. QED BY <1>10, <1>11

\* A transaction with what becomes of its caller.
LEMMA CommitStep ==
  ASSUME NEW p \in SimParts, SimInv(p), Committed(p), crashes' = crashes,
         ctl' \in [Sims[p].controllers -> Sim(p)!Calls \cup {None}],
         \A x \in Sims[p].controllers : ctl'[x] \in {ctl[x], None}, late' \in {late, None}
  PROVE  SimInv(p)'
<1>0. Sim(p)!TypeOK /\ SimCalls(p)
  BY DEF SimInv
<1>1. /\ session' = session /\ sealed' = sealed /\ decisions' = decisions /\ admitted' = admitted /\ result' = result
      /\ Onward(p) /\ CommandsOnward(p) /\ Sim(p)!CompletionIsWhole'
      /\ command' \in [Sims[p].commands -> {"NONE", "PREPARED", "COMPLETED"}] /\ liquidity' \subseteq Sims[p].commands
      /\ receipt' \in [Sims[p].commands -> Sim(p)!Receipts \cup {None}]
      /\ Sim(p)!Created' = Sim(p)!Created
      /\ \A c \in Sims[p].commands : command'[c] # "NONE" => command[c] # "NONE"
  BY DEF Committed
<1>2. /\ late \in Sim(p)!Calls \cup {None}
      /\ \A x \in Sims[p].controllers : ctl[x] # None => ctl[x].trade \in Sim(p)!Created
      /\ late # None => late.trade \in Sim(p)!Created
  BY <1>0, CallTypes
<1>3. \A c \in ({ctl'[x] : x \in Sims[p].controllers} \cup {late'}) \ {None} : c.trade \in Sim(p)!Created'
  BY <1>1, <1>2
<1>4. trade' \in [Sims[p].trades -> Sim(p)!TradeRows \cup {None}]
  BY <1>1 DEF Onward
<1>5. Sim(p)!TypeOK'
  BY <1>0, <1>1, <1>2, <1>3, <1>4 DEF Sim!TypeOK
<1>6. SimCalls(p)'
  BY <1>0, <1>1, CallStays DEF SimCalls
<1>7. SimRows(p)' /\ SimClosed(p)' /\ Sim(p)!ResultIsTheEnd' /\ Sim(p)!SealedIsHistory'
  BY <1>1, ClosedStays
<1>. QED BY <1>1, <1>5, <1>6, <1>7 DEF SimInv

\* A controller's call is served; a late one arrives.
LEMMA SubmitStep ==
  ASSUME NEW p \in SimParts, SimInv(p), NEW x \in Sims[p].controllers, Sim(p)!Submit(x)
  PROVE  SimInv(p)'
<1>1. /\ ctl[x] # None /\ ctl[x].evs # None /\ Sim(p)!Transaction(ctl[x])
      /\ ctl' = [ctl EXCEPT ![x] = None] /\ late' = late /\ crashes' = crashes
  BY DEF Sim!Submit
<1>2. SimCall(p, ctl[x], trade, command)
  BY <1>1 DEF SimInv, SimCalls
<1>3. Committed(p)
  BY <1>1, <1>2, TransactionKeeps
<1>4. ctl \in [Sims[p].controllers -> Sim(p)!Calls \cup {None}]
  BY CallTypes DEF SimInv
<1>5. /\ ctl' \in [Sims[p].controllers -> Sim(p)!Calls \cup {None}]
      /\ \A y \in Sims[p].controllers : ctl'[y] \in {ctl[y], None}
  BY <1>1, <1>4
<1>. QED BY <1>1, <1>3, <1>5, CommitStep

\* A COMMIT of a dead controller arrives and counts as if it had come in time.
LEMMA DeliverStep ==
  ASSUME NEW p \in SimParts, SimInv(p), Sim(p)!Deliver
  PROVE  SimInv(p)'
<1>1. late # None /\ Sim(p)!Transaction(late) /\ late' = None /\ ctl' = ctl /\ crashes' = crashes
  BY DEF Sim!Deliver
<1>2. SimCall(p, late, trade, command) /\ late.evs # None
  BY <1>1 DEF SimInv, SimCalls
<1>3. Committed(p)
  BY <1>1, <1>2, TransactionKeeps
<1>4. ctl \in [Sims[p].controllers -> Sim(p)!Calls \cup {None}]
  BY CallTypes DEF SimInv
<1>. QED BY <1>1, <1>3, <1>4, CommitStep

\* Every step of a session, and every step that leaves it alone, keeps the invariant.
LEMMA SimStep ==
  ASSUME NEW p \in SimParts, SimInv(p), Sim(p)!Next \/ UNCHANGED simVars
  PROVE  SimInv(p)'
<1>1. CASE Sim(p)!Deliver
  BY <1>1, DeliverStep
<1>2. CASE \/ Sim(p)!CreateSession
           \/ \E t \in Sims[p].trades, d \in {"APPROVED", "REJECTED"} : Sim(p)!RecordRiskDecision(t, d)
           \/ \E t \in Sims[p].trades : Sim(p)!CreateAdmission(t)
  BY <1>2, QuietStep
<1>3. ASSUME NEW t \in Sims[p].trades, Sim(p)!CreateTrade(t) \/ Sim(p)!RecordResult(t) PROVE SimInv(p)'
  BY <1>3, CreateStep, ResultStep
<1>4. ASSUME NEW c \in Sims[p].commands, Sim(p)!PrepareCommand(c) PROVE SimInv(p)'
  BY <1>4, PrepareStep
<1>5. ASSUME NEW s \in {"COMPLETED", "BLOCKED"}, Sim(p)!RecordSessionReceipt(s) PROVE SimInv(p)'
  BY <1>5, ReceiptStep
<1>6. ASSUME NEW x \in Sims[p].controllers, NEW t \in Sims[p].trades, NEW c \in Sims[p].commands \cup {None},
             Sim(p)!PlanEvent(x, t, c)
      PROVE  SimInv(p)'
  BY <1>6, PlanStep
<1>7. ASSUME NEW x \in Sims[p].controllers, NEW c \in Sims[p].commands, Sim(p)!Resume(x, c) PROVE SimInv(p)'
  BY <1>7, ResumeStep
<1>8. ASSUME NEW x \in Sims[p].controllers, Sim(p)!RunKernel(x) \/ Sim(p)!Submit(x) \/ Sim(p)!Crash(x)
      PROVE  SimInv(p)'
  BY <1>8, KernelStep, SubmitStep, SimCrashStep
<1>9. CASE UNCHANGED simVars
  <2>1. /\ session' = session /\ sealed' = sealed /\ decisions' = decisions /\ admitted' = admitted /\ trade' = trade
        /\ command' = command /\ receipt' = receipt /\ liquidity' = liquidity /\ result' = result
        /\ ctl' = ctl /\ late' = late /\ crashes' = crashes
    BY <1>9 DEF simVars
  <2>2. Sim(p)!TypeOK'
    BY <2>1 DEF SimInv, Sim!TypeOK, Sim!Created
  <2>3. SimRows(p)' /\ SimCalls(p)' /\ SimClosed(p)'
    BY <2>1 DEF SimInv, SimRows, SimCalls, SimClosed
  <2>4. Sim(p)!CompletionIsWhole' /\ Sim(p)!ResultIsTheEnd' /\ Sim(p)!SealedIsHistory'
    BY <2>1 DEF SimInv, Sim!CompletionIsWhole, Sim!ResultIsTheEnd, Sim!SealedIsHistory, Sim!Created
  <2>. QED BY <2>2, <2>3, <2>4 DEF SimInv
<1>. QED BY <1>1, <1>2, <1>3, <1>4, <1>5, <1>6, <1>7, <1>8, <1>9 DEF Sim!Next

\* The session of the part that runs.
SessionInv == \A p \in SimParts : part = p => SimInv(p)

\* Each keeps it, and nobody changes the part.
LEMMA SessionInvariant == Spec => []SessionInv
<1>1. Init => SessionInv
  <2>. SUFFICES ASSUME Init, NEW p \in SimParts, part = p PROVE SimInv(p)
    BY DEF SessionInv
  <2>1. Sim(p)!Init
    BY DEF Init, Simulated
  <2>. QED BY <2>1, SimInit
<1>2. SessionInv /\ [Next]_vars => SessionInv'
  <2>. SUFFICES ASSUME SessionInv, [Next]_vars, NEW p \in SimParts, part' = p PROVE SimInv(p)'
    BY DEF SessionInv
  <2>1. part' = part
    BY DEF Next, TapeNext, SimNext, CampaignNext, vars
  <2>2. SimInv(p)
    BY <2>1 DEF SessionInv
  <2>3. Sim(p)!Next \/ UNCHANGED simVars
    BY <2>1 DEF Next, TapeNext, SimNext, CampaignNext, vars
  <2>. QED BY <2>2, <2>3, SimStep
<1>. QED BY <1>1, <1>2, PTL DEF Spec

\* Journals, completions, results and session receipts agree in every session,
\* whatever crashes and however late a COMMIT arrives.
THEOREM SessionsVerify == Spec => []JournalVerifies
<1>1. SessionInv => JournalVerifies
  <2>. SUFFICES ASSUME SessionInv, NEW p \in SimParts, part = p PROVE Sim(p)!JournalVerifies
    BY DEF JournalVerifies
  <2>1. SimInv(p)
    BY DEF SessionInv
  <2>2. Sim(p)!TradeVerifies
    BY <2>1 DEF SimInv, SimRows, SimRow, Sim!TradeVerifies, Sim!Created
  <2>. QED BY <2>1, <2>2 DEF SimInv, Sim!JournalVerifies
<1>. QED BY <1>1, SessionInvariant, PTL

-----------------------------------------------------------------------------
(***************************************************************************)
(* ResearchCampaign.  Rows are never changed and time does not run back,   *)
(* so what was recorded in time stays so; a decision that was counted      *)
(* stays the only one of its arm.                                          *)
(***************************************************************************)
\* What the assumption says of a campaign.
LEMMA CampaignFacts ==
  ASSUME NEW p \in CampaignParts
  PROVE  /\ Campaigns[p].windows \subseteq Nat /\ Campaign(p)!IsFiniteSet(Campaigns[p].windows)
         /\ Campaigns[p].cutOff \in [Campaigns[p].windows -> Nat]
         /\ Campaigns[p].pairBy \in [Campaigns[p].windows -> Nat]
         /\ Campaigns[p].arms \subseteq {"strategy-only", "strategy-review", "llm-proposal-research"}
         /\ Campaigns[p].sources \cap Campaign(p)!Kinds = {}
         /\ Campaigns[p].amounts \subseteq Nat /\ Campaigns[p].maxTick \in Nat
  BY ResearchConstants DEF Campaign!CampaignConstants

\* What a row of a kind holds, at time n.
Payload(p, a, k, r, n) ==
  /\ k \in Campaigns[p].sources => r.tick \in Nat /\ r.seen = Campaign(p)!Clock(r.tick)
  /\ k \in Campaign(p)!Stages => r \in Nat /\ a \in Campaign(p)!Called
  /\ k \in {"evaluation", "terminal", "review", "sample"} => r.rec \in Nat /\ r.rec <= n
  /\ k = "review" => r.status \in Campaign(p)!Actions
  /\ k \in {"start", "terminal", "review"} => a \in Campaign(p)!Called
  /\ k = "outcome" => a \in Campaigns[p].arms

\* The rows: of windows, arms and kinds there are, and what they hold.
CampaignRows(p) ==
  /\ \A w, a, k : <<w, a, k>> \in DOMAIN rows =>
       /\ w \in Campaigns[p].windows /\ a \in Campaigns[p].arms \cup {"all"}
       /\ Payload(p, a, k, rows[<<w, a, k>>], now)
  /\ \A x \in DOMAIN rows : x = <<x[1], x[2], x[3]>>

\* A new row and nothing else.
Stored(w, a, k, r) ==
  /\ <<w, a, k>> \notin DOMAIN rows /\ rows'[<<w, a, k>>] = r
  /\ \A x \in DOMAIN rows : x \in DOMAIN rows' /\ rows'[x] = rows[x]
  /\ \A x \in DOMAIN rows' : x \in DOMAIN rows \/ x = <<w, a, k>>
  /\ <<w, a, k>> \in DOMAIN rows'

\* What the actions that store a row of a kind have checked.
Checked(p, w, a, k, r) ==
  /\ k \in Campaigns[p].sources \cup Campaign(p)!Kinds
  /\ k = "bundle" => \A s \in Campaigns[p].sources : Campaign(p)!InTime(w, s)
  /\ k = "sample" => /\ Campaign(p)!Has(w, "all", "evaluation") /\ Campaign(p)!Has(w, a, "terminal")
                     /\ r.rec = now' /\ Campaign(p)!Clock(now') <= Campaigns[p].pairBy[w]
  /\ k \in {"terminal", "review"} => Campaign(p)!Incomplete(w, a)
  /\ k = "start" => Campaign(p)!Admission(w)
  /\ k \in Campaign(p)!Stages => Campaign(p)!CostAllowed(w, a, k, r)
  /\ k = "outcome" => /\ seal = {} /\ r.status \in Campaign(p)!Outcomes(w, a)
                      /\ r.evaluation = Campaign(p)!Has(w, "all", "evaluation")

\* A step that stores a row, and one that stores none.
StoreStep(p, w, a, k, r) ==
  /\ w \in Campaigns[p].windows /\ a \in Campaigns[p].arms \cup {"all"}
  /\ Stored(w, a, k, r) /\ Payload(p, a, k, r, now') /\ Checked(p, w, a, k, r)
  /\ now' \in 0..Campaigns[p].maxTick /\ now <= now'
  /\ seal' = seal /\ calls' = calls /\ claim' = claim /\ plan' = plan
  /\ mine \subseteq mine' /\ mine' \subseteq mine \cup {x \in {<<w, a>>} : k = "start"}

QuietCampaign(p) ==
  /\ rows' = rows /\ now' \in 0..Campaigns[p].maxTick /\ now <= now'

\* _store makes a new row.
LEMMA StoreIsNew ==
  ASSUME NEW p, NEW w, NEW a, NEW k, NEW r, NEW later, Campaign(p)!Store(w, a, k, r, later)
  PROVE  Stored(w, a, k, r) /\ now' = now + later /\ now + later <= Campaigns[p].maxTick
<1>1. /\ <<w, a, k>> \notin DOMAIN rows /\ now' = now + later /\ now + later <= Campaigns[p].maxTick
      /\ rows' = [x \in DOMAIN rows \cup {<<w, a, k>>} |-> IF x = <<w, a, k>> THEN r ELSE rows[x]]
  BY DEF Campaign!Store, Campaign!Has
<1>2. DOMAIN rows' = DOMAIN rows \cup {<<w, a, k>>} /\ rows'[<<w, a, k>>] = r
  BY <1>1
<1>3. \A x \in DOMAIN rows : rows'[x] = rows[x]
  BY <1>1
<1>. QED BY <1>1, <1>2, <1>3 DEF Stored

\* The kinds, told apart.
LEMMA KindFacts ==
  ASSUME NEW p \in CampaignParts
  PROVE  /\ \A k \in Campaigns[p].sources : k \notin Campaign(p)!Kinds
         /\ Campaign(p)!Stages \subseteq Campaign(p)!Kinds
         /\ {"bundle", "evaluation", "start", "terminal", "review", "sample", "outcome"} \subseteq Campaign(p)!Kinds
         /\ \A k \in {"bundle", "evaluation", "start", "terminal", "review", "sample", "outcome"} : k \notin Campaign(p)!Stages
  BY CampaignFacts DEF Campaign!Kinds, Campaign!Stages

\* capture_source, freeze_bundle and record_causal_evaluation.
LEMMA CaptureStores ==
  ASSUME NEW p \in CampaignParts, Campaign(p)!TypeOK, NEW w \in Campaigns[p].windows,
         NEW s \in Campaigns[p].sources, NEW fresh \in BOOLEAN, Campaign(p)!CaptureSource(w, s, fresh)
  PROVE  \E r : StoreStep(p, w, "all", s, r)
<1>. DEFINE r == [fresh |-> fresh, seen |-> Campaign(p)!Clock(now), tick |-> now]
<1>0. now \in Nat /\ Campaigns[p].maxTick \in Nat
  BY CampaignFacts DEF Campaign!TypeOK
<1>1. Campaign(p)!Store(w, "all", s, r, 0) /\ seal' = seal /\ calls' = calls /\ claim' = claim /\ plan' = plan /\ mine' = mine
  BY DEF Campaign!CaptureSource
<1>2. Stored(w, "all", s, r) /\ now' = now + 0 /\ now + 0 <= Campaigns[p].maxTick
  BY <1>1, StoreIsNew
<1>3. s \notin Campaign(p)!Kinds
  BY KindFacts
<1>4. r.tick \in Nat /\ r.seen = Campaign(p)!Clock(r.tick)
  BY <1>0
<1>. HIDE DEF r
<1>5. Payload(p, "all", s, r, now')
  BY <1>3, <1>4, KindFacts DEF Payload
<1>6. Checked(p, w, "all", s, r)
  BY <1>3, KindFacts DEF Checked
<1>. QED BY <1>0, <1>1, <1>2, <1>5, <1>6 DEF StoreStep

\* freeze_bundle stores a bundle of a claimed window.
LEMMA FreezeStores ==
  ASSUME NEW p \in CampaignParts, Campaign(p)!TypeOK, NEW w \in Campaigns[p].windows, Campaign(p)!FreezeBundle(w)
  PROVE  \E r : StoreStep(p, w, "all", "bundle", r) /\ w \in claim
<1>. DEFINE r == TRUE
<1>0. now \in Nat /\ Campaigns[p].maxTick \in Nat
  BY CampaignFacts DEF Campaign!TypeOK
<1>1. /\ Campaign(p)!Store(w, "all", "bundle", r, 0)
      /\ seal' = seal /\ calls' = calls /\ claim' = claim /\ plan' = plan /\ mine' = mine
      /\ w \in claim /\ \A s \in Campaigns[p].sources : Campaign(p)!InTime(w, s)
  BY DEF Campaign!FreezeBundle
<1>. HIDE DEF r
<1>2. Stored(w, "all", "bundle", r) /\ now' = now + 0 /\ now + 0 <= Campaigns[p].maxTick
  BY <1>1, StoreIsNew
<1>3. Payload(p, "all", "bundle", r, now')
  BY KindFacts DEF Payload
<1>4. Checked(p, w, "all", "bundle", r)
  BY <1>1, KindFacts DEF Checked
<1>5. StoreStep(p, w, "all", "bundle", r)
  BY <1>0, <1>1, <1>2, <1>3, <1>4 DEF StoreStep
<1>. QED BY <1>1, <1>5

\* record_causal_evaluation stores an evaluation of a claimed window.
LEMMA EvaluationStores ==
  ASSUME NEW p \in CampaignParts, Campaign(p)!TypeOK, NEW w \in Campaigns[p].windows,
         NEW intent \in BOOLEAN, NEW later \in 0..1, Campaign(p)!RecordEvaluation(w, intent, later)
  PROVE  \E r : StoreStep(p, w, "all", "evaluation", r) /\ w \in claim
<1>. DEFINE r == [intent |-> intent, at |-> Campaign(p)!Clock(now), rec |-> now + later]
<1>0. now \in Nat /\ Campaigns[p].maxTick \in Nat /\ later \in Nat
  BY CampaignFacts DEF Campaign!TypeOK
<1>1. /\ Campaign(p)!Store(w, "all", "evaluation", r, later)
      /\ seal' = seal /\ calls' = calls /\ claim' = claim /\ plan' = plan /\ mine' = mine /\ w \in claim
  BY DEF Campaign!RecordEvaluation
<1>2. Stored(w, "all", "evaluation", r) /\ now' = now + later /\ now + later <= Campaigns[p].maxTick
  BY <1>1, StoreIsNew
<1>3. r.rec \in Nat /\ r.rec <= now'
  BY <1>0, <1>2
<1>. HIDE DEF r
<1>4. Payload(p, "all", "evaluation", r, now')
  BY <1>3, KindFacts DEF Payload
<1>5. Checked(p, w, "all", "evaluation", r)
  BY KindFacts DEF Checked
<1>. QED BY <1>0, <1>1, <1>2, <1>4, <1>5 DEF StoreStep

\* record_cost and start_attempt.
LEMMA CostStores ==
  ASSUME NEW p \in CampaignParts, Campaign(p)!TypeOK, NEW w \in Campaigns[p].windows, NEW a \in Campaign(p)!Called,
         NEW stage \in Campaign(p)!Stages, NEW n \in Campaigns[p].amounts, Campaign(p)!RecordCost(w, a, stage, n)
  PROVE  StoreStep(p, w, a, stage, n) /\ w \in claim
<1>0. now \in Nat /\ Campaigns[p].maxTick \in Nat /\ a \in Campaigns[p].arms /\ n \in Nat
  BY CampaignFacts DEF Campaign!TypeOK, Campaign!Called
<1>1. /\ Campaign(p)!Store(w, a, stage, n, 0) /\ Campaign(p)!CostAllowed(w, a, stage, n)
      /\ seal' = seal /\ calls' = calls /\ claim' = claim /\ plan' = plan /\ mine' = mine /\ w \in claim
  BY DEF Campaign!RecordCost
<1>2. Stored(w, a, stage, n) /\ now' = now + 0 /\ now + 0 <= Campaigns[p].maxTick
  BY <1>1, StoreIsNew
<1>3. Payload(p, a, stage, n, now')
  BY <1>0, KindFacts DEF Payload
<1>4. Checked(p, w, a, stage, n)
  BY <1>1, KindFacts DEF Checked
<1>5. mine \subseteq mine' /\ mine' \subseteq mine \cup {x \in {<<w, a>>} : stage = "start"}
  BY <1>1
<1>6. now' \in 0..Campaigns[p].maxTick /\ now <= now'
  BY <1>0, <1>2
<1>. QED BY <1>0, <1>1, <1>2, <1>3, <1>4, <1>5, <1>6 DEF StoreStep

\* start_attempt stores a START while the window admits one.
LEMMA StartStores ==
  ASSUME NEW p \in CampaignParts, Campaign(p)!TypeOK, NEW w \in Campaigns[p].windows, NEW a \in Campaign(p)!Called,
         NEW at, Campaign(p)!StartAttempt(w, a, at)
  PROVE  StoreStep(p, w, a, "start", at) /\ w \in claim
<1>0. now \in Nat /\ Campaigns[p].maxTick \in Nat /\ a \in Campaigns[p].arms
  BY CampaignFacts DEF Campaign!TypeOK, Campaign!Called
<1>1. /\ Campaign(p)!Store(w, a, "start", at, 0) /\ Campaign(p)!Admission(w)
      /\ seal' = seal /\ calls' = calls /\ claim' = claim /\ plan' = plan /\ w \in claim
      /\ mine' \in {mine, mine \cup {<<w, a>>}}
  BY DEF Campaign!StartAttempt
<1>2. Stored(w, a, "start", at) /\ now' = now + 0 /\ now + 0 <= Campaigns[p].maxTick
  BY <1>1, StoreIsNew
<1>3. Payload(p, a, "start", at, now')
  BY <1>0, KindFacts DEF Payload
<1>4. Checked(p, w, a, "start", at)
  BY <1>1, KindFacts DEF Checked
<1>5. mine \subseteq mine' /\ mine' \subseteq mine \cup {x \in {<<w, a>>} : "start" = "start"}
  BY <1>1
<1>. QED BY <1>0, <1>1, <1>2, <1>3, <1>4, <1>5 DEF StoreStep

\* A window with a row of the protocol was claimed.
LEMMA StartedIsClaimed ==
  ASSUME NEW p \in CampaignParts, Campaign(p)!TypeOK, NEW w, NEW a, NEW k \in Campaign(p)!Kinds, Campaign(p)!Has(w, a, k)
  PROVE  w \in claim
<1>1. k \notin Campaigns[p].sources
  BY KindFacts
<1>2. <<w, a, k>> \in DOMAIN rows
  BY DEF Campaign!Has
<1>. QED BY <1>1, <1>2 DEF Campaign!TypeOK

\* finish_attempt, record_review and record_causal_pair.
LEMMA FinishStores ==
  ASSUME NEW p \in CampaignParts, Campaign(p)!TypeOK, NEW w \in Campaigns[p].windows, NEW a \in Campaign(p)!Called,
         NEW status, NEW obs, NEW later \in 0..1, Campaign(p)!FinishAttempt(w, a, status, obs, later)
  PROVE  \E r : StoreStep(p, w, a, "terminal", r) /\ w \in claim
<1>. DEFINE r == [status |-> status, obs |-> obs, rec |-> now + later]
<1>0. now \in Nat /\ Campaigns[p].maxTick \in Nat /\ later \in Nat /\ a \in Campaigns[p].arms
  BY CampaignFacts DEF Campaign!TypeOK, Campaign!Called
<1>1. /\ Campaign(p)!Store(w, a, "terminal", r, later) /\ Campaign(p)!Incomplete(w, a)
      /\ seal' = seal /\ calls' = calls /\ claim' = claim /\ plan' = plan /\ mine' = mine
      /\ Campaign(p)!Has(w, a, "start")
  BY DEF Campaign!FinishAttempt, Campaign!ResponseClock
<1>2. Stored(w, a, "terminal", r) /\ now' = now + later /\ now + later <= Campaigns[p].maxTick
  BY <1>1, StoreIsNew
<1>3. r.rec \in Nat /\ r.rec <= now'
  BY <1>0, <1>2
<1>. HIDE DEF r
<1>4. Payload(p, a, "terminal", r, now')
  BY <1>3, KindFacts DEF Payload
<1>5. Checked(p, w, a, "terminal", r)
  BY <1>1, KindFacts DEF Checked
<1>6. w \in claim
  BY <1>1, StartedIsClaimed, KindFacts
<1>. QED BY <1>0, <1>1, <1>2, <1>4, <1>5, <1>6 DEF StoreStep

\* record_review stores the completion of an arm that has none.
LEMMA ReviewStores ==
  ASSUME NEW p \in CampaignParts, Campaign(p)!TypeOK, NEW w \in Campaigns[p].windows,
         "strategy-review" \in Campaigns[p].arms, NEW status \in Campaign(p)!Actions, NEW obs, NEW later \in 0..1,
         Campaign(p)!RecordReview(w, status, obs, later)
  PROVE  \E r : StoreStep(p, w, "strategy-review", "review", r) /\ w \in claim
<1>. DEFINE r == [status |-> status, obs |-> obs, rec |-> now + later]
            a == "strategy-review"
<1>0. now \in Nat /\ Campaigns[p].maxTick \in Nat /\ later \in Nat /\ a \in Campaign(p)!Called
  BY CampaignFacts DEF Campaign!TypeOK, Campaign!Called
<1>1. /\ Campaign(p)!Store(w, a, "review", r, later) /\ Campaign(p)!Incomplete(w, a)
      /\ seal' = seal /\ calls' = calls /\ claim' = claim /\ plan' = plan /\ mine' = mine
      /\ Campaign(p)!Has(w, a, "start")
  BY DEF Campaign!RecordReview, Campaign!ResponseClock
<1>2. Stored(w, a, "review", r) /\ now' = now + later /\ now + later <= Campaigns[p].maxTick
  BY <1>1, StoreIsNew
<1>3. r.rec \in Nat /\ r.rec <= now' /\ r.status = status
  BY <1>0, <1>2
<1>. HIDE DEF r
<1>4. Payload(p, a, "review", r, now')
  BY <1>0, <1>3, KindFacts DEF Payload
<1>5. Checked(p, w, a, "review", r)
  BY <1>1, KindFacts DEF Checked
<1>6. w \in claim
  BY <1>1, StartedIsClaimed, KindFacts
<1>. QED BY <1>0, <1>1, <1>2, <1>4, <1>5, <1>6 DEF StoreStep

\* record_causal_pair stores a sample whose sources were recorded in time.
LEMMA PairStores ==
  ASSUME NEW p \in CampaignParts, Campaign(p)!TypeOK, NEW w \in Campaigns[p].windows,
         "llm-proposal-research" \in Campaigns[p].arms, NEW later \in 0..1, Campaign(p)!RecordCausalPair(w, later)
  PROVE  \E r : StoreStep(p, w, "llm-proposal-research", "sample", r) /\ w \in claim
<1>. DEFINE r == [rec |-> now + later]
            a == "llm-proposal-research"
<1>0. now \in Nat /\ Campaigns[p].maxTick \in Nat /\ later \in Nat
  BY CampaignFacts DEF Campaign!TypeOK
<1>1. /\ Campaign(p)!Store(w, a, "sample", r, later)
      /\ seal' = seal /\ calls' = calls /\ claim' = claim /\ plan' = plan /\ mine' = mine
      /\ Campaign(p)!Has(w, "all", "evaluation") /\ Campaign(p)!Has(w, a, "terminal")
      /\ Campaign(p)!Clock(now + later) <= Campaigns[p].pairBy[w]
  BY DEF Campaign!RecordCausalPair
<1>2. Stored(w, a, "sample", r) /\ now' = now + later /\ now + later <= Campaigns[p].maxTick
  BY <1>1, StoreIsNew
<1>3. r.rec \in Nat /\ r.rec <= now' /\ r.rec = now'
  BY <1>0, <1>2
<1>. HIDE DEF r
<1>4. Payload(p, a, "sample", r, now')
  BY <1>3, KindFacts DEF Payload
<1>5. Checked(p, w, a, "sample", r)
  BY <1>1, <1>2, <1>3, KindFacts DEF Checked
<1>6. w \in claim
  BY <1>1, StartedIsClaimed, KindFacts
<1>. QED BY <1>0, <1>1, <1>2, <1>4, <1>5, <1>6 DEF StoreStep

\* record_outcome.
LEMMA OutcomeStores ==
  ASSUME NEW p \in CampaignParts, Campaign(p)!TypeOK, NEW w \in Campaigns[p].windows, NEW a \in Campaigns[p].arms,
         Campaign(p)!RecordOutcome(w, a)
  PROVE  \E r : StoreStep(p, w, a, "outcome", r) /\ w \in claim
<1>0. now \in Nat /\ Campaigns[p].maxTick \in Nat
  BY CampaignFacts DEF Campaign!TypeOK
<1>1. PICK s \in Campaign(p)!Outcomes(w, a) :
        Campaign(p)!Store(w, a, "outcome", [status |-> s, bundle |-> Campaign(p)!Has(w, "all", "bundle"),
                                           evaluation |-> Campaign(p)!Has(w, "all", "evaluation")], 0)
  BY DEF Campaign!RecordOutcome
<1>. DEFINE r == [status |-> s, bundle |-> Campaign(p)!Has(w, "all", "bundle"),
                  evaluation |-> Campaign(p)!Has(w, "all", "evaluation")]
<1>2. /\ seal' = seal /\ calls' = calls /\ claim' = claim /\ plan' = plan /\ mine' = mine
      /\ w \in claim /\ seal = {}
  BY DEF Campaign!RecordOutcome, Campaign!Open
<1>3. Stored(w, a, "outcome", r) /\ now' = now + 0 /\ now + 0 <= Campaigns[p].maxTick
  BY <1>1, StoreIsNew
<1>4. r.status = s /\ r.evaluation = Campaign(p)!Has(w, "all", "evaluation")
  OBVIOUS
<1>. HIDE DEF r
<1>5. Payload(p, a, "outcome", r, now')
  BY KindFacts DEF Payload
<1>6. Checked(p, w, a, "outcome", r)
  BY <1>1, <1>2, <1>4, KindFacts DEF Checked
<1>. QED BY <1>0, <1>2, <1>3, <1>5, <1>6 DEF StoreStep

\* A step stores a row, of a claimed window unless it is an input, or it is quiet.
CampaignStep(p) ==
  \/ \E w, a, k, r : StoreStep(p, w, a, k, r) /\ (k \notin Campaigns[p].sources => w \in claim)
  \/ /\ QuietCampaign(p)
     /\ \/ UNCHANGED <<claim, seal, mine, calls>> /\ plan' \in BOOLEAN
        \/ UNCHANGED <<plan, seal, mine, calls>> /\ claim \subseteq claim' /\ claim' \subseteq Campaigns[p].windows
        \/ UNCHANGED <<plan, claim, seal, calls>> /\ mine' = {}
        \/ Campaign(p)!SealDenominator
        \/ \E x \in mine : Campaign(p)!Dispatch(x)

\* Every action has one of these forms.
LEMMA CampaignForms ==
  ASSUME NEW p \in CampaignParts, Campaign(p)!TypeOK, Campaign(p)!Next \/ UNCHANGED campaignVars
  PROVE  CampaignStep(p)
<1>0. now \in 0..Campaigns[p].maxTick /\ Campaigns[p].maxTick \in Nat /\ plan \in BOOLEAN /\ claim \subseteq Campaigns[p].windows
  BY CampaignFacts DEF Campaign!TypeOK
<1>. DEFINE G == \E w, a, k, r : StoreStep(p, w, a, k, r) /\ (k \notin Campaigns[p].sources => w \in claim)
<1>1. CASE UNCHANGED campaignVars
  BY <1>0, <1>1 DEF campaignVars, CampaignStep, QuietCampaign
<1>2. CASE Campaign(p)!Tick
  BY <1>0, <1>2 DEF Campaign!Tick, CampaignStep, QuietCampaign
<1>3. CASE Campaign(p)!Register
  BY <1>0, <1>3 DEF Campaign!Register, CampaignStep, QuietCampaign
<1>4. CASE Campaign(p)!ClaimNext
  <2>1. \E w \in Campaigns[p].windows : claim' = claim \cup {w}
    BY <1>4 DEF Campaign!ClaimNext
  <2>2. UNCHANGED <<now, plan, rows, seal, mine, calls>>
    BY <1>4 DEF Campaign!ClaimNext
  <2>. QED BY <1>0, <2>1, <2>2 DEF CampaignStep, QuietCampaign
<1>5. CASE Campaign(p)!Crash
  BY <1>0, <1>5 DEF Campaign!Crash, CampaignStep, QuietCampaign
<1>6. CASE Campaign(p)!SealDenominator
  <2>1. UNCHANGED <<now, rows>>
    BY <1>6 DEF Campaign!SealDenominator
  <2>. QED BY <1>0, <1>6, <2>1 DEF CampaignStep, QuietCampaign
<1>7. ASSUME NEW x \in mine, Campaign(p)!Dispatch(x) PROVE CampaignStep(p)
  <2>1. UNCHANGED <<now, rows>>
    BY <1>7 DEF Campaign!Dispatch
  <2>. QED BY <1>0, <1>7, <2>1 DEF CampaignStep, QuietCampaign
<1>8. ASSUME NEW w \in Campaigns[p].windows, NEW s \in Campaigns[p].sources, NEW fresh \in BOOLEAN,
             Campaign(p)!CaptureSource(w, s, fresh)
      PROVE  G
  BY <1>8, CaptureStores
<1>9. ASSUME NEW w \in Campaigns[p].windows, Campaign(p)!FreezeBundle(w) PROVE G
  BY <1>9, FreezeStores
<1>10. ASSUME NEW w \in Campaigns[p].windows, NEW a \in Campaigns[p].arms, Campaign(p)!RecordOutcome(w, a) PROVE G
  BY <1>10, OutcomeStores
<1>11. ASSUME NEW w \in Campaigns[p].windows, NEW intent \in BOOLEAN, NEW later \in 0..1,
              Campaign(p)!RecordEvaluation(w, intent, later)
       PROVE  G
  BY <1>11, EvaluationStores
<1>12. ASSUME NEW w \in Campaigns[p].windows, NEW later \in 0..1, "llm-proposal-research" \in Campaigns[p].arms,
              Campaign(p)!RecordCausalPair(w, later)
       PROVE  G
  BY <1>12, PairStores
<1>13. ASSUME NEW w \in Campaigns[p].windows, NEW later \in 0..1, "strategy-review" \in Campaigns[p].arms,
              NEW s \in Campaign(p)!Actions, NEW obs, Campaign(p)!RecordReview(w, s, obs, later)
       PROVE  G
  BY <1>13, ReviewStores
<1>14. ASSUME NEW w \in Campaigns[p].windows, NEW later \in 0..1, NEW a \in Campaign(p)!Called,
              NEW s, NEW obs, Campaign(p)!FinishAttempt(w, a, s, obs, later)
       PROVE  G
  BY <1>14, FinishStores
<1>15. ASSUME NEW w \in Campaigns[p].windows, NEW a \in Campaign(p)!Called, NEW at, Campaign(p)!StartAttempt(w, a, at)
       PROVE  G
  BY <1>15, StartStores
<1>16. ASSUME NEW w \in Campaigns[p].windows, NEW a \in Campaign(p)!Called, NEW stage \in Campaign(p)!Stages,
              NEW n \in Campaigns[p].amounts, Campaign(p)!RecordCost(w, a, stage, n)
       PROVE  G
  BY <1>16, CostStores
<1>17. G => CampaignStep(p)
  BY DEF CampaignStep
<1>. HIDE DEF G
<1>18. CASE \E w \in Campaigns[p].windows, later \in 0..1 :
              \/ \E intent \in BOOLEAN : Campaign(p)!RecordEvaluation(w, intent, later)
              \/ "llm-proposal-research" \in Campaigns[p].arms /\ Campaign(p)!RecordCausalPair(w, later)
              \/ /\ "strategy-review" \in Campaigns[p].arms
                 /\ \E s \in Campaign(p)!Actions, obs \in 0..Campaign(p)!Clock(Campaigns[p].maxTick) :
                      Campaign(p)!RecordReview(w, s, obs, later)
              \/ \E a \in Campaign(p)!Called, s \in {"COMPLETED", "FAILED", "UNRESOLVED"},
                    obs \in 0..Campaign(p)!Clock(Campaigns[p].maxTick) :
                   Campaign(p)!FinishAttempt(w, a, s, obs, later)
  BY <1>11, <1>12, <1>13, <1>14, <1>17, <1>18, Zenon
<1>19. CASE \E w \in Campaigns[p].windows, a \in Campaign(p)!Called :
              \/ \E at \in 0..Campaign(p)!Clock(Campaigns[p].maxTick) : Campaign(p)!StartAttempt(w, a, at)
              \/ \E stage \in Campaign(p)!Stages, n \in Campaigns[p].amounts : Campaign(p)!RecordCost(w, a, stage, n)
  BY <1>15, <1>16, <1>17, <1>19, Zenon
<1>20. CASE \E w \in Campaigns[p].windows :
              \/ \E s \in Campaigns[p].sources, fresh \in BOOLEAN : Campaign(p)!CaptureSource(w, s, fresh)
              \/ Campaign(p)!FreezeBundle(w)
              \/ \E a \in Campaigns[p].arms : Campaign(p)!RecordOutcome(w, a)
  BY <1>8, <1>9, <1>10, <1>17, <1>20, Zenon
<1>. QED BY <1>1, <1>2, <1>3, <1>4, <1>5, <1>6, <1>7, <1>18, <1>19, <1>20, Zenon DEF Campaign!Next

\* What is there stays, and what is new is the row that was stored.
Grown(w, a, k, r) ==
  /\ \A v, b, j : <<v, b, j>> \in DOMAIN rows =>
       <<v, b, j>> \in DOMAIN rows' /\ rows'[<<v, b, j>>] = rows[<<v, b, j>>]
  /\ \A v, b, j : <<v, b, j>> \in DOMAIN rows' =>
       <<v, b, j>> \in DOMAIN rows \/ (v = w /\ b = a /\ j = k)
  /\ <<w, a, k>> \in DOMAIN rows' /\ <<w, a, k>> \notin DOMAIN rows /\ rows'[<<w, a, k>>] = r

\* A stored row is such a growth, read by window, arm and kind.
LEMMA RowsGrow ==
  ASSUME NEW p, NEW w, NEW a, NEW k, NEW r, StoreStep(p, w, a, k, r)
  PROVE  Grown(w, a, k, r)
  BY DEF StoreStep, Stored, Grown

\* The rows keep their contents.
LEMMA RowsStep ==
  ASSUME NEW p \in CampaignParts, now \in Nat, CampaignRows(p), CampaignStep(p)
  PROVE  CampaignRows(p)'
<1>1. ASSUME NEW v, NEW b, NEW j, NEW x, Payload(p, b, j, x, now), now' \in Nat, now <= now'
      PROVE  Payload(p, b, j, x, now')
  BY <1>1 DEF Payload
<1>2. ASSUME NEW w, NEW a, NEW k, NEW r, StoreStep(p, w, a, k, r) PROVE CampaignRows(p)'
  <2>0. now' \in Nat /\ now <= now' /\ Payload(p, a, k, r, now')
        /\ w \in Campaigns[p].windows /\ a \in Campaigns[p].arms \cup {"all"}
    BY <1>2, CampaignFacts DEF StoreStep
  <2>. Grown(w, a, k, r)
    BY <1>2, RowsGrow
  <2>1. ASSUME NEW v, NEW b, NEW j, <<v, b, j>> \in DOMAIN rows'
        PROVE  /\ v \in Campaigns[p].windows /\ b \in Campaigns[p].arms \cup {"all"}
               /\ Payload(p, b, j, rows'[<<v, b, j>>], now')
    <3>1. CASE <<v, b, j>> \in DOMAIN rows
      <4>1. rows'[<<v, b, j>>] = rows[<<v, b, j>>]
        BY <3>1 DEF Grown
      <4>2. /\ v \in Campaigns[p].windows /\ b \in Campaigns[p].arms \cup {"all"}
            /\ Payload(p, b, j, rows[<<v, b, j>>], now)
        BY <3>1 DEF CampaignRows
      <4>. QED BY <1>1, <2>0, <4>1, <4>2
    <3>2. CASE v = w /\ b = a /\ j = k
      BY <2>0, <3>2 DEF Grown
    <3>. QED BY <2>1, <3>1, <3>2 DEF Grown
  <2>2. \A x \in DOMAIN rows' : x = <<x[1], x[2], x[3]>>
    BY <1>2 DEF StoreStep, Stored, CampaignRows
  <2>. QED BY <2>1, <2>2 DEF CampaignRows
<1>3. CASE QuietCampaign(p)
  <2>1. rows' = rows /\ now' \in Nat /\ now <= now'
    BY <1>3, CampaignFacts DEF QuietCampaign
  <2>. QED BY <1>1, <2>1 DEF CampaignRows
<1>. QED BY <1>2, <1>3 DEF CampaignStep

\* The parts of the inductive invariant of a campaign: bundles and pairs hold what was
\* known in time,
Bundles(p) ==
  \A w \in Campaigns[p].windows : Campaign(p)!Has(w, "all", "bundle") =>
    \A s \in Campaigns[p].sources : /\ Campaign(p)!Has(w, "all", s)
                                    /\ Campaign(p)!Row(w, "all", s).tick <= 2 * Campaigns[p].cutOff[w]

Pairs(p) ==
  \A w \in Campaigns[p].windows, a \in Campaigns[p].arms : Campaign(p)!Has(w, a, "sample") =>
    /\ Campaign(p)!Has(w, a, "terminal") /\ Campaign(p)!Has(w, "all", "evaluation")
    /\ Campaign(p)!Row(w, a, "sample").rec <= 2 * Campaigns[p].pairBy[w]
    /\ Campaign(p)!Row(w, a, "terminal").rec <= Campaign(p)!Row(w, a, "sample").rec
    /\ Campaign(p)!Row(w, "all", "evaluation").rec <= Campaign(p)!Row(w, a, "sample").rec

\* an arm has one completion,
OneCompletion(p) ==
  \A w \in Campaigns[p].windows, a \in Campaigns[p].arms :
    ~(Campaign(p)!Has(w, a, "terminal") /\ Campaign(p)!Has(w, a, "review"))

\* an outcome is what its rows say, and a window is missed for good,
Earned(p, w, a) ==
  LET o == Campaign(p)!Row(w, a, "outcome")
  IN /\ o.status \in Campaign(p)!Actions \cup {"PROPOSAL", "CALL_FAILED"} =>
          \E d \in Campaign(p)!Decision(w, a) :
            /\ d.rec <= (IF o.evaluation THEN Campaign(p)!Cut(w) ELSE Campaign(p)!Cut(w) + 1)
            /\ o.status \in Campaign(p)!Actions => d.status = o.status
     /\ o.status = "BASELINE" => /\ Campaign(p)!Has(w, "all", "evaluation")
                                 /\ Campaign(p)!Row(w, "all", "evaluation").rec <= Campaign(p)!Cut(w)
     /\ o.status = "MISSED" => /\ ~Campaign(p)!Has(w, a, "start")
                               /\ Campaign(p)!Clock(now) >= Campaigns[p].pairBy[w]

OutcomesEarned(p) ==
  \A w \in Campaigns[p].windows, a \in Campaigns[p].arms : Campaign(p)!Has(w, a, "outcome") => Earned(p, w, a)

\* and a call is made once, by who saw its START.
Dispatches(p) ==
  /\ Campaign(p)!OneDispatch
  /\ \A x \in mine : Campaign(p)!Has(x[1], x[2], "start") /\ calls[x] = 0

\* The clock that rounds up is in time only when the instant was.
LEMMA ClockFacts ==
  ASSUME NEW p, NEW t \in Nat, NEW c \in Nat
  PROVE  /\ Campaign(p)!Clock(t) \in Nat
         /\ Campaign(p)!Clock(t) <= c => t <= 2 * c
         /\ Campaign(p)!Floor(t) <= c => t <= 2 * c + 1
         /\ \A u \in Nat : t <= u => Campaign(p)!Clock(t) <= Campaign(p)!Clock(u)
  BY DEF Campaign!Clock, Campaign!Floor

\* Every step keeps the types of a campaign's rows.
LEMMA CampaignTypes ==
  ASSUME NEW p \in CampaignParts, Campaign(p)!TypeOK, CampaignStep(p)
  PROVE  Campaign(p)!TypeOK'
<1>0. /\ now \in 0..Campaigns[p].maxTick /\ plan \in BOOLEAN /\ claim \subseteq Campaigns[p].windows
      /\ \A x \in DOMAIN rows : /\ x[1] \in Campaigns[p].windows /\ x[2] \in Campaigns[p].arms \cup {"all"}
                                /\ (x[3] \notin Campaigns[p].sources => x[1] \in claim)
      /\ Campaign(p)!Cardinality(seal) <= 1 /\ mine \subseteq Campaigns[p].windows \X Campaign(p)!Called
      /\ calls \in [Campaigns[p].windows \X Campaign(p)!Called -> 0..2]
  BY DEF Campaign!TypeOK
<1>1. ASSUME NEW w, NEW a, NEW k, NEW r, StoreStep(p, w, a, k, r), k \notin Campaigns[p].sources => w \in claim
      PROVE  Campaign(p)!TypeOK'
  <2>1. /\ w \in Campaigns[p].windows /\ a \in Campaigns[p].arms \cup {"all"}
        /\ Stored(w, a, k, r) /\ now' \in 0..Campaigns[p].maxTick
        /\ seal' = seal /\ calls' = calls /\ claim' = claim /\ plan' = plan
        /\ mine' \subseteq mine \cup {x \in {<<w, a>>} : k = "start"} /\ Payload(p, a, k, r, now')
    BY <1>1 DEF StoreStep
  <2>2. \A x \in DOMAIN rows' : /\ x[1] \in Campaigns[p].windows /\ x[2] \in Campaigns[p].arms \cup {"all"}
                                /\ (x[3] \notin Campaigns[p].sources => x[1] \in claim)
    BY <1>0, <1>1, <2>1 DEF Stored
  <2>3. mine' \subseteq Campaigns[p].windows \X Campaign(p)!Called
    BY <1>0, <2>1 DEF Payload
  <2>. QED BY <1>0, <2>1, <2>2, <2>3 DEF Campaign!TypeOK
<1>2. ASSUME rows' = rows, now' \in 0..Campaigns[p].maxTick, plan' \in BOOLEAN, claim' \subseteq Campaigns[p].windows,
             claim \subseteq claim', Campaign(p)!Cardinality(seal') <= 1, mine' \subseteq mine,
             calls' \in [Campaigns[p].windows \X Campaign(p)!Called -> 0..2]
      PROVE  Campaign(p)!TypeOK'
  BY <1>0, <1>2 DEF Campaign!TypeOK
<1>3. CASE QuietCampaign(p) /\ Campaign(p)!SealDenominator
  <2>1. rows' = rows /\ now' \in 0..Campaigns[p].maxTick
    BY <1>3 DEF QuietCampaign
  <2>2. plan' = plan /\ claim' = claim /\ mine' = mine /\ calls' = calls /\ \E d : seal' = {d}
    BY <1>3 DEF Campaign!SealDenominator
  <2>3. Campaign(p)!Cardinality(seal') <= 1
    <3>1. PICK d : seal' = {d}
      BY <2>2
    <3>2. Cardinality({d}) = 1
      BY FS_Singleton
    <3>3. Campaign(p)!Cardinality({d}) = Cardinality({d})
      BY Zenon DEF Campaign!Cardinality, Cardinality
    <3>. QED BY <3>1, <3>2, <3>3
  <2>. QED BY <1>0, <1>2, <2>1, <2>2, <2>3
<1>4. ASSUME QuietCampaign(p), NEW x \in mine, Campaign(p)!Dispatch(x) PROVE Campaign(p)!TypeOK'
  <2>1. rows' = rows /\ now' \in 0..Campaigns[p].maxTick
    BY <1>4 DEF QuietCampaign
  <2>2. /\ plan' = plan /\ claim' = claim /\ mine' = mine \ {x} /\ seal' = seal
        /\ calls' = [calls EXCEPT ![x] = IF @ < 2 THEN @ + 1 ELSE @]
    BY <1>4 DEF Campaign!Dispatch
  <2>3. x \in Campaigns[p].windows \X Campaign(p)!Called /\ calls[x] \in 0..2
    BY <1>0
  <2>4. calls' \in [Campaigns[p].windows \X Campaign(p)!Called -> 0..2]
    BY <1>0, <2>2, <2>3
  <2>. QED BY <1>0, <1>2, <2>1, <2>2, <2>4
<1>5. CASE /\ QuietCampaign(p)
           /\ \/ UNCHANGED <<claim, seal, mine, calls>> /\ plan' \in BOOLEAN
              \/ UNCHANGED <<plan, seal, mine, calls>> /\ claim \subseteq claim' /\ claim' \subseteq Campaigns[p].windows
              \/ UNCHANGED <<plan, claim, seal, calls>> /\ mine' = {}
  <2>1. rows' = rows /\ now' \in 0..Campaigns[p].maxTick
    BY <1>5 DEF QuietCampaign
  <2>. QED BY <1>0, <1>2, <1>5, <2>1
<1>. QED BY <1>1, <1>3, <1>4, <1>5 DEF CampaignStep

\* freeze_bundle has checked every source, and they stay.
LEMMA BundlesStep ==
  ASSUME NEW p \in CampaignParts, now \in Nat, CampaignRows(p), Bundles(p), CampaignStep(p)
  PROVE  Bundles(p)'
<1>1. ASSUME NEW w, NEW a, NEW k, NEW r, StoreStep(p, w, a, k, r) PROVE Bundles(p)'
  <2>. SUFFICES ASSUME NEW v \in Campaigns[p].windows, <<v, "all", "bundle">> \in DOMAIN rows', NEW s \in Campaigns[p].sources
                PROVE  <<v, "all", s>> \in DOMAIN rows' /\ rows'[<<v, "all", s>>].tick <= 2 * Campaigns[p].cutOff[v]
    BY DEF Bundles, Campaign!Has, Campaign!Row
  <2>1. Grown(w, a, k, r) /\ Checked(p, w, a, k, r)
    BY <1>1, RowsGrow DEF StoreStep
  <2>2. <<v, "all", s>> \in DOMAIN rows /\ rows[<<v, "all", s>>].tick <= 2 * Campaigns[p].cutOff[v]
    <3>1. CASE <<v, "all", "bundle">> \in DOMAIN rows
      BY <3>1 DEF Bundles, Campaign!Has, Campaign!Row
    <3>2. CASE v = w /\ a = "all" /\ k = "bundle"
      <4>1. Campaign(p)!InTime(v, s)
        BY <2>1, <3>2 DEF Checked
      <4>2. <<v, "all", s>> \in DOMAIN rows /\ rows[<<v, "all", s>>].seen <= Campaigns[p].cutOff[v]
        BY <4>1 DEF Campaign!InTime, Campaign!Has, Campaign!Row
      <4>3. Payload(p, "all", s, rows[<<v, "all", s>>], now)
        BY <4>2 DEF CampaignRows
      <4>4. rows[<<v, "all", s>>].tick \in Nat /\ rows[<<v, "all", s>>].seen = Campaign(p)!Clock(rows[<<v, "all", s>>].tick)
        BY <4>3 DEF Payload
      <4>5. Campaigns[p].cutOff[v] \in Nat
        BY CampaignFacts
      <4>. QED BY <4>2, <4>4, <4>5, ClockFacts
    <3>. QED BY <2>1, <3>1, <3>2 DEF Grown
  <2>. QED BY <2>1, <2>2 DEF Grown
<1>2. CASE QuietCampaign(p)
  BY <1>2 DEF QuietCampaign, Bundles, Campaign!Has, Campaign!Row
<1>. QED BY <1>1, <1>2 DEF CampaignStep

\* record_causal_pair comes after what it pairs, and before the cutoff.
LEMMA PairsStep ==
  ASSUME NEW p \in CampaignParts, now \in Nat, CampaignRows(p), Pairs(p), CampaignStep(p)
  PROVE  Pairs(p)'
<1>1. ASSUME NEW w, NEW a, NEW k, NEW r, StoreStep(p, w, a, k, r) PROVE Pairs(p)'
  <2>. SUFFICES ASSUME NEW v \in Campaigns[p].windows, NEW b \in Campaigns[p].arms, <<v, b, "sample">> \in DOMAIN rows'
                PROVE  /\ <<v, b, "terminal">> \in DOMAIN rows' /\ <<v, "all", "evaluation">> \in DOMAIN rows'
                       /\ rows'[<<v, b, "sample">>].rec <= 2 * Campaigns[p].pairBy[v]
                       /\ rows'[<<v, b, "terminal">>].rec <= rows'[<<v, b, "sample">>].rec
                       /\ rows'[<<v, "all", "evaluation">>].rec <= rows'[<<v, b, "sample">>].rec
    BY DEF Pairs, Campaign!Has, Campaign!Row
  <2>1. Grown(w, a, k, r) /\ Checked(p, w, a, k, r) /\ now' \in Nat /\ now <= now'
    BY <1>1, RowsGrow, CampaignFacts DEF StoreStep
  <2>2. CASE <<v, b, "sample">> \in DOMAIN rows
    <3>1. /\ <<v, b, "terminal">> \in DOMAIN rows /\ <<v, "all", "evaluation">> \in DOMAIN rows
          /\ rows[<<v, b, "sample">>].rec <= 2 * Campaigns[p].pairBy[v]
          /\ rows[<<v, b, "terminal">>].rec <= rows[<<v, b, "sample">>].rec
          /\ rows[<<v, "all", "evaluation">>].rec <= rows[<<v, b, "sample">>].rec
      BY <2>2 DEF Pairs, Campaign!Has, Campaign!Row
    <3>. QED BY <2>1, <2>2, <3>1 DEF Grown
  <2>3. CASE v = w /\ b = a /\ k = "sample"
    <3>1. /\ <<v, "all", "evaluation">> \in DOMAIN rows /\ <<v, b, "terminal">> \in DOMAIN rows
          /\ r.rec = now' /\ Campaign(p)!Clock(now') <= Campaigns[p].pairBy[v]
      BY <2>1, <2>3 DEF Checked, Campaign!Has
    <3>2. now' <= 2 * Campaigns[p].pairBy[v]
      <4>1. Campaigns[p].pairBy[v] \in Nat
        BY CampaignFacts
      <4>. QED BY <2>1, <3>1, <4>1, ClockFacts
    <3>3. Payload(p, b, "terminal", rows[<<v, b, "terminal">>], now) /\ Payload(p, "all", "evaluation", rows[<<v, "all", "evaluation">>], now)
      BY <3>1 DEF CampaignRows
    <3>4. /\ rows[<<v, b, "terminal">>].rec \in Nat /\ rows[<<v, b, "terminal">>].rec <= now
          /\ rows[<<v, "all", "evaluation">>].rec \in Nat /\ rows[<<v, "all", "evaluation">>].rec <= now
      BY <3>3 DEF Payload
    <3>5. /\ rows'[<<v, b, "terminal">>] = rows[<<v, b, "terminal">>] /\ rows'[<<v, b, "sample">>] = r
          /\ rows'[<<v, "all", "evaluation">>] = rows[<<v, "all", "evaluation">>]
          /\ <<v, b, "terminal">> \in DOMAIN rows' /\ <<v, "all", "evaluation">> \in DOMAIN rows'
      BY <2>1, <2>3, <3>1 DEF Grown
    <3>6. rows[<<v, b, "terminal">>].rec <= now' /\ rows[<<v, "all", "evaluation">>].rec <= now'
      BY <2>1, <3>4
    <3>. QED BY <3>1, <3>2, <3>5, <3>6
  <2>. QED BY <2>1, <2>2, <2>3 DEF Grown
<1>2. CASE QuietCampaign(p)
  BY <1>2 DEF QuietCampaign, Pairs, Campaign!Has, Campaign!Row
<1>. QED BY <1>1, <1>2 DEF CampaignStep

\* finish_attempt and record_review refuse an arm that has either.
LEMMA CompletionStep ==
  ASSUME NEW p \in CampaignParts, OneCompletion(p), CampaignStep(p)
  PROVE  OneCompletion(p)'
<1>1. ASSUME NEW w, NEW a, NEW k, NEW r, StoreStep(p, w, a, k, r) PROVE OneCompletion(p)'
  <2>1. Grown(w, a, k, r) /\ Checked(p, w, a, k, r)
    BY <1>1, RowsGrow DEF StoreStep
  <2>2. k \in {"terminal", "review"} => <<w, a, "terminal">> \notin DOMAIN rows /\ <<w, a, "review">> \notin DOMAIN rows
    BY <2>1 DEF Checked, Campaign!Incomplete, Campaign!Has
  <2>3. ASSUME NEW v \in Campaigns[p].windows, NEW b \in Campaigns[p].arms,
               <<v, b, "terminal">> \in DOMAIN rows', <<v, b, "review">> \in DOMAIN rows'
        PROVE  FALSE
    <3>1. /\ <<v, b, "terminal">> \in DOMAIN rows \/ (v = w /\ b = a /\ k = "terminal")
          /\ <<v, b, "review">> \in DOMAIN rows \/ (v = w /\ b = a /\ k = "review")
      BY <2>1, <2>3 DEF Grown
    <3>2. ~(<<v, b, "terminal">> \in DOMAIN rows /\ <<v, b, "review">> \in DOMAIN rows)
      BY DEF OneCompletion, Campaign!Has
    <3>. QED BY <2>2, <3>1, <3>2
  <2>. QED BY <2>3 DEF OneCompletion, Campaign!Has
<1>2. CASE QuietCampaign(p)
  BY <1>2 DEF QuietCampaign, OneCompletion, Campaign!Has
<1>. QED BY <1>1, <1>2 DEF CampaignStep

\* What the derivation of an outcome says of the rows it is derived from.
LEMMA OutcomeSays ==
  ASSUME NEW p \in CampaignParts, now \in Nat, CampaignRows(p), NEW w \in Campaigns[p].windows, NEW a \in Campaigns[p].arms,
         NEW s \in Campaign(p)!Outcomes(w, a)
  PROVE  /\ s \in Campaign(p)!Actions \cup {"PROPOSAL", "CALL_FAILED"} =>
              \E d \in Campaign(p)!Decision(w, a) :
                /\ d.rec <= (IF Campaign(p)!Has(w, "all", "evaluation") THEN Campaign(p)!Cut(w) ELSE Campaign(p)!Cut(w) + 1)
                /\ s \in Campaign(p)!Actions => d.status = s
         /\ s = "BASELINE" => /\ Campaign(p)!Has(w, "all", "evaluation")
                              /\ Campaign(p)!Row(w, "all", "evaluation").rec <= Campaign(p)!Cut(w)
         /\ s = "MISSED" => /\ ~Campaign(p)!Has(w, a, "start") /\ Campaign(p)!Clock(now) >= Campaigns[p].pairBy[w]
<1>0. Campaigns[p].pairBy[w] \in Nat /\ Campaign(p)!Cut(w) = 2 * Campaigns[p].pairBy[w]
  BY CampaignFacts DEF Campaign!Cut
<1>1. CASE Campaign(p)!Has(w, a, "start")
  <2>0. s = Campaign(p)!Derived(w, a)
    BY <1>1 DEF Campaign!Outcomes
  <2>1. CASE \E d \in Campaign(p)!Decision(w, a) : d.status # "UNRESOLVED"
    <3>. DEFINE d == CHOOSE d \in Campaign(p)!Decision(w, a) : TRUE
    <3>1. d \in Campaign(p)!Decision(w, a)
      BY <2>1
    <3>2. s = IF Campaign(p)!Late(w, d) THEN "LATE" ELSE IF Campaign(p)!Has(w, a, "review") THEN d.status
              ELSE IF d.status = "FAILED" THEN "CALL_FAILED" ELSE "PROPOSAL"
      BY <2>0, <2>1, Zenon DEF Campaign!Derived
    <3>. HIDE DEF d
    <3>3. \/ <<w, a, "review">> \in DOMAIN rows /\ d = rows[<<w, a, "review">>]
          \/ <<w, a, "review">> \notin DOMAIN rows /\ <<w, a, "terminal">> \in DOMAIN rows /\ d = rows[<<w, a, "terminal">>]
      BY <3>1 DEF Campaign!Decision, Campaign!Has, Campaign!Row
    <3>4. \E k \in {"review", "terminal"} : Payload(p, a, k, d, now) /\ (k = "review" <=> Campaign(p)!Has(w, a, "review"))
      BY <3>3 DEF CampaignRows, Campaign!Has
    <3>5. d.rec \in Nat /\ (Campaign(p)!Has(w, a, "review") => d.status \in Campaign(p)!Actions)
      BY <3>4 DEF Payload
    <3>6. s # "BASELINE" /\ s # "MISSED"
      BY <3>2, <3>5 DEF Campaign!Actions
    <3>7. CASE Campaign(p)!Late(w, d)
      BY <3>2, <3>6, <3>7 DEF Campaign!Actions
    <3>8. CASE ~Campaign(p)!Late(w, d)
      <4>1. d.rec <= (IF Campaign(p)!Has(w, "all", "evaluation") THEN Campaign(p)!Cut(w) ELSE Campaign(p)!Cut(w) + 1)
        <5>1. Campaign(p)!Clock(d.rec) \in Nat /\ Campaign(p)!Floor(d.rec) \in Nat
          BY <3>5, ClockFacts DEF Campaign!Floor
        <5>2. ~((IF Campaign(p)!Has(w, "all", "evaluation") THEN Campaign(p)!Clock(d.rec) ELSE Campaign(p)!Floor(d.rec))
                  > Campaigns[p].pairBy[w])
          BY <3>8 DEF Campaign!Late
        <5>3. CASE Campaign(p)!Has(w, "all", "evaluation")
          <6>1. Campaign(p)!Clock(d.rec) <= Campaigns[p].pairBy[w]
            BY <1>0, <5>1, <5>2, <5>3
          <6>. QED BY <1>0, <3>5, <5>3, <6>1, ClockFacts
        <5>4. CASE ~Campaign(p)!Has(w, "all", "evaluation")
          <6>1. Campaign(p)!Floor(d.rec) <= Campaigns[p].pairBy[w]
            BY <1>0, <5>1, <5>2, <5>4
          <6>. QED BY <1>0, <3>5, <5>4, <6>1, ClockFacts
        <5>. QED BY <5>3, <5>4
      <4>2. s \in Campaign(p)!Actions => d.status = s
        BY <3>2, <3>8 DEF Campaign!Actions
      <4>. QED BY <3>1, <3>6, <4>1, <4>2
    <3>. QED BY <3>7, <3>8
  <2>2. CASE ~\E d \in Campaign(p)!Decision(w, a) : d.status # "UNRESOLVED"
    <3>1. s = "UNKNOWN"
      BY <2>0, <2>2, Zenon DEF Campaign!Derived
    <3>. QED BY <3>1 DEF Campaign!Actions
  <2>. QED BY <2>1, <2>2
<1>2. CASE ~Campaign(p)!Has(w, a, "start")
  <2>0. s \in Campaign(p)!WithoutCall(w, a)
    BY <1>2 DEF Campaign!Outcomes
  <2>. DEFINE e == Campaign(p)!Row(w, "all", "evaluation")
              has == Campaign(p)!Has(w, "all", "evaluation")
              lateEval == has /\ (e.at > Campaigns[p].pairBy[w] \/ Campaign(p)!Clock(e.rec) > Campaigns[p].pairBy[w])
  <2>1. CASE lateEval
    <3>1. s = "LATE"
      BY <2>0, <2>1 DEF Campaign!WithoutCall
    <3>. QED BY <3>1 DEF Campaign!Actions
  <2>2. CASE ~lateEval
    <3>1. /\ s \in {"BASELINE", "NO_INTENT", "EVALUATOR_FAILED", "UNKNOWN", "SOURCE_MISSING", "MISSED", "BUDGET_BLOCKED"}
          /\ s = "BASELINE" => has
          /\ s = "MISSED" => Campaign(p)!Clock(now) >= Campaigns[p].pairBy[w]
      BY <2>0, <2>2 DEF Campaign!WithoutCall
    <3>2. s = "BASELINE" => e.rec <= Campaign(p)!Cut(w)
      <4>. SUFFICES ASSUME s = "BASELINE" PROVE e.rec <= Campaign(p)!Cut(w)
        OBVIOUS
      <4>1. has /\ ~(Campaign(p)!Clock(e.rec) > Campaigns[p].pairBy[w])
        BY <2>2, <3>1
      <4>2. Payload(p, "all", "evaluation", e, now)
        BY <4>1 DEF CampaignRows, Campaign!Has, Campaign!Row
      <4>3. e.rec \in Nat
        BY <4>2 DEF Payload
      <4>. HIDE DEF e, has
      <4>4. Campaign(p)!Clock(e.rec) <= Campaigns[p].pairBy[w]
        BY <1>0, <4>1, <4>3, ClockFacts
      <4>. QED BY <1>0, <4>3, <4>4, ClockFacts
    <3>. QED BY <1>2, <3>1, <3>2 DEF Campaign!Actions
  <2>. QED BY <2>1, <2>2
<1>. QED BY <1>1, <1>2

\* The completion that an outcome was taken from stays the decision of its arm.
LEMMA DecisionStays ==
  ASSUME NEW p, NEW w, NEW a, NEW k, NEW r, Grown(w, a, k, r), Checked(p, w, a, k, r),
         NEW v, NEW b, NEW d \in Campaign(p)!Decision(v, b)
  PROVE  d \in Campaign(p)!Decision(v, b)'
<1>1. k \in {"terminal", "review"} => <<w, a, "terminal">> \notin DOMAIN rows /\ <<w, a, "review">> \notin DOMAIN rows
  BY DEF Checked, Campaign!Incomplete, Campaign!Has
<1>2. CASE <<v, b, "review">> \in DOMAIN rows
  <2>1. d = rows[<<v, b, "review">>]
    BY <1>2 DEF Campaign!Decision, Campaign!Has, Campaign!Row
  <2>2. <<v, b, "review">> \in DOMAIN rows' /\ rows'[<<v, b, "review">>] = d
    BY <1>2, <2>1 DEF Grown
  <2>. QED BY <2>2 DEF Campaign!Decision, Campaign!Has, Campaign!Row
<1>3. CASE <<v, b, "review">> \notin DOMAIN rows
  <2>1. <<v, b, "terminal">> \in DOMAIN rows /\ d = rows[<<v, b, "terminal">>]
    BY <1>3 DEF Campaign!Decision, Campaign!Has, Campaign!Row
  <2>2. <<v, b, "terminal">> \in DOMAIN rows' /\ rows'[<<v, b, "terminal">>] = d
    BY <2>1 DEF Grown
  <2>3. <<v, b, "review">> \notin DOMAIN rows'
    BY <1>1, <1>3, <2>1 DEF Grown
  <2>. QED BY <2>2, <2>3 DEF Campaign!Decision, Campaign!Has, Campaign!Row
<1>. QED BY <1>2, <1>3

\* An outcome keeps what earned it, and a window that was missed takes no start.
LEMMA EarnedStep ==
  ASSUME NEW p \in CampaignParts, now \in Nat, CampaignRows(p), OutcomesEarned(p), CampaignStep(p)
  PROVE  OutcomesEarned(p)'
<1>1. ASSUME NEW w, NEW a, NEW k, NEW r, StoreStep(p, w, a, k, r) PROVE OutcomesEarned(p)'
  <2>. SUFFICES ASSUME NEW v \in Campaigns[p].windows, NEW b \in Campaigns[p].arms, <<v, b, "outcome">> \in DOMAIN rows'
                PROVE  Earned(p, v, b)'
    BY DEF OutcomesEarned, Campaign!Has
  <2>1. Grown(w, a, k, r) /\ Checked(p, w, a, k, r) /\ now' \in Nat /\ now <= now'
    BY <1>1, RowsGrow, CampaignFacts DEF StoreStep
  <2>. DEFINE o == rows'[<<v, b, "outcome">>]
              Said == /\ o.status \in Campaign(p)!Actions \cup {"PROPOSAL", "CALL_FAILED"} =>
                           \E d \in Campaign(p)!Decision(v, b) :
                             /\ d.rec <= (IF o.evaluation THEN Campaign(p)!Cut(v) ELSE Campaign(p)!Cut(v) + 1)
                             /\ o.status \in Campaign(p)!Actions => d.status = o.status
                      /\ o.status = "BASELINE" =>
                           /\ <<v, "all", "evaluation">> \in DOMAIN rows
                           /\ rows[<<v, "all", "evaluation">>].rec <= Campaign(p)!Cut(v)
                      /\ o.status = "MISSED" => /\ <<v, b, "start">> \notin DOMAIN rows
                                                /\ Campaign(p)!Clock(now) >= Campaigns[p].pairBy[v]
  <2>2. Said
    <3>1. CASE <<v, b, "outcome">> \in DOMAIN rows
      <4>1. o = rows[<<v, b, "outcome">>]
        BY <2>1, <3>1 DEF Grown
      <4>2. Earned(p, v, b)
        BY <3>1 DEF OutcomesEarned, Campaign!Has
      <4>. HIDE DEF o
      <4>. QED BY <4>1, <4>2, Zenon DEF Earned, Campaign!Row, Campaign!Has
    <3>2. CASE v = w /\ b = a /\ k = "outcome"
      <4>1. o = r
        BY <2>1, <3>2 DEF Grown
      <4>2. /\ r.status \in Campaign(p)!Outcomes(v, b) /\ r.evaluation = Campaign(p)!Has(v, "all", "evaluation")
        BY <2>1, <3>2 DEF Checked
      <4>. HIDE DEF o
      <4>. DEFINE s == r.status
                  e == r.evaluation
      <4>3. /\ s \in Campaign(p)!Actions \cup {"PROPOSAL", "CALL_FAILED"} =>
                 \E d \in Campaign(p)!Decision(v, b) :
                   /\ d.rec <= (IF Campaign(p)!Has(v, "all", "evaluation") THEN Campaign(p)!Cut(v) ELSE Campaign(p)!Cut(v) + 1)
                   /\ s \in Campaign(p)!Actions => d.status = s
            /\ s = "BASELINE" => /\ Campaign(p)!Has(v, "all", "evaluation")
                                 /\ Campaign(p)!Row(v, "all", "evaluation").rec <= Campaign(p)!Cut(v)
            /\ s = "MISSED" => /\ ~Campaign(p)!Has(v, b, "start") /\ Campaign(p)!Clock(now) >= Campaigns[p].pairBy[v]
        <5>. s \in Campaign(p)!Outcomes(v, b)
          BY <4>2
        <5>. HIDE DEF s
        <5>. QED BY OutcomeSays
      <4>4. e = Campaign(p)!Has(v, "all", "evaluation") /\ o.status = s /\ o.evaluation = e
        BY <4>1, <4>2
      <4>. HIDE DEF s, e
      <4>. QED BY <4>3, <4>4, Zenon DEF Campaign!Row, Campaign!Has
    <3>. QED BY <2>1, <3>1, <3>2 DEF Grown
  <2>. HIDE DEF Said
  <2>3. ASSUME o.status \in Campaign(p)!Actions \cup {"PROPOSAL", "CALL_FAILED"}
        PROVE  \E d \in Campaign(p)!Decision(v, b)' :
                 /\ d.rec <= (IF o.evaluation THEN Campaign(p)!Cut(v) ELSE Campaign(p)!Cut(v) + 1)
                 /\ o.status \in Campaign(p)!Actions => d.status = o.status
    <3>. HIDE DEF o
    <3>1. PICK d \in Campaign(p)!Decision(v, b) :
            /\ d.rec <= (IF o.evaluation THEN Campaign(p)!Cut(v) ELSE Campaign(p)!Cut(v) + 1)
            /\ o.status \in Campaign(p)!Actions => d.status = o.status
      BY <2>2, <2>3, Zenon DEF Said
    <3>2. d \in Campaign(p)!Decision(v, b)'
      BY <2>1, DecisionStays
    <3>. QED BY <3>1, <3>2, Zenon
  <2>4. ASSUME o.status = "BASELINE"
        PROVE  <<v, "all", "evaluation">> \in DOMAIN rows' /\ rows'[<<v, "all", "evaluation">>].rec <= Campaign(p)!Cut(v)
    <3>1. <<v, "all", "evaluation">> \in DOMAIN rows /\ rows[<<v, "all", "evaluation">>].rec <= Campaign(p)!Cut(v)
      BY <2>2, <2>4 DEF Said
    <3>. QED BY <2>1, <3>1 DEF Grown
  <2>5. ASSUME o.status = "MISSED"
        PROVE  <<v, b, "start">> \notin DOMAIN rows' /\ Campaign(p)!Clock(now') >= Campaigns[p].pairBy[v]
    <3>1. <<v, b, "start">> \notin DOMAIN rows /\ Campaign(p)!Clock(now) >= Campaigns[p].pairBy[v]
      BY <2>2, <2>5 DEF Said
    <3>. DEFINE c == Campaign(p)!Clock(now)
                d == Campaign(p)!Clock(now')
    <3>2. c \in Nat /\ d \in Nat /\ c <= d /\ Campaigns[p].pairBy[v] \in Nat
      BY <2>1, ClockFacts, CampaignFacts
    <3>3. ~(v = w /\ k = "start")
      <4>. SUFFICES ASSUME v = w, k = "start" PROVE FALSE
        OBVIOUS
      <4>1. c < Campaigns[p].pairBy[v]
        BY <2>1 DEF Checked, Campaign!Admission
      <4>. HIDE DEF c, d
      <4>. QED BY <3>1, <3>2, <4>1 DEF c
    <3>4. <<v, b, "start">> \notin DOMAIN rows'
      BY <2>1, <3>1, <3>3 DEF Grown
    <3>5. c >= Campaigns[p].pairBy[v]
      BY <3>1
    <3>. HIDE DEF c, d
    <3>6. d >= Campaigns[p].pairBy[v]
      BY <3>2, <3>5
    <3>. QED BY <3>4, <3>6 DEF d
  <2>. QED
    <3>. HIDE DEF o
    <3>. QED BY <2>3, <2>4, <2>5, Zenon DEF Earned, Campaign!Row, Campaign!Has, o, Campaign!Cut, Campaign!Actions
<1>2. CASE QuietCampaign(p)
  <2>1. rows' = rows /\ now' \in Nat /\ now <= now'
    BY <1>2, CampaignFacts DEF QuietCampaign
  <2>. SUFFICES ASSUME NEW v \in Campaigns[p].windows, NEW b \in Campaigns[p].arms, <<v, b, "outcome">> \in DOMAIN rows
                PROVE  Earned(p, v, b)'
    BY <2>1 DEF OutcomesEarned, Campaign!Has
  <2>2. Earned(p, v, b)
    BY DEF OutcomesEarned, Campaign!Has
  <2>3. Campaign(p)!Clock(now) >= Campaigns[p].pairBy[v] => Campaign(p)!Clock(now') >= Campaigns[p].pairBy[v]
    <3>. DEFINE c == Campaign(p)!Clock(now)
                d == Campaign(p)!Clock(now')
    <3>1. c \in Nat /\ d \in Nat /\ c <= d /\ Campaigns[p].pairBy[v] \in Nat
      BY <2>1, ClockFacts, CampaignFacts
    <3>. HIDE DEF c, d
    <3>2. c >= Campaigns[p].pairBy[v] => d >= Campaigns[p].pairBy[v]
      BY <3>1
    <3>. QED BY <3>2 DEF c, d
  <2>. QED BY <2>1, <2>2, <2>3 DEF Earned, Campaign!Row, Campaign!Has, Campaign!Decision, Campaign!Cut
<1>. QED BY <1>1, <1>2 DEF CampaignStep

\* A call needs the start that its process has just made, and no start is made twice.
LEMMA DispatchStep ==
  ASSUME NEW p \in CampaignParts, Campaign(p)!TypeOK, Dispatches(p), CampaignStep(p)
  PROVE  Dispatches(p)'
<1>. DEFINE Slots == Campaigns[p].windows \X Campaign(p)!Called
<1>0. mine \subseteq Slots /\ calls \in [Slots -> 0..2]
  BY DEF Campaign!TypeOK
<1>1. /\ \A x \in Slots : calls[x] <= 1 /\ (calls[x] > 0 => <<x[1], x[2], "start">> \in DOMAIN rows)
      /\ \A x \in mine : <<x[1], x[2], "start">> \in DOMAIN rows /\ calls[x] = 0
  BY DEF Dispatches, Campaign!OneDispatch, Campaign!Has
<1>2. ASSUME \A x \in Slots : calls'[x] <= 1 /\ (calls'[x] > 0 => <<x[1], x[2], "start">> \in DOMAIN rows'),
             \A x \in mine' : <<x[1], x[2], "start">> \in DOMAIN rows' /\ calls'[x] = 0
      PROVE  Dispatches(p)'
  BY <1>2 DEF Dispatches, Campaign!OneDispatch, Campaign!Has
<1>3. ASSUME NEW w, NEW a, NEW k, NEW r, StoreStep(p, w, a, k, r) PROVE Dispatches(p)'
  <2>1. Grown(w, a, k, r)
    BY <1>3, RowsGrow
  <2>2. /\ calls' = calls /\ w \in Campaigns[p].windows /\ mine' \subseteq mine \cup {x \in {<<w, a>>} : k = "start"}
        /\ Payload(p, a, k, r, now')
    BY <1>3 DEF StoreStep
  <2>3. ASSUME NEW x \in Slots
        PROVE  calls'[x] <= 1 /\ (calls'[x] > 0 => <<x[1], x[2], "start">> \in DOMAIN rows')
    BY <1>1, <2>1, <2>2 DEF Grown
  <2>4. ASSUME NEW x \in mine' PROVE <<x[1], x[2], "start">> \in DOMAIN rows' /\ calls'[x] = 0
    <3>1. CASE x \in mine
      BY <1>1, <2>1, <2>2, <3>1 DEF Grown
    <3>2. CASE x = <<w, a>> /\ k = "start"
      <4>1. x \in Slots /\ x[1] = w /\ x[2] = a
        BY <2>2, <3>2 DEF Payload
      <4>2. <<w, a, "start">> \in DOMAIN rows' /\ <<w, a, "start">> \notin DOMAIN rows
        BY <2>1, <3>2 DEF Grown
      <4>3. ~(calls[x] > 0) /\ calls[x] \in 0..2
        BY <1>0, <1>1, <4>1, <4>2
      <4>4. calls[x] = 0
        BY <4>3
      <4>. QED BY <2>2, <4>1, <4>2, <4>4
    <3>. QED BY <2>2, <2>4, <3>1, <3>2
  <2>. QED BY <1>2, <2>3, <2>4
<1>4. ASSUME rows' = rows, calls' = calls, mine' \subseteq mine PROVE Dispatches(p)'
  BY <1>1, <1>2, <1>4
<1>5. ASSUME rows' = rows, NEW y \in mine, Campaign(p)!Dispatch(y) PROVE Dispatches(p)'
  <2>1. mine' = mine \ {y} /\ calls' = [calls EXCEPT ![y] = IF @ < 2 THEN @ + 1 ELSE @] /\ y \in Slots
    BY <1>0, <1>5 DEF Campaign!Dispatch
  <2>2. calls[y] = 0 /\ <<y[1], y[2], "start">> \in DOMAIN rows
    BY <1>1
  <2>3. calls'[y] = 1 /\ \A x \in Slots : x # y => calls'[x] = calls[x]
    BY <1>0, <2>1, <2>2
  <2>4. ASSUME NEW x \in Slots
        PROVE  calls'[x] <= 1 /\ (calls'[x] > 0 => <<x[1], x[2], "start">> \in DOMAIN rows')
    BY <1>1, <1>5, <2>2, <2>3
  <2>5. ASSUME NEW x \in mine' PROVE <<x[1], x[2], "start">> \in DOMAIN rows' /\ calls'[x] = 0
    BY <1>0, <1>1, <1>5, <2>1, <2>3
  <2>. QED BY <1>2, <2>4, <2>5
<1>6. CASE QuietCampaign(p) /\ Campaign(p)!SealDenominator
  BY <1>4, <1>6 DEF QuietCampaign, Campaign!SealDenominator
<1>. QED BY <1>3, <1>4, <1>5, <1>6 DEF CampaignStep, QuietCampaign

\* A sealed denominator holds an outcome for every arm, and no outcome follows it.
LEMMA DenominatorStep ==
  ASSUME NEW p \in CampaignParts, CampaignRows(p), Campaign(p)!SealStaysTrue, CampaignStep(p)
  PROVE  Campaign(p)!SealStaysTrue'
<1>1. ASSUME NEW w, NEW a, NEW k, NEW r, StoreStep(p, w, a, k, r) PROVE Campaign(p)!SealStaysTrue'
  <2>1. Stored(w, a, k, r) /\ Checked(p, w, a, k, r) /\ seal' = seal
    BY <1>1 DEF StoreStep
  <2>2. CASE k = "outcome"
    <3>1. seal' = {}
      BY <2>1, <2>2 DEF Checked
    <3>. QED BY <3>1 DEF Campaign!SealStaysTrue
  <2>3. CASE k # "outcome"
    <3>1. <<w, a, k>>[3] # "outcome"
      BY <2>3
    <3>2. {s \in DOMAIN rows' : s[3] = "outcome"} = {s \in DOMAIN rows : s[3] = "outcome"}
      BY <2>1, <3>1 DEF Stored
    <3>3. \A s \in DOMAIN rows : rows'[s] = rows[s]
      BY <2>1 DEF Stored
    <3>4. Campaign(p)!OutcomeRows' = Campaign(p)!OutcomeRows
      BY <3>2, <3>3 DEF Campaign!OutcomeRows
    <3>. QED BY <2>1, <3>4 DEF Campaign!SealStaysTrue
  <2>. QED BY <2>2, <2>3
<1>2. ASSUME rows' = rows, seal' = seal PROVE Campaign(p)!SealStaysTrue'
  BY <1>2 DEF Campaign!SealStaysTrue, Campaign!OutcomeRows
<1>3. CASE Campaign(p)!SealDenominator
  <2>1. rows' = rows /\ \A d \in seal' : d.outcomes = Campaign(p)!OutcomeRows
    BY <1>3 DEF Campaign!SealDenominator
  <2>2. \A w \in Campaigns[p].windows, a \in Campaigns[p].arms : <<w, a, "outcome">> \in DOMAIN rows
    BY <1>3 DEF Campaign!SealDenominator, Campaign!Complete, Campaign!Has
  <2>3. {s \in DOMAIN rows : s[3] = "outcome"} = {<<v, b, "outcome">> : v \in Campaigns[p].windows, b \in Campaigns[p].arms}
    <3>1. ASSUME NEW s \in DOMAIN rows, s[3] = "outcome" PROVE s \in {<<v, b, "outcome">> : v \in Campaigns[p].windows, b \in Campaigns[p].arms}
      <4>1. s = <<s[1], s[2], "outcome">>
        BY <3>1 DEF CampaignRows
      <4>2. s[1] \in Campaigns[p].windows /\ Payload(p, s[2], "outcome", rows[<<s[1], s[2], "outcome">>], now)
        BY <4>1 DEF CampaignRows
      <4>3. s[2] \in Campaigns[p].arms
        BY <4>2 DEF Payload
      <4>. QED BY <4>1, <4>2, <4>3
    <3>2. ASSUME NEW s \in {<<v, b, "outcome">> : v \in Campaigns[p].windows, b \in Campaigns[p].arms} PROVE s \in DOMAIN rows /\ s[3] = "outcome"
      BY <2>2
    <3>. QED BY <3>1, <3>2
  <2>4. DOMAIN Campaign(p)!OutcomeRows = {s \in DOMAIN rows : s[3] = "outcome"}
    BY DEF Campaign!OutcomeRows
  <2>5. Campaign(p)!OutcomeRows' = Campaign(p)!OutcomeRows
    BY <2>1 DEF Campaign!OutcomeRows
  <2>. QED BY <2>1, <2>3, <2>4, <2>5 DEF Campaign!SealStaysTrue
<1>4. ASSUME NEW x \in mine, QuietCampaign(p), Campaign(p)!Dispatch(x) PROVE Campaign(p)!SealStaysTrue'
  BY <1>2, <1>4 DEF QuietCampaign, Campaign!Dispatch
<1>5. QuietCampaign(p) => rows' = rows
  BY DEF QuietCampaign
<1>. QED BY <1>1, <1>2, <1>3, <1>4, <1>5 DEF CampaignStep

\* A campaign has finitely many attempts.
LEMMA FiniteSlots ==
  ASSUME NEW p \in CampaignParts
  PROVE  IsFiniteSet(Campaigns[p].windows \X Campaign(p)!Called)
<1>1. IsFiniteSet(Campaigns[p].windows)
  <2>1. Campaign(p)!IsFiniteSet(Campaigns[p].windows)
    BY CampaignFacts
  <2>. QED BY <2>1, Zenon DEF Campaign!IsFiniteSet, IsFiniteSet
<1>2. IsFiniteSet(Campaign(p)!Called)
  <2>1. IsFiniteSet({"strategy-only"})
    BY FS_Singleton
  <2>2. IsFiniteSet({"strategy-only"} \cup {"strategy-review"})
    BY <2>1, FS_AddElement
  <2>3. IsFiniteSet(({"strategy-only"} \cup {"strategy-review"}) \cup {"llm-proposal-research"})
    BY <2>2, FS_AddElement
  <2>4. Campaign(p)!Called \subseteq ({"strategy-only"} \cup {"strategy-review"}) \cup {"llm-proposal-research"}
    BY CampaignFacts DEF Campaign!Called
  <2>. QED BY <2>3, <2>4, FS_Subset
<1>. QED BY <1>1, <1>2, FS_Product

\* The amount at a stage as a sum.
Paid(stage, S) == [x \in S |-> rows[<<x[1], x[2], stage>>]]

\* Amount is the sum of what the attempts at a stage hold.
LEMMA AmountIsSum ==
  ASSUME NEW p, NEW stage, NEW S
  PROVE  Campaign(p)!Amount(stage, S) = SumFunctionOnSet(Paid(stage, S), S)
<1>1. ASSUME NEW f PROVE Campaign(p)!SumFunctionOnSet(f, S) = (CHOOSE g : SumEq(f, S, g))[S]
  BY Zenon DEF Campaign!SumFunctionOnSet, Campaign!FoldFunctionOnSet, Campaign!MapThenFoldSet, SumEq, Pick
<1>2. ASSUME NEW f PROVE Campaign(p)!SumFunctionOnSet(f, S) = SumFunctionOnSet(f, S)
  BY <1>1, SumIsSolution
<1>3. Campaign(p)!Amount(stage, S) = Campaign(p)!SumFunctionOnSet(Paid(stage, S), S)
  BY DEF Campaign!Amount, Paid
<1>. QED BY <1>2, <1>3

\* What an attempt may cost in the end: what was committed, else what is reserved, else
\* what was asked for and not refused.
Pot(p) ==
  [x \in Campaigns[p].windows \X Campaign(p)!Called |->
     IF Campaign(p)!Has(x[1], x[2], "COMMITTED") THEN Campaign(p)!Row(x[1], x[2], "COMMITTED")
     ELSE IF Campaign(p)!Has(x[1], x[2], "RESERVED") THEN Campaign(p)!Row(x[1], x[2], "RESERVED")
     ELSE IF /\ Campaign(p)!Has(x[1], x[2], "RESERVATION_REQUESTED")
             /\ ~Campaign(p)!Has(x[1], x[2], "RESERVATION_DENIED")
          THEN Campaign(p)!Row(x[1], x[2], "RESERVATION_REQUESTED") ELSE 0]

Pots(p) == SumFunctionOnSet(Pot(p), Campaigns[p].windows \X Campaign(p)!Called)

\* What is committed was reserved, and all that may be paid was counted when the campaign
\* was sealed.
Costs(p) ==
  /\ \A w, a : Campaign(p)!Has(w, a, "COMMITTED") => Campaign(p)!Has(w, a, "RESERVED")
  /\ \A d \in seal : d.committed \in Nat /\ d.outstanding \in Nat /\ Pots(p) <= d.committed + d.outstanding

\* A pot is a natural.
LEMMA PotTypes ==
  ASSUME NEW p \in CampaignParts, CampaignRows(p)
  PROVE  /\ \A x \in Campaigns[p].windows \X Campaign(p)!Called : Pot(p)[x] \in Nat
         /\ \A w, a : \A stage \in Campaign(p)!Stages : Campaign(p)!Has(w, a, stage) => rows[<<w, a, stage>>] \in Nat
         /\ Pots(p) \in Nat
<1>1. ASSUME NEW w, NEW a, NEW stage \in Campaign(p)!Stages, Campaign(p)!Has(w, a, stage)
      PROVE  rows[<<w, a, stage>>] \in Nat
  <2>1. Payload(p, a, stage, rows[<<w, a, stage>>], now)
    BY <1>1 DEF CampaignRows, Campaign!Has
  <2>. QED BY <2>1 DEF Payload
<1>2. ASSUME NEW x \in Campaigns[p].windows \X Campaign(p)!Called PROVE Pot(p)[x] \in Nat
  <2>1. \A stage \in {"COMMITTED", "RESERVED", "RESERVATION_REQUESTED"} :
          Campaign(p)!Has(x[1], x[2], stage) => Campaign(p)!Row(x[1], x[2], stage) \in Nat
    BY <1>1 DEF Campaign!Stages, Campaign!Row
  <2>. QED BY <2>1 DEF Pot
<1>3. Pots(p) \in Nat
  BY <1>2, FiniteSlots, SumNatural DEF Pots
<1>. QED BY <1>1, <1>2, <1>3

\* When the campaign is sealed, committed and outstanding are the pots.
LEMMA SealCounts ==
  ASSUME NEW p \in CampaignParts, CampaignRows(p), Costs(p)
  PROVE  /\ Campaign(p)!Amount("COMMITTED", Campaign(p)!At("COMMITTED")) \in Nat /\ Campaign(p)!Outstanding \in Nat
         /\ Pots(p) = Campaign(p)!Amount("COMMITTED", Campaign(p)!At("COMMITTED")) + Campaign(p)!Outstanding
<1>. DEFINE Slots == Campaigns[p].windows \X Campaign(p)!Called
            A == Campaign(p)!At("COMMITTED")
            B == Campaign(p)!At("RESERVED") \ Campaign(p)!At("COMMITTED")
            C == Campaign(p)!At("RESERVATION_REQUESTED") \ (Campaign(p)!At("RESERVED") \cup Campaign(p)!At("RESERVATION_DENIED"))
            a == Paid("COMMITTED", A)
            b == Paid("RESERVED", B)
            c == Paid("RESERVATION_REQUESTED", C)
            f == Pot(p)
<1>1. A \in SUBSET Slots /\ B \in SUBSET Slots /\ C \in SUBSET Slots
  BY DEF Campaign!At
<1>2. A \cap B = {} /\ (A \cup B) \cap C = {}
  BY DEF Campaign!At, Costs
<1>3. \A x \in A : a[x] = f[x]
  BY DEF Pot, Paid, Campaign!At, Campaign!Row
<1>4. \A x \in B : b[x] = f[x]
  BY DEF Pot, Paid, Campaign!At, Campaign!Row
<1>5. \A x \in C : c[x] = f[x]
  BY DEF Pot, Paid, Campaign!At, Campaign!Row, Costs
<1>6. \A x \in Slots \ ((A \cup B) \cup C) : f[x] = 0
  BY DEF Pot, Campaign!At
<1>7. IsFiniteSet(Slots) /\ \A x \in Slots : f[x] \in Nat
  BY FiniteSlots, PotTypes
<1>8. /\ Campaign(p)!Amount("COMMITTED", A) = SumFunctionOnSet(a, A)
      /\ Campaign(p)!Outstanding = SumFunctionOnSet(b, B) + SumFunctionOnSet(c, C)
  BY AmountIsSum DEF Campaign!Outstanding
<1>9. Pots(p) = SumFunctionOnSet(f, Slots)
  BY DEF Pots
<1>. HIDE DEF Slots, A, B, C, a, b, c, f
<1>10. SumFunctionOnSet(f, Slots) = SumFunctionOnSet(a, A) + (SumFunctionOnSet(b, B) + SumFunctionOnSet(c, C))
  BY <1>1, <1>2, <1>3, <1>4, <1>5, <1>6, <1>7, SumThree
<1>11. SumFunctionOnSet(a, A) \in Nat /\ SumFunctionOnSet(b, B) \in Nat /\ SumFunctionOnSet(c, C) \in Nat
  <2>1. IsFiniteSet(A) /\ IsFiniteSet(B) /\ IsFiniteSet(C)
    BY <1>1, <1>7, FS_Subset
  <2>2. (\A x \in A : a[x] \in Nat) /\ (\A x \in B : b[x] \in Nat) /\ (\A x \in C : c[x] \in Nat)
    BY <1>1, <1>3, <1>4, <1>5, <1>7
  <2>. QED BY <2>1, <2>2, SumNatural
<1>. DEFINE u == SumFunctionOnSet(a, A)
            v == SumFunctionOnSet(b, B)
            t == SumFunctionOnSet(c, C)
<1>12. /\ u \in Nat /\ v \in Nat /\ t \in Nat /\ Campaign(p)!Amount("COMMITTED", A) = u
       /\ Campaign(p)!Outstanding = v + t /\ Pots(p) = u + (v + t)
  BY <1>8, <1>9, <1>10, <1>11
<1>. HIDE DEF u, v, t
<1>. QED BY <1>12 DEF A

\* After the seal no pot grows.
LEMMA PotShrinks ==
  ASSUME NEW p \in CampaignParts, CampaignRows(p), Costs(p), NEW w, NEW a, NEW k, NEW r, StoreStep(p, w, a, k, r),
         CampaignRows(p)', seal # {}, NEW x \in Campaigns[p].windows \X Campaign(p)!Called
  PROVE  Pot(p)'[x] <= Pot(p)[x]
<1>0. Grown(w, a, k, r) /\ Checked(p, w, a, k, r)
  BY RowsGrow DEF StoreStep
<1>. DEFINE q == <<x[1], x[2], "RESERVATION_REQUESTED">>
            e == <<x[1], x[2], "RESERVATION_DENIED">>
            h == <<x[1], x[2], "RESERVED">>
            c == <<x[1], x[2], "COMMITTED">>
            New(y) == y = <<w, a, k>>
<1>1. Pot(p)[x] = IF c \in DOMAIN rows THEN rows[c] ELSE IF h \in DOMAIN rows THEN rows[h]
                  ELSE IF q \in DOMAIN rows /\ e \notin DOMAIN rows THEN rows[q] ELSE 0
  BY DEF Pot, Campaign!Has, Campaign!Row
<1>2. Pot(p)'[x] = IF c \in DOMAIN rows' THEN rows'[c] ELSE IF h \in DOMAIN rows' THEN rows'[h]
                   ELSE IF q \in DOMAIN rows' /\ e \notin DOMAIN rows' THEN rows'[q] ELSE 0
  BY DEF Pot, Campaign!Has, Campaign!Row
<1>3. \A y \in {q, e, h, c} : /\ y \in DOMAIN rows => y \in DOMAIN rows' /\ rows'[y] = rows[y]
                              /\ y \in DOMAIN rows' => y \in DOMAIN rows \/ (New(y) /\ rows'[y] = r)
  BY <1>0 DEF Grown
<1>4. c \in DOMAIN rows => h \in DOMAIN rows
  BY DEF Costs, Campaign!Has
<1>5. ~New(q)
  <2>. SUFFICES ASSUME New(q) PROVE FALSE
    OBVIOUS
  <2>1. w = x[1] /\ a = x[2] /\ k = "RESERVATION_REQUESTED"
    OBVIOUS
  <2>2. Campaign(p)!CostAllowed(w, a, k, r)
    BY <1>0, <2>1 DEF Checked, Campaign!Stages
  <2>. QED BY <2>1, <2>2 DEF Campaign!CostAllowed
<1>6. New(e) => h \notin DOMAIN rows
  <2>. SUFFICES ASSUME New(e) PROVE h \notin DOMAIN rows
    OBVIOUS
  <2>1. w = x[1] /\ a = x[2] /\ k = "RESERVATION_DENIED"
    OBVIOUS
  <2>2. Campaign(p)!CostAllowed(w, a, k, r)
    BY <1>0, <2>1 DEF Checked, Campaign!Stages
  <2>. QED BY <2>1, <2>2 DEF Campaign!CostAllowed, Campaign!Has
<1>7. New(h) => q \in DOMAIN rows /\ e \notin DOMAIN rows /\ r = rows[q] /\ h \notin DOMAIN rows
  <2>. SUFFICES ASSUME New(h) PROVE q \in DOMAIN rows /\ e \notin DOMAIN rows /\ r = rows[q] /\ h \notin DOMAIN rows
    OBVIOUS
  <2>1. w = x[1] /\ a = x[2] /\ k = "RESERVED"
    OBVIOUS
  <2>2. Campaign(p)!CostAllowed(w, a, k, r)
    BY <1>0, <2>1 DEF Checked, Campaign!Stages
  <2>. QED BY <1>0, <2>1, <2>2 DEF Campaign!CostAllowed, Campaign!Has, Campaign!Row, Grown
<1>8. New(c) => h \in DOMAIN rows /\ r <= rows[h] /\ c \notin DOMAIN rows
  <2>. SUFFICES ASSUME New(c) PROVE h \in DOMAIN rows /\ r <= rows[h] /\ c \notin DOMAIN rows
    OBVIOUS
  <2>1. w = x[1] /\ a = x[2] /\ k = "COMMITTED"
    OBVIOUS
  <2>2. Campaign(p)!CostAllowed(w, a, k, r)
    BY <1>0, <2>1 DEF Checked, Campaign!Stages
  <2>. QED BY <1>0, <2>1, <2>2 DEF Campaign!CostAllowed, Campaign!Has, Campaign!Row, Grown
<1>9. Pot(p)[x] \in Nat
  BY PotTypes
<1>10. h # c /\ h # q /\ h # e /\ c # q /\ c # e /\ q # e
  OBVIOUS
<1>. DEFINE m == Pot(p)[x]
            n == Pot(p)'[x]
<1>. HIDE DEF q, e, h, c, m, n
<1>11. m \in Nat /\ m = (IF c \in DOMAIN rows THEN rows[c] ELSE IF h \in DOMAIN rows THEN rows[h]
                  ELSE IF q \in DOMAIN rows /\ e \notin DOMAIN rows THEN rows[q] ELSE 0)
  BY <1>1, <1>9 DEF m
<1>12. n = IF c \in DOMAIN rows' THEN rows'[c] ELSE IF h \in DOMAIN rows' THEN rows'[h]
                   ELSE IF q \in DOMAIN rows' /\ e \notin DOMAIN rows' THEN rows'[q] ELSE 0
  BY <1>2 DEF n
<1>13. n <= m
  BY <1>3, <1>4, <1>5, <1>6, <1>7, <1>8, <1>10, <1>11, <1>12
<1>. QED BY <1>13 DEF m, n

\* Costs that are recorded after the seal come out of what it counted.
LEMMA CostsStep ==
  ASSUME NEW p \in CampaignParts, CampaignRows(p), Costs(p), CampaignStep(p), CampaignRows(p)'
  PROVE  Costs(p)'
<1>. DEFINE Slots == Campaigns[p].windows \X Campaign(p)!Called
<1>0. (\A x \in Slots : Pot(p)'[x] \in Nat) /\ Pots(p)' \in Nat
  <2>1. ASSUME NEW w, NEW a, NEW stage \in Campaign(p)!Stages, <<w, a, stage>> \in DOMAIN rows'
        PROVE  rows'[<<w, a, stage>>] \in Nat
    <3>1. Payload(p, a, stage, rows'[<<w, a, stage>>], now')
      BY <2>1 DEF CampaignRows
    <3>. QED BY <3>1 DEF Payload
  <2>2. ASSUME NEW x \in Slots PROVE Pot(p)'[x] \in Nat
    <3>1. \A stage \in {"COMMITTED", "RESERVED", "RESERVATION_REQUESTED"} :
            <<x[1], x[2], stage>> \in DOMAIN rows' => rows'[<<x[1], x[2], stage>>] \in Nat
      BY <2>1 DEF Campaign!Stages
    <3>. QED BY <3>1 DEF Pot, Campaign!Has, Campaign!Row
  <2>. DEFINE f == Pot(p)'
  <2>3. Pots(p)' = SumFunctionOnSet(f, Slots)
    BY DEF Pots
  <2>4. \A x \in Slots : f[x] \in Nat
    BY <2>2
  <2>. HIDE DEF f
  <2>5. SumFunctionOnSet(f, Slots) \in Nat
    BY <2>4, FiniteSlots, SumNatural
  <2>. QED BY <2>2, <2>3, <2>5
<1>1. ASSUME NEW w, NEW a, NEW k, NEW r, StoreStep(p, w, a, k, r) PROVE Costs(p)'
  <2>1. Grown(w, a, k, r) /\ Checked(p, w, a, k, r) /\ seal' = seal
    BY <1>1, RowsGrow DEF StoreStep
  <2>2. ASSUME NEW v, NEW b, <<v, b, "COMMITTED">> \in DOMAIN rows' PROVE <<v, b, "RESERVED">> \in DOMAIN rows'
    <3>1. CASE <<v, b, "COMMITTED">> \in DOMAIN rows
      <4>1. <<v, b, "RESERVED">> \in DOMAIN rows
        BY <3>1 DEF Costs, Campaign!Has
      <4>. QED BY <2>1, <4>1 DEF Grown
    <3>2. CASE v = w /\ b = a /\ k = "COMMITTED"
      <4>1. Campaign(p)!CostAllowed(w, a, k, r)
        BY <2>1, <3>2 DEF Checked, Campaign!Stages
      <4>2. <<v, b, "RESERVED">> \in DOMAIN rows
        BY <3>2, <4>1 DEF Campaign!CostAllowed, Campaign!Has
      <4>. QED BY <2>1, <4>2 DEF Grown
    <3>. QED BY <2>1, <2>2, <3>1, <3>2 DEF Grown
  <2>3. ASSUME NEW d \in seal PROVE Pots(p)' <= d.committed + d.outstanding
    <3>. DEFINE f == Pot(p)'
                g == Pot(p)
    <3>1. \A x \in Slots : f[x] \in Nat /\ g[x] \in Nat
      BY <1>0, PotTypes
    <3>2. \A x \in Slots : f[x] <= g[x]
      BY <1>1, <2>3, PotShrinks
    <3>3. Pots(p)' = SumFunctionOnSet(f, Slots) /\ Pots(p) = SumFunctionOnSet(g, Slots)
      BY DEF Pots
    <3>. HIDE DEF f, g, Slots
    <3>4. SumFunctionOnSet(f, Slots) <= SumFunctionOnSet(g, Slots)
      BY <3>1, <3>2, FiniteSlots, SumGrows DEF Slots
    <3>. DEFINE m == Pots(p)
                n == Pots(p)'
                t == d.committed + d.outstanding
    <3>5. m \in Nat /\ n \in Nat /\ n <= m
      BY <1>0, <3>3, <3>4, PotTypes
    <3>6. t \in Nat /\ m <= t
      BY <2>3 DEF Costs
    <3>. HIDE DEF m, n, t
    <3>7. n <= t
      BY <3>5, <3>6
    <3>. QED BY <3>7 DEF n, t
  <2>4. \A d \in seal : d.committed \in Nat /\ d.outstanding \in Nat
    BY DEF Costs
  <2>. QED BY <2>1, <2>2, <2>3, <2>4 DEF Costs, Campaign!Has
<1>2. ASSUME rows' = rows PROVE Pots(p)' = Pots(p)
  BY <1>2 DEF Pots, Pot, Campaign!Has, Campaign!Row
<1>3. ASSUME rows' = rows, seal' = seal PROVE Costs(p)'
  BY <1>2, <1>3 DEF Costs, Campaign!Has
<1>4. CASE Campaign(p)!SealDenominator
  <2>1. rows' = rows /\ \A d \in seal' : /\ d.committed = Campaign(p)!Amount("COMMITTED", Campaign(p)!At("COMMITTED"))
                                         /\ d.outstanding = Campaign(p)!Outstanding
    BY <1>4 DEF Campaign!SealDenominator
  <2>2. Pots(p) \in Nat
    BY PotTypes
  <2>3. ASSUME NEW d \in seal' PROVE d.committed \in Nat /\ d.outstanding \in Nat /\ Pots(p) = d.committed + d.outstanding
    BY <2>1, SealCounts
  <2>4. \A d \in seal' : d.committed \in Nat /\ d.outstanding \in Nat /\ Pots(p) <= d.committed + d.outstanding
    BY <2>2, <2>3
  <2>. QED BY <1>2, <2>1, <2>4 DEF Costs, Campaign!Has
<1>5. ASSUME NEW x \in mine, QuietCampaign(p), Campaign(p)!Dispatch(x) PROVE Costs(p)'
  BY <1>3, <1>5 DEF QuietCampaign, Campaign!Dispatch
<1>6. QuietCampaign(p) => rows' = rows
  BY DEF QuietCampaign
<1>. QED BY <1>1, <1>3, <1>4, <1>5, <1>6 DEF CampaignStep

\* What holds of a campaign.
CampaignInv(p) ==
  /\ Campaign(p)!TypeOK /\ CampaignRows(p)
  /\ Bundles(p) /\ Pairs(p)
  /\ OneCompletion(p) /\ OutcomesEarned(p) /\ Campaign(p)!SealStaysTrue
  /\ Dispatches(p) /\ Costs(p)

\* A campaign that is not registered satisfies it.
LEMMA CampaignInit ==
  ASSUME NEW p \in CampaignParts, Campaign(p)!Init
  PROVE  CampaignInv(p)
<1>1. /\ now = 0 /\ plan = FALSE /\ claim = {} /\ DOMAIN rows = {} /\ seal = {} /\ mine = {}
      /\ calls = [x \in Campaigns[p].windows \X Campaign(p)!Called |-> 0]
  BY DEF Campaign!Init
<1>2. Campaign(p)!TypeOK
  <2>1. Campaign(p)!Cardinality(seal) = 0
    <3>1. Cardinality({}) = 0
      BY FS_EmptySet
    <3>2. Campaign(p)!Cardinality({}) = Cardinality({})
      BY Zenon DEF Campaign!Cardinality, Cardinality
    <3>3. seal = {}
      BY <1>1
    <3>. QED BY <3>1, <3>2, <3>3, Zenon
  <2>2. now \in 0..Campaigns[p].maxTick
    BY <1>1, CampaignFacts
  <2>3. calls \in [Campaigns[p].windows \X Campaign(p)!Called -> 0..2]
    BY <1>1
  <2>4. Campaign(p)!Cardinality(seal) <= 1
    BY <2>1
  <2>5. plan \in BOOLEAN /\ claim \subseteq Campaigns[p].windows /\ mine \subseteq Campaigns[p].windows \X Campaign(p)!Called
    BY <1>1
  <2>. QED BY <1>1, <2>2, <2>3, <2>4, <2>5, Zenon DEF Campaign!TypeOK
<1>3. \A w, a, k : ~Campaign(p)!Has(w, a, k)
  BY <1>1 DEF Campaign!Has
<1>4. CampaignRows(p)
  BY <1>1 DEF CampaignRows
<1>5. Bundles(p) /\ Pairs(p) /\ OneCompletion(p) /\ OutcomesEarned(p)
  BY <1>3 DEF Bundles, Pairs, OneCompletion, OutcomesEarned
<1>6. Campaign(p)!SealStaysTrue /\ Costs(p)
  BY <1>1, <1>3 DEF Campaign!SealStaysTrue, Costs
<1>7. Dispatches(p)
  BY <1>1 DEF Dispatches, Campaign!OneDispatch
<1>. QED BY <1>2, <1>4, <1>5, <1>6, <1>7 DEF CampaignInv

\* Every operation on a campaign keeps it.
LEMMA CampaignKeeps ==
  ASSUME NEW p \in CampaignParts, CampaignInv(p), Campaign(p)!Next \/ UNCHANGED campaignVars
  PROVE  CampaignInv(p)'
<1>1. /\ Campaign(p)!TypeOK /\ CampaignRows(p) /\ Bundles(p) /\ Pairs(p) /\ OneCompletion(p)
      /\ OutcomesEarned(p) /\ Campaign(p)!SealStaysTrue /\ Dispatches(p) /\ Costs(p)
  BY DEF CampaignInv
<1>2. CampaignStep(p)
  BY <1>1, CampaignForms
<1>3. now \in Nat
  BY <1>1, CampaignFacts DEF Campaign!TypeOK
<1>4. Campaign(p)!TypeOK' /\ CampaignRows(p)'
  BY <1>1, <1>2, <1>3, CampaignTypes, RowsStep
<1>5. Bundles(p)' /\ Pairs(p)' /\ OneCompletion(p)'
  BY <1>1, <1>2, <1>3, BundlesStep, PairsStep, CompletionStep
<1>6. OutcomesEarned(p)' /\ Campaign(p)!SealStaysTrue'
  BY <1>1, <1>2, <1>3, EarnedStep, DenominatorStep
<1>7. Dispatches(p)' /\ Costs(p)'
  BY <1>1, <1>2, <1>4, DispatchStep, CostsStep
<1>. QED BY <1>4, <1>5, <1>6, <1>7 DEF CampaignInv

\* The campaign of the part that runs.
CampaignsInv == \A p \in CampaignParts : part = p => CampaignInv(p)

\* Each campaign keeps it, and nobody changes the part.
LEMMA CampaignInvariant == Spec => []CampaignsInv
<1>1. Init => CampaignsInv
  <2>. SUFFICES ASSUME Init, NEW p \in CampaignParts, part = p PROVE CampaignInv(p)
    BY DEF CampaignsInv
  <2>1. Campaign(p)!Init
    BY DEF Init, Planned
  <2>. QED BY <2>1, CampaignInit
<1>2. CampaignsInv /\ [Next]_vars => CampaignsInv'
  <2>. SUFFICES ASSUME CampaignsInv, [Next]_vars, NEW p \in CampaignParts, part' = p PROVE CampaignInv(p)'
    BY DEF CampaignsInv
  <2>1. part' = part
    BY DEF Next, TapeNext, SimNext, CampaignNext, vars
  <2>2. CampaignInv(p)
    BY <2>1 DEF CampaignsInv
  <2>3. Campaign(p)!Next \/ UNCHANGED campaignVars
    BY <2>1 DEF Next, TapeNext, SimNext, CampaignNext, vars
  <2>. QED BY <2>2, <2>3, CampaignKeeps
<1>. QED BY <1>1, <1>2, PTL DEF Spec

\* No bundle holds what was seen after its cutoff, and no pair what was recorded after
\* the cutoff for pairing: freeze_bundle and record_causal_pair round the clock up.
THEOREM CausalHindsight == Spec => []NoHindsight
<1>1. CampaignsInv => NoHindsight
  <2>. SUFFICES ASSUME CampaignsInv, NEW p \in CampaignParts, part = p PROVE Campaign(p)!NoHindsight
    BY DEF NoHindsight
  <2>1. Bundles(p) /\ Pairs(p)
    BY DEF CampaignsInv, CampaignInv
  <2>. QED BY <2>1 DEF Bundles, Pairs, Campaign!NoHindsight, Campaign!Cut
<1>. QED BY <1>1, CampaignInvariant, PTL

\* Every outcome of a campaign was earned in time, and a sealed denominator stays true.
THEOREM CampaignCounts == Spec => []CountIsEarned
<1>1. CampaignsInv => CountIsEarned
  <2>. SUFFICES ASSUME CampaignsInv, NEW p \in CampaignParts, part = p PROVE Campaign(p)!CountIsEarned
    BY DEF CountIsEarned
  <2>1. OneCompletion(p) /\ OutcomesEarned(p) /\ Campaign(p)!SealStaysTrue
    BY DEF CampaignsInv, CampaignInv
  <2>2. ASSUME NEW x \in Campaign(p)!Counted PROVE Earned(p, x[1], x[2])
    BY <2>1 DEF OutcomesEarned, Campaign!Counted
  <2>3. Campaign(p)!MissedIsMissed
    BY <2>2 DEF Campaign!MissedIsMissed, Campaign!Outcome, Earned
  <2>4. \A w \in Campaigns[p].windows, a \in Campaign(p)!Called :
          ~(Campaign(p)!Has(w, a, "terminal") /\ Campaign(p)!Has(w, a, "review"))
    BY <2>1 DEF OneCompletion, Campaign!Called
  <2>5. Campaign(p)!OutcomeIsEarned
    BY <2>2, <2>4, Zenon DEF Campaign!OutcomeIsEarned, Campaign!Outcome, Earned
  <2>. QED BY <2>1, <2>3, <2>5 DEF Campaign!CountIsEarned
<1>. QED BY <1>1, CampaignInvariant, PTL

\* A provider is called once per arm and window, and what is committed after the seal
\* stays within what the denominator committed and held.
THEOREM CampaignSpends == Spec => []SpendIsBounded
<1>1. CampaignsInv => SpendIsBounded
  <2>. SUFFICES ASSUME CampaignsInv, NEW p \in CampaignParts, part = p PROVE Campaign(p)!SpendIsBounded
    BY DEF SpendIsBounded
  <2>1. Dispatches(p) /\ CampaignRows(p) /\ Costs(p)
    BY DEF CampaignsInv, CampaignInv
  <2>. DEFINE Slots == Campaigns[p].windows \X Campaign(p)!Called
              A == Campaign(p)!At("COMMITTED")
              a == Paid("COMMITTED", A)
              f == Pot(p)
  <2>2. A \in SUBSET Slots /\ \A x \in A : a[x] = f[x]
    BY DEF Campaign!At, Paid, Pot, Campaign!Row
  <2>3. IsFiniteSet(Slots) /\ (\A x \in Slots : f[x] \in Nat) /\ Pots(p) = SumFunctionOnSet(f, Slots) /\ Pots(p) \in Nat
    BY <2>1, FiniteSlots, PotTypes DEF Pots
  <2>4. Campaign(p)!Amount("COMMITTED", A) = SumFunctionOnSet(a, A)
    BY AmountIsSum
  <2>5. Campaign(p)!Amount("COMMITTED", A) \in Nat
    BY <2>1, SealCounts
  <2>. HIDE DEF Slots, A, a, f
  <2>6. \A x \in A : a[x] \in Nat /\ a[x] <= f[x]
    BY <2>2, <2>3
  <2>7. SumFunctionOnSet(a, A) <= SumFunctionOnSet(f, Slots)
    BY <2>2, <2>3, <2>6, SumPart
  <2>8. ASSUME NEW d \in seal PROVE Campaign(p)!Amount("COMMITTED", A) <= d.committed + d.outstanding
    <3>. DEFINE c == Campaign(p)!Amount("COMMITTED", A)
                m == Pots(p)
                t == d.committed + d.outstanding
    <3>1. c \in Nat /\ m \in Nat /\ c <= m
      BY <2>3, <2>4, <2>5, <2>7
    <3>2. t \in Nat /\ m <= t
      BY <2>1 DEF Costs
    <3>. HIDE DEF c, m, t
    <3>3. c <= t
      BY <3>1, <3>2
    <3>. QED BY <3>3 DEF c, t
  <2>9. Campaign(p)!SealedCostIsABound
    BY <2>8 DEF Campaign!SealedCostIsABound, A
  <2>. QED BY <2>1, <2>9 DEF Campaign!SpendIsBounded, Dispatches
<1>. QED BY <1>1, CampaignInvariant, PTL

\* The rows of every part keep their types.
THEOREM ResearchTypes == Spec => []TypeOK
<1>1. TapeInv /\ SessionInv /\ CampaignsInv => TypeOK
  BY DEF TypeOK, TapeInv, SessionInv, SimInv, CampaignsInv, CampaignInv
<1>. QED BY <1>1, TapeInvariant, SessionInvariant, CampaignInvariant, PTL

=============================================================================
