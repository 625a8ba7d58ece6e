---------------------------- MODULE SimulationTape ----------------------------
(***************************************************************************)
(* One tape of the simulator: the recording and replay half of             *)
(* simulation_repository.py.  Recorders append closed bars and book frames *)
(* until a barrier blocks the tape or it is sealed; every write is one     *)
(* transaction under the tape's lock.  Recorders restart with what they    *)
(* last read, so any input may be offered at any position, after any       *)
(* predecessor.  A hash stands for what it covers: the identity of a row   *)
(* is its content and a chain is the sequence of the identities in it.     *)
(***************************************************************************)
EXTENDS Naturals, Sequences, FiniteSets

CONSTANTS
  Symbols,   \* _SYMBOLS
  Bars,      \* bars the sources deliver: symbol, opening minute, content
  Frames,    \* frames they deliver: symbol, epoch, update id, clock, continuity
  MaxFrames, \* bound on the length of the tape
  None       \* no predecessor, no seal, no frame

\* What a seal says of the bars of every symbol and of the book.
Seals == [bars : [Symbols -> [count : Nat, head : Seq(Bars)]], book : [count : Nat, head : Seq(Frames)]]

TapeConstants ==
  /\ Bars \subseteq [symbol : Symbols, open : Nat, content : Nat]
  /\ \A f \in Frames : f.symbol \in Symbols /\ f.update \in Nat /\ f.at \in Nat
  /\ MaxFrames \in Nat /\ None \notin Nat /\ None \notin Seals

VARIABLES
  tape,  \* the row of sim_tapes
  bars,  \* rows of sim_closed_bars, by symbol and opening minute
  frames \* rows of sim_book_frames, by tape sequence

vars == <<tape, bars, frames>>

-----------------------------------------------------------------------------
NoTape == [state |-> "NONE", count |-> 0, head |-> <<>>, seal |-> None]

Last(s) == s[Len(s)]
Leaves(s) == [i \in 1..Len(s) |-> s[i].leaf]

\* A row with the identity of its predecessor and the chain up to it.
BarRows == [leaf : Bars, prev : Bars \cup {None}, chain : Seq(Bars)]
FrameRows == [leaf : Frames, prev : Frames \cup {None}, chain : Seq(Frames)]

\* A tape without a row holds nothing; only a sealed one has a seal.
TypeOK ==
  /\ tape \in [state : {"NONE", "OPEN", "SEALED", "BLOCKED"}, count : 0..MaxFrames,
               head : Seq(Frames), seal : Seals \cup {None}]
  /\ tape.seal # None <=> tape.state = "SEALED"
  /\ bars \in [Symbols -> Seq(BarRows)] /\ frames \in Seq(FrameRows) /\ Len(frames) <= MaxFrames
  /\ \A s \in Symbols : \A i \in 1..Len(bars[s]) : bars[s][i].leaf.symbol = s
  /\ tape.state = "NONE" => frames = <<>> /\ \A s \in Symbols : bars[s] = <<>>

Init == tape = NoTape /\ bars = [s \in Symbols |-> <<>>] /\ frames = <<>>

-----------------------------------------------------------------------------
\* _ensure_open_tape: the row is made by the first input that is stored.
Opened == IF tape.state = "NONE" THEN [tape EXCEPT !.state = "OPEN"] ELSE tape

\* A bar at a stored minute is a replay or a conflict, never an append.
Contiguous(b) == bars[b.symbol] # <<>> => b.open = Last(bars[b.symbol]).leaf.open + 1

RecordClosedBar(b) ==
  /\ Opened.state = "OPEN" /\ Contiguous(b)
  /\ LET s == bars[b.symbol]
     IN bars' = [bars EXCEPT ![b.symbol] =
                   Append(s, [leaf |-> b, prev |-> IF s = <<>> THEN None ELSE Last(s).leaf,
                              chain |-> Append(Leaves(s), b)])]
  /\ tape' = Opened
  /\ UNCHANGED frames

SameSymbol(s) == {i \in 1..Len(frames) : frames[i].leaf.symbol = s}

\* The last frame of a symbol, if there is one.
LastOf(s) == {i \in SameSymbol(s) : \A j \in SameSymbol(s) : j <= i}

\* Within an epoch ids and clocks of a symbol rise; a new epoch is a reconnect.
InStreamOrder(f) ==
  \A i \in LastOf(f.symbol) :
    LET q == frames[i].leaf
    IN IF f.epoch = q.epoch THEN f.update > q.update /\ f.at >= q.at
                            ELSE f.continuity = "RECONNECT"

\* Faulty variant: a barrier does not count as a frame of the tape.
AfterFrameUncounted(f) ==
  IF f.continuity = "ADMITTED"
  THEN [Opened EXCEPT !.count = @ + 1, !.head = Append(Leaves(frames), f)]
  ELSE [Opened EXCEPT !.state = "BLOCKED"]

\* A barrier is kept and blocks the tape for good.
AfterFrame(f) ==
  [Opened EXCEPT !.count = @ + 1, !.head = Append(Leaves(frames), f),
                 !.state = IF f.continuity = "ADMITTED" THEN @ ELSE "BLOCKED"]

RecordBookFrame(f, n, prev) ==
  /\ Opened.state = "OPEN" /\ n = Len(frames) + 1 /\ n <= MaxFrames
  /\ prev = (IF frames = <<>> THEN None ELSE Last(frames).leaf)
  /\ InStreamOrder(f)
  /\ frames' = Append(frames, [leaf |-> f, prev |-> prev, chain |-> Append(Leaves(frames), f)])
  /\ tape' = AfterFrame(f)
  /\ UNCHANGED bars

Sealable ==
  /\ tape.state = "OPEN"
  /\ \A s \in Symbols : bars[s] # <<>> /\ \E i \in 1..Len(frames) :
       frames[i].leaf.symbol = s /\ frames[i].leaf.continuity = "ADMITTED"

\* seal_tape; a tape that is sealed answers with its seal.
SealTape ==
  /\ Sealable
  /\ tape' = [tape EXCEPT !.state = "SEALED",
                !.seal = [bars |-> [s \in Symbols |-> [count |-> Len(bars[s]), head |-> Leaves(bars[s])]],
                          book |-> [count |-> Len(frames), head |-> Leaves(frames)]]]
  /\ UNCHANGED <<bars, frames>>

Next ==
  \/ \E b \in Bars : RecordClosedBar(b)
  \/ \E f \in Frames, n \in 1..MaxFrames, prev \in {None} \cup Frames : RecordBookFrame(f, n, prev)
  \/ SealTape

Spec == Init /\ [][Next]_vars

-----------------------------------------------------------------------------
(* What the readers compute from the rows. *)

\* load_open_book_recording_cursor: where a recorder that comes back goes on.
Cursor == [next |-> Len(frames) + 1, prev |-> IF frames = <<>> THEN None ELSE Last(frames).leaf]

\* load_latest_book_frame: the newest admitted clock, then the highest sequence.
Candidates(s, t) ==
  {i \in 1..Len(frames) : /\ frames[i].leaf.symbol = s /\ frames[i].leaf.at <= t
                          /\ frames[i].leaf.continuity = "ADMITTED"}

LatestBookFrame(s, t) ==
  IF Candidates(s, t) = {} THEN None
  ELSE CHOOSE i \in Candidates(s, t) :
         \A j \in Candidates(s, t) : \/ frames[j].leaf.at < frames[i].leaf.at
                                     \/ frames[j].leaf.at = frames[i].leaf.at /\ j <= i

\* load_closed_bar_page: the places of the bars after a stored one, of which the
\* first ones in the order of their minutes, at most limit.
ClosedBarPage(s, after, limit) ==
  LET open == [i \in 1..Len(bars[s]) |-> bars[s][i].leaf.open]
      found == {i \in 1..Len(bars[s]) : after # None => open[i] > after}
  IN {i \in found : Cardinality({j \in found : open[j] <= open[i]}) <= limit}

\* verify_tape: every link, chain, order and materialised value once more.
VerifyBars ==
  \A s \in Symbols : \A i \in 1..Len(bars[s]) :
    LET r == bars[s][i]
    IN /\ r.prev = (IF i = 1 THEN None ELSE bars[s][i - 1].leaf)
       /\ i > 1 => r.leaf.open = bars[s][i - 1].leaf.open + 1
       /\ r.chain = [j \in 1..i |-> bars[s][j].leaf]

VerifyOrder(p, q) ==
  IF p.epoch = q.epoch THEN q.update > p.update /\ q.at >= p.at ELSE q.continuity = "RECONNECT"

VerifyFrames ==
  /\ \A i \in 1..Len(frames) :
       /\ frames[i].prev = (IF i = 1 THEN None ELSE frames[i - 1].leaf)
       /\ frames[i].chain = [j \in 1..i |-> frames[j].leaf]
  /\ \A i, j \in 1..Len(frames) :
       /\ i < j /\ frames[i].leaf.symbol = frames[j].leaf.symbol
       /\ \A m \in (i + 1)..(j - 1) : frames[m].leaf.symbol # frames[i].leaf.symbol
       => VerifyOrder(frames[i].leaf, frames[j].leaf)

VerifySeal ==
  /\ tape.seal.bars = [s \in Symbols |-> [count |-> Len(bars[s]), head |-> [i \in 1..Len(bars[s]) |-> bars[s][i].leaf]]]
  /\ tape.seal.book = [count |-> Len(frames), head |-> [i \in 1..Len(frames) |-> frames[i].leaf]]

VerifyTape ==
  /\ VerifyBars /\ VerifyFrames
  /\ tape.count = Len(frames) /\ tape.head = [i \in 1..Len(frames) |-> frames[i].leaf]
  /\ tape.state = "SEALED" => VerifySeal

-----------------------------------------------------------------------------
\* Whatever recorders offer, and wherever they stop, the tape verifies: open,
\* blocked and sealed.
TapeVerifies == tape.state # "NONE" => VerifyTape

\* A sealed tape is one unbroken recording: no barrier, one stream of every symbol,
\* bars without a hole and of one content.
SealedIsUnbroken ==
  tape.state = "SEALED" =>
    /\ \A i \in 1..Len(frames) : frames[i].leaf.continuity = "ADMITTED"
    /\ \A i, j \in 1..Len(frames) :
         frames[i].leaf.symbol = frames[j].leaf.symbol => frames[i].leaf.epoch = frames[j].leaf.epoch
    /\ \A s \in Symbols : bars[s] # <<>> /\ SameSymbol(s) # {}

\* The book a replay sees at a time is the last one in the tape recorded by then:
\* no later frame of the symbol is older, so replays never see the market run back.
ReplayFollowsTape ==
  tape.state = "SEALED" =>
    \A s \in Symbols, t \in {f.at : f \in Frames} :
      LET i == LatestBookFrame(s, t)
      IN IF i = None THEN Candidates(s, t) = {}
         ELSE \A j \in 1..Len(frames) :
                j > i /\ frames[j].leaf.symbol = s => frames[j].leaf.at > t

\* Pages of any size, each after the last bar of the one before, give every bar once.
PagesCoverTape ==
  tape.state = "SEALED" =>
    \A s \in Symbols : \A i \in 0..Len(bars[s]), limit \in 1..(Len(bars[s]) + 1) :
      ClosedBarPage(s, IF i = 0 THEN None ELSE bars[s][i].leaf.open, limit)
        = {j \in 1..Len(bars[s]) : i < j /\ j <= i + limit}

\* verify_tape accepts what is stored, a sealed tape has no barrier in it, a replay
\* sees books in the order of the tape and pages hold every bar once.
TapeIsSound == TapeVerifies /\ SealedIsUnbroken /\ ReplayFollowsTape /\ PagesCoverTape
=============================================================================
