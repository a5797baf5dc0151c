--------------------------- MODULE ChessGameProofs ---------------------------
(***************************************************************************)
(* Theorems about one game of `serve chess`, for every set of threads,     *)
(* every rules of a two-sided game, every time controls and bounds: type   *)
(* correctness, takebacks that replay, results that fit the board and the  *)
(* clocks, a busy flag that is up only while a search runs, and clocks     *)
(* that are charged exactly the time that passed.                          *)
(***************************************************************************)
EXTENDS ChessGame, SequenceTheorems, TLAPS

AnyMove == UNION {Legal(p) : p \in Positions}
Snap  == [pos : Positions, moves : Seq(AnyMove), clock : Clock,
          over : {None}, last : Ends \cup {None}]
GameSet == [pos : Positions, moves : Seq(AnyMove), clock : Clock, tc : TimeControls,
            lag : 0..MaxLag, over : Ends \cup {None}, last : Ends \cup {None},
            history : Seq(Snap), mode : Colors \cup {"human"}, busy : BOOLEAN, slot : Nat]

(* Clocks of a timed game hold numbers, those of an untimed one nothing.     *)
ClocksOf(g, clock) == \A c \in Colors : IF Timed(g) THEN clock[c] \in Nat
                                        ELSE clock[c] = Untimed
Alive(g, clock) == Timed(g) => \A c \in Colors : clock[c] > 0

(* ResultFits, of any game record, and the same of its snapshots.            *)
Fits(g) ==
    IF g.over = None
    THEN Verdict(g.pos) = "ongoing" /\ Alive(g, g.clock)
    ELSE /\ g.last = g.over
         /\ g.over.why = "timeout" => g.clock[Turn(g)] = 0
         /\ g.over.why \in {"timeout", "checkmate"} => g.over.winner = Opp(Turn(g))
         /\ g.over.why = "checkmate" <=> Verdict(g.pos) = "checkmate"
SnapsFit(g) == \A k \in 1..Len(g.history) :
    /\ Verdict(g.history[k].pos) = "ongoing"
    /\ ClocksOf(g, g.history[k].clock) /\ Alive(g, g.history[k].clock)

Sound(g) == /\ g \in GameSet /\ ClocksOf(g, g.clock)
            /\ Fits(g) /\ SnapsFit(g) /\ Replays(g)

-------------------------------------------------------------------------------
(* The operations on a game record keep it sound *)

(* What concerns the list of moves depends on three fields only.             *)
LEMMA SameList ==
    ASSUME NEW g, NEW h, h.pos = g.pos, h.moves = g.moves, h.history = g.history,
           h.tc = g.tc
    PROVE  /\ Replays(g) => Replays(h)
           /\ SnapsFit(g) => SnapsFit(h)
           /\ Timed(h) = Timed(g) /\ Turn(h) = Turn(g)
<1>1. Timed(h) = Timed(g) /\ Turn(h) = Turn(g) BY DEF Timed, Turn
<1>2. \A k : PositionAt(h, k) = PositionAt(g, k) BY DEF PositionAt
<1>3. Replays(g) => Replays(h) BY <1>2 DEF Replays
<1>4. SnapsFit(g) => SnapsFit(h) BY <1>1 DEF SnapsFit, ClocksOf, Alive
<1> QED BY <1>1, <1>3, <1>4

LEMMA FreshSound ==
    ASSUME NEW tc \in TimeControls, NEW mode \in Colors \cup {"human"},
           NEW last \in Ends \cup {None}, NEW slot \in Nat
    PROVE  Sound(Fresh(tc, mode, last, slot))
<1> DEFINE g == Fresh(tc, mode, last, slot)
<1>1. /\ g.pos = StartPos /\ g.moves = <<>> /\ g.history = <<>> /\ g.tc = tc
      /\ g.clock = [c \in Colors |-> tc.base] /\ g.over = None
  BY DEF Fresh
<1>2. tc.base = Untimed \/ tc.base \in Nat \ {0} BY TimeAssumption
<1>3. g.clock \in Clock BY <1>1, <1>2 DEF Clock
<1>4. g \in GameSet
  <2>1. <<>> \in Seq(AnyMove) /\ <<>> \in Seq(Snap) BY EmptySeq
  <2>2. 0 \in 0..MaxLag BY BoundAssumption
  <2> QED BY <1>3, <2>1, <2>2, RulesAssumption DEF Fresh, GameSet
<1>5. ClocksOf(g, g.clock) /\ Alive(g, g.clock)
  BY <1>1, <1>2, TimeAssumption DEF ClocksOf, Alive, Timed
<1>6. Fits(g) BY <1>1, <1>5, RulesAssumption DEF Fits
<1>7. SnapsFit(g) BY <1>1 DEF SnapsFit
<1>8. Replays(g) BY <1>1 DEF Replays, PositionAt
<1> QED BY <1>4, <1>5, <1>6, <1>7, <1>8 DEF Sound

(* A game ended for a reason that says nothing about clocks or board.        *)
LEMMA FinishedSound ==
    ASSUME NEW g, Sound(g), g.over = None, NEW end \in Ends, end.why \in {"draw", "resign"}
    PROVE  Sound(Finished(g, end))
<1> DEFINE h == Finished(g, end)
<1>1. h = [g EXCEPT !.over = end, !.last = end] BY DEF Finished
<1>2. h \in GameSet BY <1>1 DEF Sound, GameSet
<1>3. /\ h.pos = g.pos /\ h.moves = g.moves /\ h.history = g.history /\ h.tc = g.tc
      /\ h.clock = g.clock /\ h.over = end /\ h.last = end
  BY <1>1 DEF Sound, GameSet
<1>4. Fits(h) BY <1>3, NoneAssumption DEF Sound, Fits
<1>5. ClocksOf(h, h.clock) BY <1>3, SameList DEF Sound, ClocksOf
<1> QED BY <1>2, <1>3, <1>4, <1>5, SameList DEF Sound

LEMMA TickedSound ==
    ASSUME NEW g, Sound(g)
    PROVE  /\ Sound(Ticked(g))
           /\ Ticked(g).busy = g.busy /\ Ticked(g).slot = g.slot /\ Ticked(g).pos = g.pos
<1> DEFINE now  == [g EXCEPT !.lag = 0]
           turn == Turn(g)
           left == g.clock[turn] - g.lag
           end  == FlagFall(g)
<1>1. g \in GameSet BY DEF Sound
<1>2. 0 \in 0..MaxLag BY BoundAssumption
<1>3. now \in GameSet BY <1>1, <1>2 DEF GameSet
<1>4. /\ now.pos = g.pos /\ now.moves = g.moves /\ now.history = g.history
      /\ now.tc = g.tc /\ now.clock = g.clock /\ now.over = g.over /\ now.last = g.last
      /\ now.busy = g.busy /\ now.slot = g.slot
  BY <1>1 DEF GameSet
<1>5. CASE g.over # None \/ g.moves = <<>> \/ ~Timed(g)
  <2>1. Ticked(g) = now BY <1>5 DEF Ticked
  <2>2. Fits(now) BY <1>4, SameList DEF Sound, Fits, Alive
  <2>3. ClocksOf(now, now.clock) BY <1>4, SameList DEF Sound, ClocksOf
  <2> QED BY <2>1, <2>2, <2>3, <1>3, <1>4, SameList DEF Sound
<1>6. CASE ~(g.over # None \/ g.moves = <<>> \/ ~Timed(g))
  <2>1. turn \in Colors /\ Opp(turn) \in Colors
    BY <1>1, RulesAssumption DEF GameSet, Turn, Opp, Colors
  <2>2. \A c \in Colors : g.clock[c] \in Nat BY <1>6 DEF Sound, ClocksOf
  <2>3. g.clock \in Clock /\ g.lag \in Nat BY <1>1, BoundAssumption DEF GameSet
  <2>4. left \in Int BY <2>1, <2>2, <2>3
  <2>5. Verdict(g.pos) = "ongoing" /\ \A c \in Colors : g.clock[c] > 0
    BY <1>6 DEF Sound, Fits, Alive
  <2>6. CASE left > 0
    <3> DEFINE h == [now EXCEPT !.clock[turn] = left]
    <3>1. Ticked(g) = h BY <1>6, <2>6 DEF Ticked
    <3>2. h.clock = [g.clock EXCEPT ![turn] = left] BY <1>3, <1>4 DEF GameSet
    <3>3. h.clock \in Clock /\ \A c \in Colors : h.clock[c] \in Nat /\ h.clock[c] > 0
      BY <2>1, <2>2, <2>3, <2>4, <2>5, <2>6, <3>2 DEF Clock
    <3>4. /\ h \in GameSet
          /\ h.pos = g.pos /\ h.moves = g.moves /\ h.history = g.history /\ h.tc = g.tc
          /\ h.over = None /\ h.busy = g.busy /\ h.slot = g.slot
      BY <1>3, <1>4, <1>6, <3>3 DEF GameSet
    <3>5. Timed(h) BY <1>6, <3>4, SameList
    <3>6. Fits(h) BY <2>5, <3>3, <3>4 DEF Fits, Alive
    <3>7. ClocksOf(h, h.clock) BY <3>3, <3>5 DEF ClocksOf
    <3> QED BY <3>1, <3>4, <3>6, <3>7, SameList DEF Sound
  <2>7. CASE ~(left > 0)
    <3> DEFINE h == Finished([now EXCEPT !.clock[turn] = 0], end)
    <3>1. Ticked(g) = h BY <1>6, <2>7 DEF Ticked
    <3>2. end \in Ends /\ end.why \in {"draw", "timeout"}
          /\ (end.why = "timeout" => end.winner = Opp(turn))
      BY <2>1 DEF FlagFall, End, Ends
    <3>3. h.clock = [g.clock EXCEPT ![turn] = 0] BY <1>3, <1>4 DEF GameSet, Finished
    <3>4. /\ h.clock \in Clock /\ h.clock[turn] = 0
          /\ \A c \in Colors : h.clock[c] \in Nat
      BY <2>1, <2>2, <2>3, <3>3 DEF Clock
    <3>5. /\ h \in GameSet
          /\ h.pos = g.pos /\ h.moves = g.moves /\ h.history = g.history /\ h.tc = g.tc
          /\ h.over = end /\ h.last = end /\ h.busy = g.busy /\ h.slot = g.slot
      BY <1>3, <1>4, <3>2, <3>4 DEF GameSet, Finished
    <3>6. Timed(h) /\ Turn(h) = turn BY <1>6, <3>5, SameList
    <3>7. Fits(h) BY <2>5, <3>2, <3>4, <3>5, <3>6, NoneAssumption DEF Fits
    <3>8. ClocksOf(h, h.clock) BY <3>4, <3>6 DEF ClocksOf
    <3> QED BY <3>1, <3>5, <3>7, <3>8, SameList DEF Sound
  <2> QED BY <2>6, <2>7
<1> QED BY <1>5, <1>6

(* A move of a live game: its snapshot goes on the history, and the list     *)
(* with the new move replays from the start to the new position.            *)
LEMMA PlayedReplays ==
    ASSUME NEW g, Sound(g), g.over = None, NEW m \in Legal(g.pos), NEW h,
           h.pos = After(g.pos, m), h.moves = Append(g.moves, m),
           h.history = Append(g.history, Snapshot(g))
    PROVE  Replays(h)
<1> DEFINE n == Len(g.moves)
           s == Snapshot(g)
<1>1. g \in GameSet /\ Replays(g) BY DEF Sound
<1>2. g.moves \in Seq(AnyMove) /\ g.history \in Seq(Snap) /\ n \in Nat /\ Len(g.history) = n
  BY <1>1, LenProperties DEF GameSet, Replays
<1>3. m \in AnyMove BY <1>1 DEF AnyMove, GameSet
<1>4. s.pos = g.pos /\ s.moves = g.moves BY DEF Snapshot
<1>5. /\ Len(h.moves) = n + 1 /\ Len(h.history) = n + 1
      /\ \A k \in 1..n : h.moves[k] = g.moves[k] /\ h.history[k] = g.history[k]
      /\ h.moves[n + 1] = m /\ h.history[n + 1] = s
  <2>1. Len(h.moves) = n + 1 /\ (\A k \in 1..n : h.moves[k] = g.moves[k]) /\ h.moves[n + 1] = m
    BY <1>2
  <2>2. /\ Len(h.history) = n + 1 /\ (\A k \in 1..n : h.history[k] = g.history[k])
        /\ h.history[n + 1] = s
    <3>1. s \in Snap BY <1>1 DEF Snapshot, Snap, GameSet
    <3>2. h.history = Append(g.history, s) OBVIOUS
    <3> HIDE DEF s
    <3> QED BY <1>2, <3>1, <3>2
  <2> QED BY <2>1, <2>2
<1>6. /\ \A k \in 0..n : PositionAt(h, k) = PositionAt(g, k)
      /\ PositionAt(h, n + 1) = After(g.pos, m)
  <2>1. PositionAt(h, n + 1) = h.pos BY <1>5 DEF PositionAt
  <2>2. ASSUME NEW k \in 0..n PROVE PositionAt(h, k) = PositionAt(g, k)
    <3>1. CASE k = n
      <4>1. PositionAt(h, k) = h.history[n + 1].pos BY <3>1, <1>2, <1>5 DEF PositionAt
      <4> QED BY <4>1, <3>1, <1>4, <1>5 DEF PositionAt
    <3>2. CASE k # n
      <4>1. k + 1 \in 1..n /\ k # n + 1 BY <3>2, <1>2
      <4> QED BY <4>1, <3>2, <1>5 DEF PositionAt
    <3> QED BY <3>1, <3>2
  <2> QED BY <2>1, <2>2
<1>7. PositionAt(g, n) = g.pos BY DEF PositionAt
<1>8. ASSUME NEW k \in 1..(n + 1)
      PROVE  /\ h.moves[k] \in Legal(PositionAt(h, k - 1))
             /\ PositionAt(h, k) = After(PositionAt(h, k - 1), h.moves[k])
             /\ h.history[k].moves = SubSeq(h.moves, 1, k - 1)
  <2>1. \A i \in 0..n : SubSeq(h.moves, 1, i) = SubSeq(g.moves, 1, i)
    <3> SUFFICES ASSUME NEW i \in 0..n PROVE SubSeq(h.moves, 1, i) = SubSeq(g.moves, 1, i)
      OBVIOUS
    <3>1. h.moves \in Seq(AnyMove) BY <1>2, <1>3
    <3>2. /\ SubSeq(h.moves, 1, i) = [j \in 1..i |-> h.moves[j]]
          /\ SubSeq(g.moves, 1, i) = [j \in 1..i |-> g.moves[j]]
      BY <3>1, <1>2, <1>5
    <3>3. \A j \in 1..i : h.moves[j] = g.moves[j] BY <1>2, <1>5
    <3> QED BY <3>2, <3>3
  <2>2. CASE k = n + 1
    <3>1. SubSeq(g.moves, 1, n) = g.moves BY <1>2
    <3>2. k - 1 = n /\ n \in 0..n BY <2>2, <1>2
    <3> QED BY <2>1, <2>2, <3>1, <3>2, <1>4, <1>5, <1>6, <1>7
  <2>3. CASE k # n + 1
    <3>1. k \in 1..n /\ k - 1 \in 0..n /\ k \in 0..n BY <2>3, <1>2
    <3>2. /\ g.moves[k] \in Legal(PositionAt(g, k - 1))
          /\ PositionAt(g, k) = After(PositionAt(g, k - 1), g.moves[k])
          /\ g.history[k].moves = SubSeq(g.moves, 1, k - 1)
      BY <3>1, <1>1 DEF Replays
    <3> QED BY <2>1, <3>1, <3>2, <1>5, <1>6
  <2> QED BY <2>2, <2>3
<1>9. PositionAt(h, 0) = StartPos BY <1>1, <1>2, <1>6 DEF Replays
<1> QED BY <1>5, <1>8, <1>9 DEF Replays

LEMMA PlayedSound ==
    ASSUME NEW g, Sound(g), g.over = None, NEW m \in Legal(g.pos)
    PROVE  /\ Sound(Played(g, m))
           /\ Played(g, m).busy = g.busy /\ Played(g, m).slot = g.slot
<1> DEFINE mover == Turn(g)
           s == Snapshot(g)
           clock == Rewarded(g, mover)
           b == [g EXCEPT !.history = Append(@, s), !.pos = After(@, m),
                          !.moves = Append(@, m), !.clock = clock, !.lag = 0]
           h == Concluded(b, mover)
<1>1. g \in GameSet /\ g.pos \in Positions /\ ClocksOf(g, g.clock) /\ Fits(g) /\ SnapsFit(g)
  BY DEF Sound, GameSet
<1>2. Played(g, m) = h BY DEF Played
<1>3. mover \in Colors BY <1>1, RulesAssumption DEF Turn
<1>4. /\ clock \in Clock /\ ClocksOf(g, clock) /\ Alive(g, clock)
  <2>1. g.tc.incr \in Nat /\ g.clock \in Clock BY <1>1, TimeAssumption DEF GameSet
  <2>2. CASE Timed(g)
    <3>1. clock = [g.clock EXCEPT ![mover] = @ + g.tc.incr] BY <2>2 DEF Rewarded
    <3>2. \A c \in Colors : g.clock[c] \in Nat /\ g.clock[c] > 0
      BY <1>1, <2>2 DEF ClocksOf, Fits, Alive
    <3>3. \A c \in Colors : clock[c] \in Nat /\ clock[c] > 0
      BY <1>3, <2>1, <3>1, <3>2 DEF Clock
    <3>4. clock \in Clock BY <1>3, <2>1, <3>1, <3>2 DEF Clock
    <3> QED BY <2>2, <3>3, <3>4 DEF ClocksOf, Alive
  <2>3. CASE ~Timed(g)
    BY <1>1, <2>1, <2>3 DEF Rewarded, ClocksOf, Alive
  <2> QED BY <2>2, <2>3
<1>5. s \in Snap /\ s.pos = g.pos /\ s.clock = g.clock BY <1>1 DEF Snapshot, Snap, GameSet
<1>6. /\ After(g.pos, m) \in Positions /\ ToMove(After(g.pos, m)) = Opp(mover)
      /\ m \in AnyMove
  BY <1>1, RulesAssumption DEF Turn, AnyMove
<1>7. /\ b \in GameSet
      /\ b.pos = After(g.pos, m) /\ b.moves = Append(g.moves, m)
      /\ b.history = Append(g.history, s) /\ b.clock = clock /\ b.tc = g.tc
      /\ b.over = None /\ b.busy = g.busy /\ b.slot = g.slot
  <2>1. Append(g.moves, m) \in Seq(AnyMove) BY <1>1, <1>6 DEF GameSet
  <2>2. Append(g.history, s) \in Seq(Snap)
    <3>1. g.history \in Seq(Snap) BY <1>1 DEF GameSet
    <3> HIDE DEF s
    <3> QED BY <3>1, <1>5
  <2>3. 0 \in 0..MaxLag BY BoundAssumption
  <2> HIDE DEF s, clock
  <2> QED BY <1>1, <1>4, <1>6, <2>1, <2>2, <2>3 DEF GameSet
<1>8. Replays(b) BY <1>7, PlayedReplays
<1>9. SnapsFit(b)
  <2>1. Timed(b) = Timed(g) BY <1>7 DEF Timed
  <2>2. g.history \in Seq(Snap) BY <1>1 DEF GameSet
  <2>3. /\ Len(b.history) = Len(g.history) + 1
        /\ \A k \in 1..Len(g.history) : b.history[k] = g.history[k]
        /\ b.history[Len(g.history) + 1] = s
    <3>1. b.history = Append(g.history, s) BY <1>7
    <3> HIDE DEF b, s
    <3> QED BY <1>5, <2>2, <3>1
  <2>4. Verdict(s.pos) = "ongoing" /\ ClocksOf(g, s.clock) /\ Alive(g, s.clock)
    BY <1>1, <1>5 DEF Fits
  <2> HIDE DEF b, s
  <2>5. SUFFICES ASSUME NEW k \in 1..Len(b.history)
                 PROVE  /\ Verdict(b.history[k].pos) = "ongoing"
                        /\ ClocksOf(b, b.history[k].clock) /\ Alive(b, b.history[k].clock)
    BY DEF SnapsFit
  <2>6. CASE k = Len(g.history) + 1 BY <2>1, <2>3, <2>4, <2>6 DEF ClocksOf, Alive
  <2>7. CASE k # Len(g.history) + 1
    <3>1. k \in 1..Len(g.history) BY <2>2, <2>3, <2>7
    <3> QED BY <3>1, <1>1, <2>1, <2>3 DEF SnapsFit, ClocksOf, Alive
  <2> QED BY <2>6, <2>7
<1>10. ClocksOf(b, b.clock) /\ Alive(b, b.clock)
  BY <1>4, <1>7 DEF ClocksOf, Alive, Timed
<1> HIDE DEF b
<1>11. CASE Verdict(b.pos) = "ongoing"
  <2>1. h = b BY <1>11 DEF Concluded
  <2>2. Fits(b) BY <1>7, <1>10, <1>11 DEF Fits
  <2> QED BY <1>2, <1>7, <1>8, <1>9, <1>10, <2>1, <2>2 DEF Sound
<1>12. CASE Verdict(b.pos) # "ongoing"
  <2>1. PICK end \in {End("checkmate", mover), End("draw", None)} :
            /\ h = Finished(b, end)
            /\ end.why = "checkmate" <=> Verdict(b.pos) = "checkmate"
    BY <1>12 DEF Concluded, End
  <2>2. /\ end \in Ends /\ end.why \in {"checkmate", "draw"}
        /\ end.why = "checkmate" => end.winner = mover
    BY <1>3 DEF End, Ends
  <2>3. /\ h \in GameSet
        /\ h.pos = b.pos /\ h.moves = b.moves /\ h.history = b.history /\ h.tc = b.tc
        /\ h.clock = b.clock /\ h.over = end /\ h.last = end
        /\ h.busy = b.busy /\ h.slot = b.slot
    BY <1>7, <2>1, <2>2 DEF GameSet, Finished
  <2>4. Opp(Turn(h)) = mover BY <1>3, <1>6, <1>7, <2>3 DEF Turn, Opp, Colors
  <2> HIDE DEF h
  <2>5. Fits(h) BY <2>1, <2>2, <2>3, <2>4, NoneAssumption DEF Fits
  <2>6. ClocksOf(h, h.clock) BY <1>10, <2>3, SameList DEF ClocksOf
  <2> QED BY <1>2, <1>7, <1>8, <1>9, <2>3, <2>5, <2>6, SameList DEF Sound
<1> QED BY <1>11, <1>12

LEMMA MovedSound ==
    ASSUME NEW g, Sound(g), NEW m
    PROVE  /\ Sound(Moved(g, m))
           /\ Moved(g, m).busy = g.busy /\ Moved(g, m).slot = g.slot
BY TickedSound, PlayedSound DEF Moved

LEMMA EndedSound ==
    ASSUME NEW g, Sound(g), NEW end \in Ends, end.why \in {"draw", "resign"}
    PROVE  /\ Sound(Ended(g, end))
           /\ Ended(g, end).busy = g.busy /\ Ended(g, end).slot = g.slot
<1> DEFINE now == Ticked(g)
<1>1. Sound(now) /\ now.busy = g.busy /\ now.slot = g.slot BY TickedSound
<1>2. Finished(now, end).busy = now.busy /\ Finished(now, end).slot = now.slot
  BY <1>1 DEF Sound, GameSet, Finished
<1>3. now.over = None => Sound(Finished(now, end)) BY <1>1, FinishedSound
<1> HIDE DEF now
<1>4. Ended(g, end) = IF now.over = None THEN Finished(now, end) ELSE now BY DEF Ended, now
<1> QED BY <1>1, <1>2, <1>3, <1>4

LEMMA ResetSound ==
    ASSUME NEW g, Sound(g), NEW tc \in TimeControls, NEW mode \in Colors \cup {"human"}
    PROVE  Sound(Reset(g, tc, mode)) /\ ~Reset(g, tc, mode).busy
<1> DEFINE last == IF g.over = None /\ g.moves # <<>>
                   THEN End("abandoned", Opp(Turn(g))) ELSE g.last
<1>1. last \in Ends \cup {None} /\ g.slot + 1 \in Nat
  BY DEF Sound, GameSet, End, Ends, Opp, Colors
<1>2. Reset(g, tc, mode) = Fresh(tc, mode, last, g.slot + 1) BY DEF Reset
<1> HIDE DEF last
<1>3. ~Fresh(tc, mode, last, g.slot + 1).busy BY DEF Fresh
<1> QED BY <1>1, <1>2, <1>3, FreshSound

(* The takeback of the last move: its snapshot is the game before it.        *)
LEMMA UndoneSound ==
    ASSUME NEW g, Sound(g), g.history # <<>>
    PROVE  Sound(Undone(g)) /\ Undone(g).busy = g.busy /\ Undone(g).slot = g.slot
<1> DEFINE n == Len(g.history)
           s == g.history[n]
           rest == SubSeq(g.history, 1, n - 1)
           h == Undone(g)
<1>1. g \in GameSet /\ Replays(g) /\ SnapsFit(g) BY DEF Sound
<1>2. g.moves \in Seq(AnyMove) /\ g.history \in Seq(Snap) BY <1>1 DEF GameSet
<1>3. n \in Nat /\ n >= 1 /\ Len(g.moves) = n /\ n \in 1..n
  BY <1>1, <1>2 DEF Replays
<1>4. s \in Snap BY <1>2, <1>3
<1>5. /\ rest \in Seq(Snap) /\ Len(rest) = n - 1
      /\ \A k \in 1..(n - 1) : rest[k] = g.history[k]
  BY <1>2, <1>3
<1>6. s.moves = SubSeq(g.moves, 1, n - 1) BY <1>1, <1>3 DEF Replays
<1>7. 0 \in 0..MaxLag BY BoundAssumption
<1>8. h = [g EXCEPT !.pos = s.pos, !.moves = s.moves, !.clock = s.clock,
                    !.over = s.over, !.last = s.last, !.lag = 0, !.history = rest]
  BY DEF Undone
<1> HIDE DEF s, rest, h
<1>9. /\ h \in GameSet
      /\ h.pos = s.pos /\ h.moves = s.moves /\ h.clock = s.clock /\ h.over = None
      /\ h.history = rest /\ h.tc = g.tc /\ h.busy = g.busy /\ h.slot = g.slot
  BY <1>1, <1>4, <1>5, <1>7, <1>8 DEF GameSet, Snap
<1>10. Verdict(s.pos) = "ongoing" /\ ClocksOf(g, s.clock) /\ Alive(g, s.clock)
  BY <1>1, <1>3 DEF SnapsFit, s
<1>11. Timed(h) = Timed(g) BY <1>9 DEF Timed
<1>12. Fits(h) /\ ClocksOf(h, h.clock) BY <1>9, <1>10, <1>11 DEF Fits, ClocksOf, Alive
<1>13. SnapsFit(h)
  <2>1. \A k \in 1..Len(h.history) : k \in 1..n /\ h.history[k] = g.history[k]
    BY <1>3, <1>5, <1>9
  <2> QED BY <2>1, <1>1, <1>11 DEF SnapsFit, ClocksOf, Alive
<1>14. Replays(h)
  <2>1. Len(h.moves) = n - 1 /\ \A k \in 1..(n - 1) : h.moves[k] = g.moves[k]
    BY <1>2, <1>3, <1>6, <1>9
  <2>2. \A k \in 0..(n - 1) : PositionAt(h, k) = PositionAt(g, k)
    <3> SUFFICES ASSUME NEW k \in 0..(n - 1) PROVE PositionAt(h, k) = PositionAt(g, k)
      OBVIOUS
    <3>1. PositionAt(g, k) = g.history[k + 1].pos BY <1>3 DEF PositionAt
    <3>2. CASE k = n - 1
      <4>1. PositionAt(h, k) = s.pos BY <3>2, <2>1, <1>9 DEF PositionAt
      <4> QED BY <3>1, <3>2, <4>1, <1>3 DEF s
    <3>3. CASE k # n - 1
      <4>1. k + 1 \in 1..(n - 1) BY <3>3, <1>3
      <4>2. PositionAt(h, k) = h.history[k + 1].pos BY <3>3, <2>1, <1>3 DEF PositionAt
      <4> QED BY <3>1, <4>1, <4>2, <1>5, <1>9
    <3> QED BY <3>2, <3>3
  <2>3. ASSUME NEW k \in 1..(n - 1)
        PROVE  /\ h.moves[k] \in Legal(PositionAt(h, k - 1))
               /\ PositionAt(h, k) = After(PositionAt(h, k - 1), h.moves[k])
               /\ h.history[k].moves = SubSeq(h.moves, 1, k - 1)
    <3>1. k \in 1..n /\ k - 1 \in 0..(n - 1) /\ k \in 0..(n - 1) BY <1>3
    <3>2. /\ g.moves[k] \in Legal(PositionAt(g, k - 1))
          /\ PositionAt(g, k) = After(PositionAt(g, k - 1), g.moves[k])
          /\ g.history[k].moves = SubSeq(g.moves, 1, k - 1)
      BY <3>1, <1>1, <1>3 DEF Replays
    <3>3. SubSeq(h.moves, 1, k - 1) = SubSeq(g.moves, 1, k - 1)
      <4>1. /\ SubSeq(h.moves, 1, k - 1) = [j \in 1..(k - 1) |-> h.moves[j]]
            /\ SubSeq(g.moves, 1, k - 1) = [j \in 1..(k - 1) |-> g.moves[j]]
        <5>1. h.moves \in Seq(AnyMove) BY <1>9 DEF GameSet
        <5> QED BY <5>1, <1>2, <1>3, <2>1, <3>1
      <4>2. \A j \in 1..(k - 1) : h.moves[j] = g.moves[j] BY <2>1, <3>1, <1>3
      <4> QED BY <4>1, <4>2
    <3> QED BY <3>1, <3>2, <3>3, <2>1, <2>2, <1>5, <1>9
  <2>4. PositionAt(h, 0) = StartPos
    <3>1. 0 \in 0..(n - 1) BY <1>3
    <3> QED BY <3>1, <2>2, <1>1 DEF Replays
  <2>5. Len(h.history) = n - 1 BY <1>5, <1>9
  <2> QED BY <2>1, <2>3, <2>4, <2>5 DEF Replays
<1> QED BY <1>9, <1>12, <1>13, <1>14 DEF Sound, h

LEMMA BusySound ==
    ASSUME NEW g, Sound(g), NEW busy \in BOOLEAN
    PROVE  /\ Sound([g EXCEPT !.busy = busy])
           /\ [g EXCEPT !.busy = busy].busy = busy /\ [g EXCEPT !.busy = busy].slot = g.slot
<1> DEFINE h == [g EXCEPT !.busy = busy]
<1>1. /\ h \in GameSet /\ h.busy = busy /\ h.slot = g.slot
      /\ h.pos = g.pos /\ h.moves = g.moves /\ h.history = g.history /\ h.tc = g.tc
      /\ h.clock = g.clock /\ h.over = g.over /\ h.last = g.last
  BY DEF Sound, GameSet
<1> HIDE DEF h
<1>2. Timed(h) = Timed(g) /\ Turn(h) = Turn(g) BY <1>1, SameList
<1>3. Fits(h) BY <1>1, <1>2 DEF Sound, Fits, Alive
<1>4. ClocksOf(h, h.clock) BY <1>1, <1>2 DEF Sound, ClocksOf
<1>5. Sound(h) BY <1>1, <1>3, <1>4, SameList DEF Sound
<1> QED BY <1>1, <1>5 DEF h

LEMMA ElapsedSound ==
    ASSUME NEW g, Sound(g), g.lag < MaxLag
    PROVE  Sound([g EXCEPT !.lag = @ + 1])
<1> DEFINE h == [g EXCEPT !.lag = @ + 1]
<1>1. g.lag + 1 \in 0..MaxLag BY BoundAssumption DEF Sound, GameSet
<1>2. /\ h \in GameSet /\ h.busy = g.busy /\ h.slot = g.slot
      /\ h.pos = g.pos /\ h.moves = g.moves /\ h.history = g.history /\ h.tc = g.tc
      /\ h.clock = g.clock /\ h.over = g.over /\ h.last = g.last
  BY <1>1 DEF Sound, GameSet
<1> HIDE DEF h
<1>3. Timed(h) = Timed(g) /\ Turn(h) = Turn(g) BY <1>2, SameList
<1>4. Fits(h) BY <1>2, <1>3 DEF Sound, Fits, Alive
<1>5. ClocksOf(h, h.clock) BY <1>2, <1>3 DEF Sound, ClocksOf
<1>6. Sound(h) BY <1>2, <1>4, <1>5, SameList DEF Sound
<1> QED BY <1>6 DEF h

-------------------------------------------------------------------------------
(* The inductive invariant *)

(* What a request keeps while the game is unlocked.                         *)
ThreadSet == {Idle} \cup [at : {"rematch"}, tc : TimeControls]
                    \cup [at : {"thinking"}, asked : Positions, expected : Nat, slot : Nat]
Inv == /\ Sound(game) /\ thread \in [Threads -> ThreadSet] /\ BusyMeansSearching
       /\ page \in Nat /\ bot \in [ready : BOOLEAN, sound : BOOLEAN]

LEMMA InitInv == Init => Inv
<1> SUFFICES ASSUME Init PROVE Inv OBVIOUS
<1>1. PICK tc \in TimeControls : game = Fresh(tc, "human", None, 0) BY DEF Init
<1>2. Sound(game) BY <1>1, FreshSound
<1>3. thread \in [Threads -> ThreadSet] BY DEF Init, ThreadSet
<1>4. ~game.busy BY <1>1 DEF Fresh
<1>5. page \in Nat /\ bot \in [ready : BOOLEAN, sound : BOOLEAN] BY DEF Init
<1> QED BY <1>2, <1>3, <1>4, <1>5 DEF Inv, BusyMeansSearching

(* What the page shows and what is known of the bot, in a step on one lock.  *)
LEMMA PageStep ==
    ASSUME Inv, Sound(game'), Shown, UNCHANGED bot
    PROVE  page' \in Nat /\ bot' \in [ready : BOOLEAN, sound : BOOLEAN]
<1>1. Len(game'.moves) \in Nat BY LenProperties DEF Sound, GameSet
<1> QED BY <1>1 DEF Inv, Shown

(* A step that keeps the threads, the flag and the game's identity.          *)
LEMMA KeepsBusy ==
    ASSUME Inv, Sound(game'), thread' = thread, page' \in Nat,
           bot' \in [ready : BOOLEAN, sound : BOOLEAN],
           game'.busy = game.busy, game'.slot = game.slot
    PROVE  Inv'
BY DEF Inv, BusyMeansSearching, Thinking

LEMMA KeepsBusyOneLock ==
    ASSUME Inv, Sound(game'), OneLock, game'.busy = game.busy, game'.slot = game.slot
    PROVE  Inv'
BY PageStep, KeepsBusy DEF OneLock

(* A step that leaves the flag down.                                        *)
LEMMA NotBusy ==
    ASSUME Sound(game'), thread' \in [Threads -> ThreadSet], ~game'.busy, page' \in Nat,
           bot' \in [ready : BOOLEAN, sound : BOOLEAN]
    PROVE  Inv'
BY DEF Inv, BusyMeansSearching

LEMMA LockedInv ==
    ASSUME Inv, Elapse \/ Look \/ Poll \/ Move \/ Resign \/ Draw \/ Undo
    PROVE  Inv'
<1>1. Sound(game) /\ page \in Nat /\ bot \in [ready : BOOLEAN, sound : BOOLEAN] BY DEF Inv
<1>2. CASE Elapse
  <2>1. Sound(game') BY <1>1, <1>2, ElapsedSound DEF Elapse
  <2>2. game'.busy = game.busy /\ game'.slot = game.slot
    BY <1>1, <1>2 DEF Elapse, Sound, GameSet
  <2> QED BY <1>2, <2>1, <2>2, KeepsBusy, <1>1 DEF Elapse
<1>3. CASE Look BY <1>1, <1>3, TickedSound, KeepsBusy DEF Look
<1>8. CASE Poll
  <2>1. Len(game.moves) \in Nat BY <1>1, LenProperties DEF Sound, GameSet
  <2> QED BY <1>1, <1>8, <2>1, TickedSound, KeepsBusy DEF Poll
<1>4. CASE Move BY <1>1, <1>4, MovedSound, KeepsBusyOneLock DEF Move
<1>5. CASE Resign
  <2>1. PICK c \in Colors : game' = Ended(game, End("resign", Opp(c))) BY <1>5 DEF Resign
  <2>2. End("resign", Opp(c)) \in Ends /\ End("resign", Opp(c)).why = "resign"
    BY DEF End, Ends, Opp, Colors
  <2> QED BY <1>1, <1>5, <2>1, <2>2, EndedSound, KeepsBusyOneLock DEF Resign
<1>6. CASE Draw
  <2>1. End("draw", None) \in Ends /\ End("draw", None).why = "draw" BY DEF End, Ends
  <2> QED BY <1>1, <1>6, <2>1, EndedSound, KeepsBusyOneLock DEF Draw
<1>7. CASE Undo BY <1>1, <1>7, UndoneSound, KeepsBusyOneLock DEF Undo
<1> QED BY <1>2, <1>3, <1>4, <1>5, <1>6, <1>7, <1>8

LEMMA NewInv == ASSUME Inv, New PROVE Inv'
<1>1. PICK tc \in TimeControls, mode \in Colors \cup {"human"} : game' = Reset(game, tc, mode)
  BY DEF New
<1>2. Sound(game') /\ ~game'.busy BY <1>1, ResetSound DEF Inv
<1> QED BY <1>2, PageStep, NotBusy DEF Inv, New, OneLock

(* The bot removed or installed: nothing else changes.                       *)
LEMMA BotInv == ASSUME Inv, Uninstall \/ Install PROVE Inv'
<1>1. game' = game /\ thread' = thread /\ page' = page BY DEF Uninstall, Install
<1>2. bot' \in [ready : BOOLEAN, sound : BOOLEAN] BY DEF Inv, Uninstall, Install
<1> QED BY <1>1, <1>2, KeepsBusy DEF Inv

LEMMA RematchInv ==
    ASSUME Inv, NEW t \in Threads, RematchRead(t) \/ RematchReset(t)
    PROVE  Inv'
<1>1. Sound(game) /\ game \in GameSet /\ thread \in [Threads -> ThreadSet] BY DEF Inv, Sound
<1>2. CASE RematchRead(t)
  <2>1. game.tc \in TimeControls BY <1>1 DEF GameSet
  <2>2. thread' \in [Threads -> ThreadSet]
    <3>1. [at |-> "rematch", tc |-> game.tc] \in ThreadSet BY <2>1 DEF ThreadSet
    <3> QED BY <3>1, <1>1, <1>2 DEF RematchRead
  <2>3. \A u \in Threads : Thinking(u) => thread'[u] = thread[u]
    BY <1>1, <1>2 DEF RematchRead, Thinking
  <2>4. BusyMeansSearching'
    BY <1>2, <2>3 DEF Inv, BusyMeansSearching, Thinking, RematchRead
  <2> QED BY <1>1, <1>2, <2>2, <2>4 DEF Inv, RematchRead
<1>3. CASE RematchReset(t)
  <2>1. thread[t].tc \in TimeControls
    BY <1>1, <1>3 DEF RematchReset, ThreadSet, Idle
  <2>2. game.mode \in Colors \cup {"human"} BY <1>1 DEF GameSet
  <2>3. Sound(game') /\ ~game'.busy BY <1>1, <1>3, <2>1, <2>2, ResetSound DEF RematchReset
  <2>4. thread' \in [Threads -> ThreadSet]
    <3>1. Idle \in ThreadSet BY DEF ThreadSet
    <3> QED BY <3>1, <1>1, <1>3 DEF RematchReset
  <2> QED BY <1>3, <2>3, <2>4, PageStep, NotBusy DEF RematchReset
<1> QED BY <1>2, <1>3

LEMMA AskInv ==
    ASSUME Inv, NEW t \in Threads, NEW ply, BotAsk(t, ply) \/ BotAskTooLate(t, ply)
    PROVE  Inv'
<1> DEFINE now == Ticked(game)
<1>1. Sound(game) /\ game \in GameSet /\ thread \in [Threads -> ThreadSet] BY DEF Inv, Sound
<1>2. Sound(now) /\ now.busy = game.busy /\ now.slot = game.slot BY <1>1, TickedSound
<1> HIDE DEF now
<1>3. CASE BotAskTooLate(t, ply)
  <2>1. game' = now /\ OneLock BY <1>3 DEF BotAskTooLate, now
  <2> QED BY <1>2, <2>1, KeepsBusyOneLock
<1>4. CASE BotAsk(t, ply)
  <2> DEFINE r == [at |-> "thinking", asked |-> game.pos,
                   expected |-> Len(game.moves), slot |-> game.slot]
  <2>1. /\ game' = [now EXCEPT !.busy = TRUE] /\ thread' = [thread EXCEPT ![t] = r]
        /\ page' = page /\ bot' = bot
    BY <1>4 DEF BotAsk, now
  <2>2. Sound(game') /\ game'.slot = game.slot BY <1>2, <2>1, BusySound
  <2>3. r \in ThreadSet
    <3>1. Len(game.moves) \in Nat BY <1>1, LenProperties DEF GameSet
    <3> QED BY <3>1, <1>1 DEF ThreadSet, GameSet
  <2>4. thread' \in [Threads -> ThreadSet] BY <1>1, <2>1, <2>3
  <2>5. thread'[t].at = "thinking" /\ thread'[t].slot = game.slot BY <1>1, <2>1
  <2>6. BusyMeansSearching' BY <2>2, <2>5 DEF BusyMeansSearching, Thinking
  <2> QED BY <2>1, <2>2, <2>4, <2>6 DEF Inv
<1> QED BY <1>3, <1>4

LEMMA ReplyInv == ASSUME Inv, NEW t \in Threads, BotReply(t) PROVE Inv'
<1> DEFINE free == Free(game)
<1>1. Sound(game) /\ thread \in [Threads -> ThreadSet] BY DEF Inv
<1>2. Sound(free) /\ ~free.busy BY <1>1, BusySound DEF Free
<1> HIDE DEF free
<1>3. Answer(t) BY DEF BotReply, ReplyDropped, EngineReply, IllegalReply, FallbackReply
<1>4. thread' \in [Threads -> ThreadSet]
  <2>1. Idle \in ThreadSet BY DEF ThreadSet
  <2> QED BY <1>1, <1>3, <2>1 DEF Answer
<1>5. game' = free \/ game' = Ticked(free) \/ \E m : game' = Moved(free, m)
  BY DEF BotReply, ReplyDropped, EngineReply, IllegalReply, FallbackReply, free
<1>6. Sound(game') /\ ~game'.busy BY <1>2, <1>5, TickedSound, MovedSound
<1>7. Shown /\ bot' \in [ready : BOOLEAN, sound : BOOLEAN]
  BY DEF Inv, BotReply, ReplyDropped, EngineReply, IllegalReply, FallbackReply
<1>8. page' \in Nat
  <2>1. Len(game'.moves) \in Nat BY <1>6, LenProperties DEF Sound, GameSet
  <2> QED BY <1>7, <2>1 DEF Inv, Shown
<1> QED BY <1>4, <1>6, <1>7, <1>8, NotBusy

LEMMA NextInv == Inv /\ [Next]_vars => Inv'
<1>1. ASSUME Inv, UNCHANGED vars PROVE Inv'
  BY <1>1 DEF vars, Inv, BusyMeansSearching, Thinking
<1> QED BY <1>1, LockedInv, NewInv, BotInv, RematchInv, AskInv, ReplyInv DEF Next

LEMMA Inductive == Spec => []Inv
BY InitInv, NextInv, PTL DEF Spec

-------------------------------------------------------------------------------
(* Time on the clocks                                                       *)

(* TimeCharged, of two game records.                                        *)
Charged(g, h) ==
    /\ Timed(g) /\ g.slot = h.slot
    /\ g.over = None /\ h.over = None
    /\ g.moves # <<>> /\ Len(h.moves) >= Len(g.moves)
    => TimeLeft(h) = TimeLeft(g) + g.tc.incr * (Len(h.moves) - Len(g.moves))
                     - (IF h.lag > g.lag THEN 1 ELSE 0)

LEMMA TimeTypes ==
    ASSUME NEW g, Sound(g), Timed(g)
    PROVE  /\ \A c \in Colors : g.clock[c] \in Nat
           /\ g.clock = [c \in Colors |-> g.clock[c]]
           /\ g.lag \in Nat /\ g.tc.incr \in Nat
           /\ Len(g.moves) \in Nat /\ Turn(g) \in Colors /\ TimeLeft(g) \in Int
<1>1. g \in GameSet BY DEF Sound
<1>2. \A c \in Colors : g.clock[c] \in Nat BY DEF Sound, ClocksOf
<1>3. g.lag \in Nat /\ g.clock \in Clock BY <1>1, BoundAssumption DEF GameSet
<1>4. g.tc.incr \in Nat BY <1>1, TimeAssumption DEF GameSet
<1>5. Len(g.moves) \in Nat BY <1>1, LenProperties DEF GameSet
<1>6. Turn(g) \in Colors BY <1>1, RulesAssumption DEF GameSet, Turn
<1>7. TimeLeft(g) \in Int BY <1>2, <1>3 DEF TimeLeft, Colors
<1> QED BY <1>2, <1>3, <1>4, <1>5, <1>6, <1>7 DEF Clock

(* What is taken off a clock is the time that was not charged yet.           *)
LEMMA TickedCharges ==
    ASSUME NEW g, Sound(g), Timed(g), g.moves # <<>>, Ticked(g).over = None
    PROVE  /\ Ticked(g).moves = g.moves /\ Ticked(g).tc = g.tc /\ Ticked(g).lag = 0
           /\ TimeLeft(Ticked(g)) = TimeLeft(g)
<1> DEFINE now  == [g EXCEPT !.lag = 0]
           turn == Turn(g)
           left == g.clock[turn] - g.lag
           h    == [now EXCEPT !.clock[turn] = left]
<1>1. g \in GameSet BY DEF Sound
<1>2. /\ now.moves = g.moves /\ now.tc = g.tc /\ now.clock = g.clock
      /\ now.over = g.over /\ now.lag = 0
  BY <1>1 DEF GameSet
<1>3. g.over = None
  <2>1. CASE g.over # None
    <3>1. Ticked(g) = now BY <2>1 DEF Ticked
    <3> QED BY <1>2, <2>1, <3>1
  <2> QED BY <2>1
<1>4. left > 0
  <2> SUFFICES ASSUME ~(left > 0) PROVE FALSE OBVIOUS
  <2> DEFINE zero == [now EXCEPT !.clock[turn] = 0]
             end  == FlagFall(g)
  <2>1. Ticked(g) = Finished(zero, end) BY <1>3 DEF Ticked
  <2>2. end \in Ends
    <3>1. turn \in Colors BY TimeTypes
    <3> QED BY <3>1 DEF FlagFall, End, Ends, Opp, Colors
  <2>3. Finished(zero, end).over = end
    BY <1>1 DEF Finished, GameSet
  <2> QED BY <2>1, <2>2, <2>3, NoneAssumption
<1>5. Ticked(g) = h BY <1>3, <1>4 DEF Ticked
<1>6. /\ h.moves = g.moves /\ h.tc = g.tc /\ h.lag = 0
      /\ h.clock = [g.clock EXCEPT ![turn] = left]
  BY <1>1, <1>2 DEF GameSet
<1> HIDE DEF h
<1>7. /\ \A c \in Colors : g.clock[c] \in Nat
      /\ g.lag \in Nat /\ turn \in Colors /\ g.clock = [c \in Colors |-> g.clock[c]]
  BY TimeTypes
<1>8. h.clock[turn] = left /\ h.clock[Opp(turn)] = g.clock[Opp(turn)]
  BY <1>6, <1>7 DEF Opp, Colors
<1> HIDE DEF turn
<1>9. TimeLeft(h) = TimeLeft(g)
  BY <1>6, <1>7, <1>8 DEF TimeLeft, Colors, Opp
<1> QED BY <1>5, <1>6, <1>9

(* A move that does not end the game adds its increment.                     *)
LEMMA PlayedCharges ==
    ASSUME NEW g, Sound(g), Timed(g), g.lag = 0, NEW m, Played(g, m).over = None
    PROVE  /\ Len(Played(g, m).moves) = Len(g.moves) + 1 /\ Played(g, m).lag = 0
           /\ TimeLeft(Played(g, m)) = TimeLeft(g) + g.tc.incr
<1> DEFINE mover == Turn(g)
           b == [g EXCEPT !.history = Append(@, Snapshot(g)),
                          !.pos = After(@, m), !.moves = Append(@, m),
                          !.clock = Rewarded(g, mover), !.lag = 0]
<1>1. g \in GameSet BY DEF Sound
<1>2. /\ b.moves = Append(g.moves, m) /\ b.lag = 0 /\ b.tc = g.tc
      /\ b.clock = [g.clock EXCEPT ![mover] = @ + g.tc.incr]
      /\ DOMAIN b = DOMAIN g
  BY <1>1 DEF GameSet, Rewarded
<1>3. Played(g, m) = Concluded(b, mover) BY DEF Played
<1>4. \A end \in Ends : Finished(b, end).over = end
  BY <1>1 DEF Finished, GameSet
<1> HIDE DEF b
<1>5. Concluded(b, mover) = b
  <2>1. mover \in Colors BY TimeTypes
  <2>2. End("checkmate", mover) \in Ends /\ End("draw", None) \in Ends
    BY <2>1 DEF End, Ends
  <2> QED BY <1>3, <1>4, <2>2, NoneAssumption DEF Concluded
<1>6. Len(b.moves) = Len(g.moves) + 1
  <2>1. g.moves \in Seq(AnyMove) BY <1>1 DEF GameSet
  <2> QED BY <1>2, <2>1
<1>7. /\ \A c \in Colors : g.clock[c] \in Nat /\ g.tc.incr \in Nat
      /\ mover \in Colors /\ g.clock = [c \in Colors |-> g.clock[c]]
  BY TimeTypes
<1>8. b.clock[mover] = g.clock[mover] + g.tc.incr
      /\ b.clock[Opp(mover)] = g.clock[Opp(mover)]
  BY <1>2, <1>7 DEF Opp, Colors
<1> HIDE DEF mover
<1>9. TimeLeft(b) = TimeLeft(g) + g.tc.incr
  BY <1>2, <1>7, <1>8 DEF TimeLeft, Colors, Opp
<1> QED BY <1>2, <1>3, <1>5, <1>6, <1>9

LEMMA SameCharged == ASSUME NEW g, Sound(g) PROVE Charged(g, g)
<1> SUFFICES ASSUME Timed(g)
             PROVE  TimeLeft(g) = TimeLeft(g) + g.tc.incr * (Len(g.moves) - Len(g.moves))
                                  - (IF g.lag > g.lag THEN 1 ELSE 0)
  BY DEF Charged
<1>1. TimeLeft(g) \in Int /\ g.lag \in Nat /\ g.tc.incr \in Nat /\ Len(g.moves) \in Nat
  BY TimeTypes
<1>2. Len(g.moves) - Len(g.moves) = 0 /\ g.tc.incr * 0 = 0 BY <1>1
<1> QED BY <1>1, <1>2

LEMMA TickedCharged == ASSUME NEW g, Sound(g) PROVE Charged(g, Ticked(g))
<1> SUFFICES ASSUME Timed(g), g.moves # <<>>, Ticked(g).over = None
             PROVE  TimeLeft(Ticked(g)) = TimeLeft(g)
                        + g.tc.incr * (Len(Ticked(g).moves) - Len(g.moves))
                        - (IF Ticked(g).lag > g.lag THEN 1 ELSE 0)
  BY DEF Charged
<1>1. TimeLeft(Ticked(g)) = TimeLeft(g) /\ Ticked(g).moves = g.moves /\ Ticked(g).lag = 0
  BY TickedCharges
<1>2. TimeLeft(g) \in Int /\ g.lag \in Nat /\ g.tc.incr \in Nat /\ Len(g.moves) \in Nat
  BY TimeTypes
<1>3. Len(g.moves) - Len(g.moves) = 0 /\ g.tc.incr * 0 = 0 BY <1>2
<1> QED BY <1>1, <1>2, <1>3

LEMMA MovedCharged == ASSUME NEW g, Sound(g), NEW m PROVE Charged(g, Moved(g, m))
<1> DEFINE now == Ticked(g)
           h   == Played(now, m)
<1>1. CASE ~(now.over = None /\ m \in Legal(now.pos))
  BY <1>1, TickedCharged DEF Moved
<1>2. CASE now.over = None /\ m \in Legal(now.pos)
  <2>1. Moved(g, m) = h BY <1>2 DEF Moved
  <2> SUFFICES ASSUME Timed(g), g.moves # <<>>, h.over = None
               PROVE  TimeLeft(h) = TimeLeft(g) + g.tc.incr * (Len(h.moves) - Len(g.moves))
                                    - (IF h.lag > g.lag THEN 1 ELSE 0)
    BY <2>1 DEF Charged
  <2>2. /\ now.moves = g.moves /\ now.tc = g.tc /\ now.lag = 0
        /\ TimeLeft(now) = TimeLeft(g) /\ Sound(now)
    BY <1>2, TickedCharges, TickedSound
  <2>3. Timed(now) BY <2>2 DEF Timed
  <2>4. /\ Len(h.moves) = Len(now.moves) + 1 /\ h.lag = 0
        /\ TimeLeft(h) = TimeLeft(now) + now.tc.incr
    BY <2>2, <2>3, PlayedCharges
  <2>5. TimeLeft(g) \in Int /\ g.lag \in Nat /\ g.tc.incr \in Nat /\ Len(g.moves) \in Nat
    BY TimeTypes
  <2> HIDE DEF h, now
  <2>6. Len(h.moves) - Len(g.moves) = 1 /\ g.tc.incr * 1 = g.tc.incr BY <2>2, <2>4, <2>5
  <2>7. ~(h.lag > g.lag) BY <2>4, <2>5
  <2> QED BY <2>2, <2>4, <2>5, <2>6, <2>7
<1> QED BY <1>1, <1>2

LEMMA EndedCharged == ASSUME NEW g, Sound(g), NEW end \in Ends PROVE Charged(g, Ended(g, end))
<1> DEFINE now == Ticked(g)
<1>1. CASE now.over = None
  <2>1. Ended(g, end) = Finished(now, end) BY <1>1 DEF Ended
  <2>2. Finished(now, end).over = end
    BY TickedSound DEF Finished, Sound, GameSet
  <2> QED BY <2>1, <2>2, NoneAssumption DEF Charged
<1>2. CASE now.over # None BY <1>2, TickedCharged DEF Ended
<1> QED BY <1>1, <1>2

(* Taking the flag down or putting it up is not seen.                        *)
LEMMA BusyCharged ==
    ASSUME NEW g, Sound(g), NEW busy \in BOOLEAN, NEW h
    PROVE  /\ Charged([g EXCEPT !.busy = busy], h) => Charged(g, h)
           /\ Charged(h, g) => Charged(h, [g EXCEPT !.busy = busy])
<1> DEFINE b == [g EXCEPT !.busy = busy]
<1>1. /\ b.clock = g.clock /\ b.lag = g.lag /\ b.tc = g.tc /\ b.slot = g.slot
      /\ b.over = g.over /\ b.moves = g.moves
  BY DEF Sound, GameSet
<1> HIDE DEF b
<1>2. Timed(b) = Timed(g) /\ TimeLeft(b) = TimeLeft(g) BY <1>1 DEF Timed, TimeLeft
<1>3. (Charged(b, h) => Charged(g, h)) /\ (Charged(h, g) => Charged(h, b))
  BY <1>1, <1>2 DEF Charged
<1> QED BY <1>3 DEF b

LEMMA StepCharges == Inv /\ [Next]_vars => Charged(game, game')
<1> SUFFICES ASSUME Inv, [Next]_vars PROVE Charged(game, game') OBVIOUS
<1>1. Sound(game) /\ game \in GameSet BY DEF Inv, Sound
<1>2. CASE UNCHANGED game \/ Uninstall \/ Install \/ \E t \in Threads : RematchRead(t)
  <2>1. game' = game BY <1>2 DEF RematchRead, Uninstall, Install
  <2> QED BY <1>1, <2>1, SameCharged
<1>3. CASE Elapse
  <2>1. /\ game'.lag = game.lag + 1 /\ game'.clock = game.clock /\ game'.moves = game.moves
    BY <1>1, <1>3 DEF Elapse, GameSet
  <2> SUFFICES ASSUME Timed(game)
               PROVE  TimeLeft(game') = TimeLeft(game)
                          + game.tc.incr * (Len(game'.moves) - Len(game.moves))
                          - (IF game'.lag > game.lag THEN 1 ELSE 0)
    BY DEF Charged
  <2>2. /\ TimeLeft(game) \in Int /\ game.lag \in Nat /\ game.tc.incr \in Nat
        /\ Len(game.moves) \in Nat /\ \A c \in Colors : game.clock[c] \in Nat
    BY <1>1, TimeTypes
  <2>3. Len(game'.moves) - Len(game.moves) = 0 /\ game.tc.incr * 0 = 0 BY <2>1, <2>2
  <2>4. TimeLeft(game') = TimeLeft(game) - 1
    <3>1. game.clock["white"] \in Nat /\ game.clock["black"] \in Nat BY <2>2 DEF Colors
    <3>2. TimeLeft(game') = game.clock["white"] + game.clock["black"] - (game.lag + 1)
      BY <2>1 DEF TimeLeft
    <3> QED BY <3>1, <3>2, <2>2 DEF TimeLeft
  <2> QED BY <2>1, <2>2, <2>3, <2>4
<1>4. CASE Look \/ Poll BY <1>1, <1>4, TickedCharged DEF Look, Poll
<1>5. CASE Move BY <1>1, <1>5, MovedCharged DEF Move
<1>6. CASE Resign
  <2>1. PICK c \in Colors : game' = Ended(game, End("resign", Opp(c))) BY <1>6 DEF Resign
  <2>2. End("resign", Opp(c)) \in Ends BY DEF End, Ends, Opp, Colors
  <2> QED BY <1>1, <2>1, <2>2, EndedCharged
<1>7. CASE Draw
  <2>1. End("draw", None) \in Ends BY DEF End, Ends
  <2> QED BY <1>1, <1>7, <2>1, EndedCharged DEF Draw
<1>8. CASE Undo
  <2> DEFINE n == Len(game.history)
  <2>1. game'.moves = game.history[n].moves
    BY <1>1, <1>8 DEF Undo, Undone, GameSet
  <2>2. /\ n \in Nat \ {0} /\ Len(game.moves) = n /\ game.moves \in Seq(AnyMove)
        /\ game.history[n].moves = SubSeq(game.moves, 1, n - 1)
    <3>1. game.history \in Seq(Snap) /\ game.moves \in Seq(AnyMove) /\ game.history # <<>>
      BY <1>1, <1>8 DEF GameSet, Undo
    <3>2. n \in Nat \ {0} BY <3>1
    <3> QED BY <1>1, <3>1, <3>2 DEF Sound, Replays
  <2>3. Len(game'.moves) = n - 1 BY <2>1, <2>2, SubSeqProperties
  <2> QED BY <2>2, <2>3 DEF Charged
<1>9. CASE New \/ \E t \in Threads : RematchReset(t)
  <2>1. \E tc, mode : game' = Reset(game, tc, mode) BY <1>9 DEF New, RematchReset
  <2>2. game'.slot = game.slot + 1 /\ game.slot \in Nat BY <1>1, <2>1 DEF Reset, Fresh, GameSet
  <2> QED BY <2>2 DEF Charged
<1>10. ASSUME NEW t \in Threads, NEW ply, BotAsk(t, ply) \/ BotAskTooLate(t, ply)
       PROVE  Charged(game, game')
  <2>1. game' = Ticked(game) \/ game' = [Ticked(game) EXCEPT !.busy = TRUE]
    BY <1>10 DEF BotAsk, BotAskTooLate
  <2>2. Sound(Ticked(game)) /\ Charged(game, Ticked(game))
    BY <1>1, TickedSound, TickedCharged
  <2>3. Charged(game, [Ticked(game) EXCEPT !.busy = TRUE]) BY <2>2, BusyCharged
  <2> QED BY <2>1, <2>2, <2>3
<1>11. ASSUME NEW t \in Threads, BotReply(t) PROVE Charged(game, game')
  <2> DEFINE free == Free(game)
  <2>1. game' = free \/ game' = Ticked(free) \/ \E m : game' = Moved(free, m)
    BY <1>11 DEF BotReply, ReplyDropped, EngineReply, IllegalReply, FallbackReply
  <2>2. Sound(free) BY <1>1, BusySound DEF Free
  <2>3. free = [game EXCEPT !.busy = FALSE] BY DEF Free
  <2> HIDE DEF free
  <2>4. Charged(free, game') BY <2>1, <2>2, SameCharged, TickedCharged, MovedCharged
  <2> QED BY <1>1, <2>3, <2>4, BusyCharged
<1> QED
  BY <1>2, <1>3, <1>4, <1>5, <1>6, <1>7, <1>8, <1>9, <1>10, <1>11 DEF Next, vars

-------------------------------------------------------------------------------
(* Theorems *)

(* The game record and what the threads keep stay well typed.                *)
THEOREM TypeCorrect == Spec => []TypeOK
<1>1. Inv => TypeOK
  <2> SUFFICES ASSUME Inv PROVE TypeOK OBVIOUS
  <2>1. game \in GameSet BY DEF Inv, Sound
  <2>2. Len(game.moves) \in Nat /\ Len(game.history) \in Nat
    BY <2>1, LenProperties DEF GameSet
  <2>3. \A t \in Threads : thread[t].at \in {"idle", "rematch", "thinking"}
    BY DEF Inv, ThreadSet, Idle
  <2> QED BY <2>1, <2>2, <2>3 DEF GameSet, TypeOK, Inv
<1> QED BY <1>1, Inductive, PTL

(* Whatever was played, taken back, restarted or answered late, the listed    *)
(* moves lead from the start to the board, ply by ply, and every undo would   *)
(* restore the list it was taken with.                                      *)
THEOREM TakebacksReplay == Spec => []HistoryReplays
<1>1. Inv => HistoryReplays BY DEF Inv, Sound, HistoryReplays
<1> QED BY <1>1, Inductive, PTL

(* The result always fits the board and the clocks.                          *)
THEOREM ResultsFit == Spec => []ResultFits
<1>1. Inv => ResultFits BY DEF Inv, Sound, Fits, Alive, ResultFits
<1> QED BY <1>1, Inductive, PTL

(* bot_busy is up only while a search for this very game runs.               *)
THEOREM BusyFlagIsDown == Spec => []BusyMeansSearching
<1>1. Inv => BusyMeansSearching BY DEF Inv
<1> QED BY <1>1, Inductive, PTL

(* However often the tabs poll, and whatever they and the bot do meanwhile, no *)
(* time is lost and none is charged twice.                                  *)
THEOREM ClocksAreExact == Spec => TimeCharged
<1>1. Inv /\ [Next]_vars => [Charged(game, game')]_vars BY StepCharges
<1>2. Spec => [][Charged(game, game')]_vars BY <1>1, Inductive, PTL DEF Spec
<1>3. TimeCharged <=> [][Charged(game, game')]_vars BY DEF TimeCharged, Charged
<1> QED BY <1>2, <1>3
===============================================================================
