------------------------------ MODULE ChessGame -------------------------------
(***************************************************************************)
(* One game of `serve chess` (serve_chess.rs): the record behind its       *)
(* mutex, and the requests that several tabs of one browser, each served   *)
(* by a thread, make of it.  Every request holds the mutex for its whole   *)
(* length except two: bot-move releases it while the engine thinks, and    *)
(* rematch takes it twice.                                                 *)
(*                                                                         *)
(* The rules of chess (chess_engine.rs) are parameters: a position has     *)
(* legal moves, a verdict and a side to move.  A move stands for its SAN   *)
(* record and for the captured piece it puts in a tray.  A clock holds     *)
(* small units of time instead of milliseconds.  The bot may be removed    *)
(* and installed again at any time (module ChessBots says how), and its    *)
(* engine may crash, be late or answer what is no legal move.              *)
(***************************************************************************)
EXTENDS Integers, Sequences

CONSTANTS Threads,       \* request threads
          Positions, StartPos,
          Legal(_),      \* legal moves of a position
          After(_, _),   \* the position a move leads to
          ToMove(_),     \* the side to move
          Verdict(_),    \* chess_engine::evaluate
          BareKing(_, _),\* the side has only its king in this position
          TimeControls,  \* [base, incr]: time controls a request may name
          Untimed,       \* the base of the time control "unlimited"
          None,
          MaxLag,        \* bound: time that passes between two ticks
          MaxGames       \* bound: games started after the first

Colors == {"white", "black"}
Opp(c) == IF c = "white" THEN "black" ELSE "white"
Verdicts == {"ongoing", "checkmate", "stalemate", "draw"}

ASSUME RulesAssumption ==
    /\ StartPos \in Positions /\ Verdict(StartPos) = "ongoing"
    /\ \A p \in Positions :
          /\ ToMove(p) \in Colors /\ Verdict(p) \in Verdicts
          /\ \A c \in Colors : BareKing(p, c) \in BOOLEAN
          /\ \A m \in Legal(p) : /\ After(p, m) \in Positions
                                 /\ ToMove(After(p, m)) = Opp(ToMove(p))
          /\ Verdict(p) = "ongoing" => Legal(p) # {}
ASSUME TimeAssumption ==
    /\ TimeControls # {}
    /\ \A tc \in TimeControls : tc.base = Untimed \/ tc.base \in Nat \ {0}
    /\ \A tc \in TimeControls : tc.incr \in Nat
    /\ Untimed \notin Int
Ends == [why : {"checkmate", "stalemate", "draw", "resign", "timeout", "abandoned"},
         winner : Colors \cup {None}]
ASSUME NoneAssumption  == None \notin Ends
ASSUME BoundAssumption == MaxLag \in Nat /\ MaxGames \in Nat

VARIABLES game,      \* the Game behind the mutex
          thread,    \* thread[t]: what a request keeps while the mutex is free
          page,      \* moves in the game as a page that stays open shows it
          bot        \* [ready, sound]: the bot is installed; its engine has
                     \* answered no illegal move so far
vars == <<game, thread, page, bot>>

-------------------------------------------------------------------------------
(* The operations of Game, on its record *)

End(why, winner) == [why |-> why, winner |-> winner]
Idle == [at |-> "idle"]

(* A clock is Untimed or holds the time left.  slot is the identity of the  *)
(* engine handle, which every new game replaces; lag is the time since      *)
(* last_tick.                                                              *)
Fresh(tc, mode, last, slot) ==
    [pos |-> StartPos, moves |-> <<>>, clock |-> [c \in Colors |-> tc.base],
     tc |-> tc, lag |-> 0, over |-> None, last |-> last, history |-> <<>>,
     mode |-> mode, busy |-> FALSE, slot |-> slot]

Turn(g)    == ToMove(g.pos)
BotTurn(g) == g.mode = Turn(g)
Timed(g)   == g.tc.base # Untimed

Finished(g, end) == [g EXCEPT !.over = end, !.last = end]

(* The time since the last tick is charged to the side to move; a clock     *)
(* that runs out ends the game.  Before the first move, and after the end,  *)
(* no clock runs.                                                          *)
FlagFall(g) == IF BareKing(g.pos, Opp(Turn(g))) THEN End("draw", None)
               ELSE End("timeout", Opp(Turn(g)))
TickedKeepsLag(g) ==
    LET left == g.clock[Turn(g)] - g.lag
    IN  IF g.over # None \/ g.moves = <<>> \/ ~Timed(g) THEN g
        ELSE IF left > 0 THEN [g EXCEPT !.clock[Turn(g)] = left]
        ELSE Finished([g EXCEPT !.clock[Turn(g)] = 0], FlagFall(g))
Ticked(g) ==
    LET left == g.clock[Turn(g)] - g.lag
        now  == [g EXCEPT !.lag = 0]
    IN  IF g.over # None \/ g.moves = <<>> \/ ~Timed(g) THEN now
        ELSE IF left > 0 THEN [now EXCEPT !.clock[Turn(g)] = left]
        ELSE Finished([now EXCEPT !.clock[Turn(g)] = 0], FlagFall(g))

Snapshot(g) == [pos |-> g.pos, moves |-> g.moves, clock |-> g.clock,
                over |-> g.over, last |-> g.last]

(* The move is on the board: its clock has its increment, and the position  *)
(* may end the game.                                                       *)
Concluded(g, mover) ==
    CASE Verdict(g.pos) = "ongoing"   -> g
      [] Verdict(g.pos) = "checkmate" -> Finished(g, End("checkmate", mover))
      [] OTHER                        -> Finished(g, End("draw", None))
Rewarded(g, mover) ==
    IF Timed(g) THEN [g.clock EXCEPT ![mover] = @ + g.tc.incr] ELSE g.clock
Played(g, m) ==
    Concluded([g EXCEPT !.history = Append(@, Snapshot(g)),
                        !.pos = After(@, m), !.moves = Append(@, m),
                        !.clock = Rewarded(g, Turn(g)), !.lag = 0], Turn(g))

(* do_move: tick, then the move if the game is not over and it is legal.    *)
Moved(g, m) == LET now == Ticked(g) IN
    IF now.over = None /\ m \in Legal(now.pos) THEN Played(now, m) ELSE now

(* resign and draw_agree: tick, then the end unless the game is over.       *)
Ended(g, end) == LET now == Ticked(g) IN
    IF now.over = None THEN Finished(now, end) ELSE now

(* reset_with: a live game is forfeited by the side to move.                *)
Reset(g, tc, mode) ==
    LET last == IF g.over = None /\ g.moves # <<>>
                THEN End("abandoned", Opp(Turn(g))) ELSE g.last
    IN  Fresh(tc, mode, last, g.slot + 1)

(* undo: the snapshot of the last move comes back, clocks and verdict with  *)
(* it; no tick.                                                            *)
UndoneKeepsHistory(g) ==
    LET s == g.history[Len(g.history)]
    IN  [g EXCEPT !.pos = s.pos, !.moves = s.moves, !.clock = s.clock,
                  !.over = s.over, !.last = s.last, !.lag = 0]
UndoneKeepsClocks(g) ==
    LET n == Len(g.history)
        s == g.history[n]
    IN  [g EXCEPT !.pos = s.pos, !.moves = s.moves, !.over = s.over,
                  !.last = s.last, !.lag = 0, !.history = SubSeq(@, 1, n - 1)]
Undone(g) ==
    LET n == Len(g.history)
        s == g.history[n]
    IN  [g EXCEPT !.pos = s.pos, !.moves = s.moves, !.clock = s.clock,
                  !.over = s.over, !.last = s.last, !.lag = 0,
                  !.history = SubSeq(@, 1, n - 1)]

-------------------------------------------------------------------------------
(* Time, and the requests under one lock *)

Init == /\ \E tc \in TimeControls : game = Fresh(tc, "human", None, 0)
        /\ thread = [t \in Threads |-> Idle]
        /\ page = 0
        /\ bot = [ready |-> TRUE, sound |-> TRUE]

(* An action's answer is shown by the page if the page asked for it.        *)
Shown == page' \in {page, Len(game'.moves)}
OneLock == Shown /\ UNCHANGED <<thread, bot>>

Elapse == /\ game.lag < MaxLag
          /\ game' = [game EXCEPT !.lag = @ + 1]
          /\ UNCHANGED <<thread, page, bot>>

(* state, moves and every answer that carries the state: asked by other tabs, *)
(* or by the page, which drops a poll that shows fewer moves than it does.  *)
Look == game' = Ticked(game) /\ UNCHANGED <<thread, page, bot>>
Poll == /\ game' = Ticked(game)
        /\ page' = IF Len(game.moves) < page THEN page ELSE Len(game.moves)
        /\ UNCHANGED <<thread, bot>>

Move == /\ ~BotTurn(game)
        /\ \E p \in Positions : \E m \in Legal(p) : game' = Moved(game, m)
        /\ OneLock

Resign == /\ \E c \in Colors : game' = Ended(game, End("resign", Opp(c)))
          /\ OneLock

Draw == game' = Ended(game, End("draw", None)) /\ OneLock

(* The handler answers with state_json, which ticks the clocks just reset.  *)
Undo == /\ game.moves # <<>> /\ game.history # <<>>
        /\ game' = Undone(game)
        /\ OneLock

(* new: a mode the request names, or the game's own.  A bot has to be        *)
(* installed when the request looks; it may be gone when it has the mutex.  *)
New == /\ game.slot < MaxGames
       /\ \E tc \in TimeControls, mode \in Colors \cup {"human"} :
              game' = Reset(game, tc, mode)
       /\ OneLock

(* The bot is removed, or installed again.                                 *)
Uninstall == bot.ready /\ bot' = [bot EXCEPT !.ready = FALSE]
                       /\ UNCHANGED <<game, thread, page>>
Install == ~bot.ready /\ bot' = [bot EXCEPT !.ready = TRUE]
                      /\ UNCHANGED <<game, thread, page>>

-------------------------------------------------------------------------------
(* rematch: the time control is read under one lock and used under another  *)

RematchRead(t) ==
    /\ thread[t].at = "idle"
    /\ game.slot < MaxGames
    /\ thread' = [thread EXCEPT ![t] = [at |-> "rematch", tc |-> game.tc]]
    /\ UNCHANGED <<game, page, bot>>
RematchReset(t) ==
    /\ thread[t].at = "rematch"
    /\ game' = Reset(game, thread[t].tc, game.mode)
    /\ thread' = [thread EXCEPT ![t] = Idle]
    /\ Shown
    /\ UNCHANGED bot

-------------------------------------------------------------------------------
(* bot-move: the search runs with the game unlocked                        *)

(* The request names the number of moves its tab shows: another one is       *)
(* stale_ply.  Every refusal (not a bot game, over, bot_busy, not its turn, *)
(* bot_not_installed) leaves the game alone, but for a tick if it is over.  *)
MayAsk(t, ply) == /\ thread[t].at = "idle"
                  /\ ply = Len(game.moves)
                  /\ BotTurn(game) /\ game.over = None /\ ~game.busy
                  /\ bot.ready

(* The bot's flag has already fallen: no search, and busy is taken back.    *)
BotAskTooLateStaysBusy(t, ply) ==
    /\ MayAsk(t, ply)
    /\ Ticked(game).over # None
    /\ game' = [Ticked(game) EXCEPT !.busy = TRUE]
    /\ OneLock
BotAskTooLate(t, ply) ==
    /\ MayAsk(t, ply)
    /\ Ticked(game).over # None
    /\ game' = Ticked(game)
    /\ OneLock
BotAsk(t, ply) ==
    /\ MayAsk(t, ply)
    /\ Ticked(game).over = None
    /\ game' = [Ticked(game) EXCEPT !.busy = TRUE]
    /\ thread' = [thread EXCEPT ![t] =
           [at |-> "thinking", asked |-> game.pos,
            expected |-> Len(game.moves), slot |-> game.slot]]
    /\ UNCHANGED <<page, bot>>

Free(g) == [g EXCEPT !.busy = FALSE]
Expected(t) == Len(game.moves) = thread[t].expected /\ BotTurn(game)
Answer(t) == /\ thread[t].at = "thinking"
             /\ thread' = [thread EXCEPT ![t] = Idle]

(* The game has moved on: the reply is dropped.                            *)
ReplyDropped(t) == /\ Answer(t)
                   /\ ~Expected(t)
                   /\ game' = Ticked(Free(game))
                   /\ Shown
                   /\ UNCHANGED bot
(* The engine answers for the position it was asked about; a move that is   *)
(* not legal any more is refused before the clock is touched.              *)
EngineReply(t) == /\ Answer(t)
                  /\ Expected(t)
                  /\ \E m \in Legal(thread[t].asked) :
                        game' = IF m \in Legal(game.pos) THEN Moved(Free(game), m)
                                ELSE Free(game)
                  /\ Shown
                  /\ UNCHANGED bot
(* It answers what is no legal move: "illegal", and no other move is made.  *)
IllegalReply(t) == /\ Answer(t)
                   /\ Expected(t)
                   /\ game' = Free(game)
                   /\ Shown
                   /\ bot' = [bot EXCEPT !.sound = FALSE]
(* It crashed, timed out or could not be started: any legal move of the     *)
(* position on the board.                                                  *)
FallbackReply(t) ==
    /\ Answer(t)
    /\ Expected(t)
    /\ \/ \E m \in Legal(game.pos) : game' = Moved(Free(game), m)
       \/ Legal(game.pos) = {} /\ game' = Ticked(Free(game))
    /\ Shown
    /\ UNCHANGED bot

BotReply(t) == \/ ReplyDropped(t) \/ EngineReply(t)
               \/ IllegalReply(t) \/ FallbackReply(t)

(* A request for the bot's move comes from the page or from another tab.     *)
Next == \/ Elapse \/ Look \/ Poll \/ Move \/ Resign \/ Draw \/ Undo \/ New
        \/ Uninstall \/ Install
        \/ \E t \in Threads :
              \/ RematchRead(t) \/ RematchReset(t) \/ BotReply(t)
              \/ \E ply \in {page, Len(game.moves)} : BotAsk(t, ply) \/ BotAskTooLate(t, ply)

Spec == Init /\ [][Next]_vars

(* A page that stays open and shows the live board polls every second, and   *)
(* each poll it keeps makes it ask again if the last ask was refused         *)
(* (GameScreen.tsx); a search ends: reads from the engine have deadlines.    *)
(* Nothing makes the bot come back, or the engine answer legal moves.        *)
FairSpec == /\ Spec
            /\ WF_vars(Poll)
            /\ WF_vars(\E t \in Threads : BotAsk(t, page) \/ BotAskTooLate(t, page))
            /\ \A t \in Threads : WF_vars(BotReply(t))
            /\ \A t \in Threads : WF_vars(RematchReset(t))

-------------------------------------------------------------------------------
(* Properties *)

Thinking(t) == thread[t].at = "thinking"
Clock == [Colors -> Nat \cup {Untimed}]
TypeOK ==
    /\ game.pos \in Positions /\ game.tc \in TimeControls /\ game.clock \in Clock
    /\ game.over \in Ends \cup {None} /\ game.last \in Ends \cup {None}
    /\ game.mode \in Colors \cup {"human"} /\ game.busy \in BOOLEAN
    /\ game.lag \in 0..MaxLag /\ game.slot \in Nat
    /\ Len(game.moves) \in Nat /\ Len(game.history) \in Nat
    /\ \A t \in Threads : thread[t].at \in {"idle", "rematch", "thinking"}
    /\ page \in Nat /\ bot \in [ready : BOOLEAN, sound : BOOLEAN]

(* "history.len() == moves.len(), and history[K] is the snapshot taken       *)
(* before move K+1" (position_json): the position shown for ply k follows    *)
(* from the one for ply k-1 by the k-th listed move, from the start to the   *)
(* board, and an undo would restore the list it was taken with.             *)
PositionAt(g, k) == IF k = Len(g.moves) THEN g.pos ELSE g.history[k + 1].pos
Replays(g) ==
    /\ Len(g.history) = Len(g.moves)
    /\ PositionAt(g, 0) = StartPos
    /\ \A k \in 1..Len(g.moves) :
          /\ g.moves[k] \in Legal(PositionAt(g, k - 1))
          /\ PositionAt(g, k) = After(PositionAt(g, k - 1), g.moves[k])
          /\ g.history[k].moves = SubSeq(g.moves, 1, k - 1)
HistoryReplays == Replays(game)

(* The result fits the board and the clocks, also after takebacks of         *)
(* finished games: a live game can go on and has time on both clocks, a lost *)
(* one was lost by the side to move, and last_result reports it.            *)
ResultFits ==
    IF game.over = None
    THEN /\ Verdict(game.pos) = "ongoing"
         /\ Timed(game) => \A c \in Colors : game.clock[c] > 0
    ELSE /\ game.last = game.over
         /\ game.over.why = "timeout" => game.clock[Turn(game)] = 0
         /\ game.over.why \in {"timeout", "checkmate"} =>
                game.over.winner = Opp(Turn(game))
         /\ game.over.why = "checkmate" <=> Verdict(game.pos) = "checkmate"

(* bot_busy never stays behind: it is up only while a search for this game   *)
(* runs, which will take it down (a lost flag would refuse every bot-move).  *)
BusyMeansSearching ==
    game.busy => \E t \in Threads : Thinking(t) /\ thread[t].slot = game.slot

(* Time is charged once, however often tabs poll: but for takebacks, the     *)
(* clocks less the time not charged yet change only by time passing and by   *)
(* the increment of a move.                                                 *)
TimeLeft(g) == g.clock["white"] + g.clock["black"] - g.lag
TimeCharged ==
    [][ (/\ Timed(game) /\ game.slot = game'.slot
         /\ game.over = None /\ game'.over = None
         /\ game.moves # <<>> /\ Len(game'.moves) >= Len(game.moves)) =>
        TimeLeft(game') = TimeLeft(game)
             + game.tc.incr * (Len(game'.moves) - Len(game.moves))
             - (IF game'.lag > game.lag THEN 1 ELSE 0) ]_vars

(* "a crashed or timed-out engine plays a legal fallback move instead of     *)
(* stalling the game" (CHANGELOG.md): the bot's turn ends by its move, by    *)
(* the end of the game or by a takeback, whatever other tabs do meanwhile,   *)
(* as long as the bot is installed, its engine answers no illegal move and   *)
(* the page has not been left ahead of the game, by a takeback or a new game *)
(* in another tab: its polls look stale to it and its asks to the server.    *)
CanAnswer  == bot.ready /\ bot.sound /\ page <= Len(game.moves)

(* "The server guards expected ply and in-flight searches, so a duplicate    *)
(* call is harmless" (GameScreen.tsx): no two searches for one game.        *)
OneSearch ==
    \A t, u \in Threads : Thinking(t) /\ Thinking(u)
                          /\ thread[t].slot = game.slot
                          /\ thread[u].slot = game.slot => t = u
===============================================================================
