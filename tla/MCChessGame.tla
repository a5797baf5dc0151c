------------------------------ MODULE MCChessGame -----------------------------
EXTENDS ChessGame

(* A small game: positions are the moves that led to them.  The first move   *)
(* is "a" or "b", and only the same move may follow: "b" mates, "a" leaves no *)
(* moves.  The reply to one first move is illegal after the other.          *)
CONSTANT Plies

MCPositions     == UNION {[1..n -> {"a", "b"}] : n \in 0..Plies}
MCStart         == <<>>
MCAfter(p, m)   == Append(p, m)
MCToMove(p)     == IF Len(p) % 2 = 0 THEN "white" ELSE "black"
MCVerdict(p)    == IF p = <<"b", "b">> THEN "checkmate"
                   ELSE IF Len(p) = Plies THEN "stalemate" ELSE "ongoing"
MCLegal(p)      == IF MCVerdict(p) # "ongoing" THEN {}
                   ELSE IF p = <<>> THEN {"a", "b"} ELSE {p[1]}
MCBareKing(p, c) == c = "black" /\ p = <<"a">>

Both      == {[base |-> 2, incr |-> 1], [base |-> Untimed, incr |-> 0]}

(* No look past an illegal reply of the engine: it leaves a game as others   *)
(* do, and BotAnswers says nothing from then on.                            *)
InBounds  == bot.sound
===============================================================================
