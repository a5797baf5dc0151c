------------------------------ MODULE ChessScreen -----------------------------
(***************************************************************************)
(* The game screen of `serve chess` (GameScreen.tsx) against the server:   *)
(* tabs of one browser show one game, each polls it every second, and the  *)
(* user's actions are posts whose answers replace what the tab shows.      *)
(* Polls and posts run at the same time, are served by different threads   *)
(* and are answered in any order.                                          *)
(*                                                                         *)
(* Of the game, only what isStalePoll looks at is kept: the number of      *)
(* moves and whether it is over, and a revision that tells states apart.   *)
(***************************************************************************)
EXTENDS Naturals

CONSTANTS Tabs,
          Ops,       \* what users do: a subset of AllOps
          MaxRev     \* bound: changes of the game

AllOps == {"move", "resign", "draw", "undo", "new"}
ASSUME OpsAssumption == Ops \subseteq AllOps
ASSUME RevAssumption == MaxRev \in Nat

VARIABLES server,   \* the game behind the session: moves, over, revision
          view,     \* view[t]: the state the tab shows
          poll,     \* poll[t]: the newest poll not aborted
          post,     \* post[t]: the user's action under way
          quiet     \* quiet[t]: the window after new in which no poll is sent
screenVars == <<server, view, poll, post, quiet>>

State == [moves : 0..MaxRev, over : BOOLEAN, rev : 0..MaxRev]
NewGame == [moves |-> 0, over |-> FALSE, rev |-> 0]

(* A request: none, sent, or served with the answer on its way back.  A post  *)
(* also keeps its op and what the tab showed when the user acted.          *)
NoRequest == [at |-> "none"]
Sent == [at |-> "sent"]
Polls == {NoRequest, Sent} \cup [at : {"served"}, state : State]
Posts == {NoRequest} \cup [at : {"sent"}, op : Ops, shown : State]
                \cup [at : {"served"}, op : Ops, state : State]

ScreenInit == /\ server = NewGame
              /\ view = [t \in Tabs |-> NewGame]
              /\ poll = [t \in Tabs |-> NoRequest] /\ post = [t \in Tabs |-> NoRequest]
              /\ quiet = [t \in Tabs |-> FALSE]

-------------------------------------------------------------------------------
(* Polls: refresh                                                          *)

(* A poll response is stale when it rewinds the move count or un-terminates  *)
(* a finished game.                                                        *)
IsStalePollNever(cur, incoming) == FALSE
IsStalePollSameToo(cur, incoming) ==
    \/ incoming.moves <= cur.moves
    \/ cur.over /\ ~incoming.over
IsStalePoll(cur, incoming) ==
    \/ incoming.moves < cur.moves
    \/ incoming.moves = cur.moves /\ cur.over /\ ~incoming.over

(* The interval fires: a poll still in flight is aborted.                   *)
SendPoll(t) == /\ ~quiet[t]
               /\ poll' = [poll EXCEPT ![t] = Sent]
               /\ UNCHANGED <<server, view, post, quiet>>
ServePoll(t) ==
    /\ poll[t].at = "sent"
    /\ poll' = [poll EXCEPT ![t] = [at |-> "served", state |-> server]]
    /\ UNCHANGED <<server, view, post, quiet>>
ArrivePoll(t) ==
    /\ poll[t].at = "served"
    /\ view' = IF IsStalePoll(view[t], poll[t].state) THEN view
               ELSE [view EXCEPT ![t] = poll[t].state]
    /\ poll' = [poll EXCEPT ![t] = NoRequest]
    /\ UNCHANGED <<server, post, quiet>>
LosePoll(t) == /\ poll[t].at # "none"
               /\ poll' = [poll EXCEPT ![t] = NoRequest]
               /\ UNCHANGED <<server, view, post, quiet>>

-------------------------------------------------------------------------------
(* Posts: doMove, resign, draw, newGame and rematch abort the poll in flight *)
(* (markMutating); doUndoOnce does not.  A user waits for the answer.      *)

Offered(t, op) == CASE op = "undo" -> view[t].moves > 0
                    [] op = "new"  -> TRUE
                    [] OTHER       -> ~view[t].over
UserActs(t, op) ==
    /\ post[t].at = "none"
    /\ Offered(t, op)
    /\ post' = [post EXCEPT ![t] = [at |-> "sent", op |-> op, shown |-> view[t]]]
    /\ poll' = IF op = "undo" THEN poll ELSE [poll EXCEPT ![t] = NoRequest]
    /\ UNCHANGED <<server, view, quiet>>

Changed(op) == [rev |-> server.rev + 1, over |-> op \in {"resign", "draw"},
                moves |-> CASE op = "move" -> server.moves + 1
                            [] op = "undo" -> server.moves - 1
                            [] op = "new"  -> 0
                            [] OTHER       -> server.moves]
Possible(op) == /\ server.rev < MaxRev
                /\ op = "undo" => server.moves > 0
                /\ op \in {"move", "resign", "draw"} => ~server.over
ServePost(t) ==
    /\ post[t].at = "sent"
    /\ Possible(post[t].op)
    /\ server' = Changed(post[t].op)
    /\ post' = [post EXCEPT ![t] = [at |-> "served", op |-> post[t].op, state |-> server']]
    /\ UNCHANGED <<view, poll, quiet>>
(* The game has ended or changed under the user: an error, and no state.  A   *)
(* refused resign puts back what was shown when the user resigned.         *)
RefusePost(t) ==
    /\ post[t].at = "sent"
    /\ \/ ~Possible(post[t].op)
       \/ post[t].op = "move" /\ post[t].shown.rev # server.rev
    /\ view' = IF post[t].op = "resign" THEN [view EXCEPT ![t] = post[t].shown] ELSE view
    /\ post' = [post EXCEPT ![t] = NoRequest]
    /\ UNCHANGED <<server, poll, quiet>>
ArrivePost(t) ==
    /\ post[t].at = "served"
    /\ view' = [view EXCEPT ![t] = post[t].state]
    /\ quiet' = [quiet EXCEPT ![t] = @ \/ post[t].op = "new"]
    /\ post' = [post EXCEPT ![t] = NoRequest]
    /\ UNCHANGED <<server, poll>>
(* The connection breaks before the answer: a notice, and no state.          *)
LosePost(t) == /\ post[t].at # "none"
               /\ post' = [post EXCEPT ![t] = NoRequest]
               /\ UNCHANGED <<server, view, poll, quiet>>
EndQuiet(t) == /\ quiet[t]
               /\ quiet' = [quiet EXCEPT ![t] = FALSE]
               /\ UNCHANGED <<server, view, poll, post>>

(* A flag falls: the server ends the game by itself.                        *)
FlagFall == /\ ~server.over /\ server.moves > 0 /\ server.rev < MaxRev
            /\ server' = Changed("resign")
            /\ UNCHANGED <<view, poll, post, quiet>>

ScreenNext == \/ \E t \in Tabs : \/ SendPoll(t) \/ ServePoll(t) \/ ArrivePoll(t) \/ LosePoll(t)
                                 \/ \E op \in Ops : UserActs(t, op)
                                 \/ ServePost(t) \/ RefusePost(t) \/ ArrivePost(t)
                                 \/ LosePost(t) \/ EndQuiet(t)
              \/ FlagFall

ScreenSpec == ScreenInit /\ [][ScreenNext]_screenVars

(* A visible tab polls every second and not every poll is overtaken by the    *)
(* next; the quiet window is 1.2 s; an action is served and answered.       *)
Fairness == \A t \in Tabs : /\ SF_screenVars(ServePoll(t)) /\ SF_screenVars(ArrivePoll(t))
                            /\ WF_screenVars(SendPoll(t)) /\ WF_screenVars(EndQuiet(t))
                            /\ WF_screenVars(ServePost(t) \/ RefusePost(t))
                            /\ WF_screenVars(ArrivePost(t))
FairSpec == ScreenSpec /\ Fairness

-------------------------------------------------------------------------------
(* Properties *)

(* Requests carry states of the game, and a finished game has a last change. *)
ScreenTypeOK ==
    /\ server \in State /\ view \in [Tabs -> State] /\ quiet \in [Tabs -> BOOLEAN]
    /\ poll \in [Tabs -> Polls] /\ post \in [Tabs -> Posts]

(* The game has only grown: no takeback and no new game so far.             *)
Grown == server.rev = server.moves + (IF server.over THEN 1 ELSE 0)
GoesBack(t) == view'[t].rev < view[t].rev /\ post'[t] = post[t]

(* "the previous move's ghost can no longer replay before the current one"   *)
(* (CHANGELOG.md): in a game that only grows, however polls and posts cross, *)
(* no poll shows an earlier state than the tab already does.               *)
NoGhost == [][Grown => \A t \in Tabs : ~GoesBack(t)]_screenVars

(* In such a game every tab comes to show the game as it is, again and again, *)
(* though polls are aborted, lost and answered late and actions refused.    *)
InStep == []Grown => \A t \in Tabs : []<>(view[t] = server)

(* Undo and new rewind the game, and other tabs' polls then look stale; but a  *)
(* tab never stays behind the game: for good it can only show more moves    *)
(* than the game has, or the same number and a finished game.              *)
NeverStaysBehind ==
    \A t \in Tabs : []<>(\/ view[t] = server
                         \/ view[t].moves > server.moves
                         \/ view[t].moves = server.moves /\ view[t].over)
(* What a tab may rely on, whether or not the game is rewound.                *)
CatchesUp == InStep /\ NeverStaysBehind

(* "In-flight poll fetch, aborted on every mutation so a stale poll can never *)
(* resolve after our own POST and replay its ghost" (GameScreen.tsx).       *)
NoGhostEver == [][\A t \in Tabs : ~GoesBack(t)]_screenVars
===============================================================================
