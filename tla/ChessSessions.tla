----------------------------- MODULE ChessSessions ----------------------------
(***************************************************************************)
(* The session store of `serve chess` (ChessSessions in serve_chess.rs):   *)
(* every browser gets its own game through a cookie; sessions not seen for *)
(* the idle time are swept, and at the cap the stalest makes room.         *)
(*                                                                         *)
(* A call is one API request of a browser.  Its thread resolves the        *)
(* session under the store's lock, then locks that game; between the two,  *)
(* and until its answer arrives, other calls go on.  A session's id stands *)
(* for its game too.  A game counts the moves made in it.                  *)
(***************************************************************************)
EXTENDS Naturals, FiniteSets, Functions

CONSTANTS Browsers,
          Calls, Owner(_),  \* call slots of the browsers, several per browser
          Cap,              \* SESSION_CAP
          TTL,              \* SESSION_TTL
          None,
          MaxIds,           \* bound: sessions minted
          MaxPlies,         \* bound: moves made in a game
          MaxLost           \* bound: answers lost

ASSUME OwnerAssumption == \A c \in Calls : Owner(c) \in Browsers
ASSUME LimitAssumption == /\ Cap \in Nat \ {0} /\ TTL \in Nat \ {0}
                          /\ MaxIds \in Nat /\ MaxPlies \in Nat /\ MaxLost \in Nat
ASSUME NoneAssumption  == None \notin Nat

VARIABLES live,     \* live[id]: time since the session was last seen
          minted,   \* minted[id]: the browser session id was made for (history)
          plies,    \* plies[id]: moves made in its game
          call,     \* call[c]: the request in slot c
          cookie,   \* cookie[b]: the session id browser b sends
          lost
vars == <<live, minted, plies, call, cookie, lost>>

Ids == 1..MaxIds
Idle == [at |-> "idle"]

Init == /\ live = <<>> /\ minted = <<>> /\ plies = <<>>
        /\ call = [c \in Calls |-> Idle]
        /\ cookie = [b \in Browsers |-> None]
        /\ lost = 0

Go(c, r) == call' = [call EXCEPT ![c] = r]

(* fetch: the cookie goes out with the request.  The page shows a game, and  *)
(* lets the user move, only after a first answer.                          *)
Send(c) ==
    /\ call[c].at = "idle"
    /\ \E kind \in {"look", "move"} :
           /\ kind = "move" => cookie[Owner(c)] # None
           /\ Go(c, [at |-> "sent", kind |-> kind, sends |-> cookie[Owner(c)]])
    /\ UNCHANGED <<live, minted, plies, cookie, lost>>

-------------------------------------------------------------------------------
(* session_for, under the lock of the store                                *)

Known(id)  == id \in DOMAIN live /\ live[id] < TTL
Fresh      == {id \in DOMAIN live : live[id] < TTL}
Stalest(s) == {id \in s : \A other \in s : live[other] <= live[id]}
NewIdReused == Cardinality(DOMAIN live) + 1
NewId      == Cardinality(DOMAIN minted) + 1

Resolve(c) ==
    /\ call[c].at = "sent"
    /\ Known(call[c].sends)
    /\ live' = [live EXCEPT ![call[c].sends] = 0]
    /\ Go(c, [at |-> "resolved", kind |-> call[c].kind,
              game |-> call[c].sends, fresh |-> FALSE])
    /\ UNCHANGED <<minted, plies, cookie, lost>>

(* The sessions that remain when a new one is made: the idle ones go, and    *)
(* at the cap one of the stalest.                                          *)
RemainingOverCap == IF Cardinality(Fresh) > Cap
    THEN {Fresh \ {victim} : victim \in Stalest(Fresh)} ELSE {Fresh}
RemainingAnyVictim == IF Cardinality(Fresh) >= Cap
    THEN {Fresh \ {victim} : victim \in Fresh} ELSE {Fresh}
Remaining == IF Cardinality(Fresh) >= Cap
             THEN {Fresh \ {victim} : victim \in Stalest(Fresh)} ELSE {Fresh}
Mint(c) ==
    /\ call[c].at = "sent"
    /\ ~Known(call[c].sends)
    /\ NewId \in Ids
    /\ \E rest \in Remaining :
           live' = [id \in rest \cup {NewId} |-> IF id \in rest THEN live[id] ELSE 0]
    /\ minted' = [id \in DOMAIN minted \cup {NewId} |->
                     IF id = NewId THEN Owner(c) ELSE minted[id]]
    /\ plies' = [id \in DOMAIN minted \cup {NewId} |->
                     IF id = NewId THEN 0 ELSE plies[id]]
    /\ Go(c, [at |-> "resolved", kind |-> call[c].kind,
              game |-> NewId, fresh |-> TRUE])
    /\ UNCHANGED <<cookie, lost>>

-------------------------------------------------------------------------------
(* route_chess_api on the game, and the answer                             *)

Act(c) ==
    /\ call[c].at = "resolved"
    /\ call[c].kind = "move" => plies[call[c].game] < MaxPlies
    /\ plies' = IF call[c].kind = "move"
                THEN [plies EXCEPT ![call[c].game] = @ + 1] ELSE plies
    /\ Go(c, [call[c] EXCEPT !.at = "answered"])
    /\ UNCHANGED <<live, minted, cookie, lost>>

(* Set-Cookie comes with the answer that made the session.                  *)
Arrive(c) ==
    /\ call[c].at = "answered"
    /\ cookie' = IF call[c].fresh THEN [cookie EXCEPT ![Owner(c)] = call[c].game]
                 ELSE cookie
    /\ Go(c, Idle)
    /\ UNCHANGED <<live, minted, plies, lost>>
(* The page aborted the request, or the connection broke.                   *)
Lost(c) == /\ lost < MaxLost /\ lost' = lost + 1
           /\ call[c].at \in {"resolved", "answered"}
           /\ Go(c, Idle)
           /\ UNCHANGED <<live, minted, plies, cookie>>

Age == /\ live' = [id \in DOMAIN live |-> IF live[id] < TTL THEN live[id] + 1 ELSE TTL]
       /\ live' # live
       /\ UNCHANGED <<minted, plies, call, cookie, lost>>

Next == \/ \E c \in Calls : \/ Send(c) \/ Resolve(c) \/ Mint(c) \/ Act(c)
                            \/ Arrive(c) \/ Lost(c)
        \/ Age
Spec == Init /\ [][Next]_vars

-------------------------------------------------------------------------------
(* Properties *)

Minted == DOMAIN minted
TypeOK ==
    /\ Minted = 1..Cardinality(Minted) /\ Minted \subseteq Ids
    /\ minted \in [Minted -> Browsers]
    /\ DOMAIN live \subseteq Minted /\ live \in [DOMAIN live -> 0..TTL]
    /\ plies \in [Minted -> 0..MaxPlies]
    /\ cookie \in [Browsers -> Ids \cup {None}]
    /\ \A c \in Calls : call[c].at \in {"idle", "sent", "resolved", "answered"}

(* "every browser gets its own isolated game": a browser never holds, sends  *)
(* or acts on a session made for another, even when its own was swept.       *)
OwnGame ==
    /\ \A b \in Browsers : cookie[b] # None =>
           cookie[b] \in Minted /\ minted[cookie[b]] = b
    /\ \A c \in Calls : call[c].at \in {"resolved", "answered"} =>
           call[c].game \in Minted /\ minted[call[c].game] = Owner(c)

(* "Hard cap": the store never holds more sessions than SESSION_CAP.        *)
CapHeld == Cardinality(DOMAIN live) <= Cap

(* A session that is not idle leaves the store only at the cap, for a new    *)
(* one, and only if none that stays has been idle longer.                   *)
EvictsStalest ==
    [][ \A id \in DOMAIN live \ DOMAIN live' :
            \/ live[id] >= TTL
            \/ /\ Cardinality(Fresh) >= Cap
               /\ \A other \in DOMAIN live \cap DOMAIN live' : live[other] <= live[id] ]_vars

(* "every browser gets its own isolated game via a `ntc_chess` cookie": with  *)
(* no call under way, a live game a browser moved in is the one it sees.     *)
MovesKept ==
    \A id \in DOMAIN live :
        (/\ \A c \in Calls : Owner(c) = minted[id] => call[c].at = "idle"
         /\ plies[id] > 0 /\ cookie[minted[id]] # None)
            => cookie[minted[id]] = id
===============================================================================
