---------------------------- MODULE ServeChessProofs ----------------------------
(***************************************************************************)
(* Theorems about the parts of `serve chess` around a game: the session    *)
(* store, the bot manager and the browser's game screen,                   *)
(* for every set of browsers, requests, install threads and tabs.          *)
(***************************************************************************)
EXTENDS ChessSessions, ChessBots, ChessScreen, FiniteSetTheorems, TLAPS

-------------------------------------------------------------------------------
(* The session store: type correctness, isolation of the browsers' games,    *)
(* the session cap and the order of eviction.                              *)

(* What a call carries: a session id a browser sends is one made for it, and  *)
(* so is the game a call resolved.                                         *)
CallOK(c) ==
    \/ call[c] = Idle
    \/ /\ call[c] \in [at : {"sent"}, kind : {"look", "move"}, sends : Ids \cup {None}]
       /\ call[c].sends # None =>
              call[c].sends \in Minted /\ minted[call[c].sends] = Owner(c)
    \/ /\ call[c] \in [at : {"resolved", "answered"}, kind : {"look", "move"},
                       game : Ids, fresh : BOOLEAN]
       /\ call[c].game \in Minted /\ minted[call[c].game] = Owner(c)
CookieOK(b) == cookie[b] # None => cookie[b] \in Minted /\ minted[cookie[b]] = b

Store == /\ Minted = 1..Cardinality(Minted) /\ Minted \subseteq Ids
         /\ minted \in [Minted -> Browsers]
         /\ DOMAIN live \subseteq Minted /\ live \in [DOMAIN live -> 0..TTL]
         /\ plies \in [Minted -> 0..MaxPlies]
Slots == /\ DOMAIN call = Calls
         /\ cookie \in [Browsers -> Ids \cup {None}]
Inv == Store /\ Slots /\ (\A c \in Calls : CallOK(c)) /\ (\A b \in Browsers : CookieOK(b))

(* The next id is new, and the ids stay an interval.                        *)
LEMMA NewIdFresh ==
    ASSUME Minted = 1..Cardinality(Minted), Minted \subseteq Ids
    PROVE  /\ IsFiniteSet(Minted)
           /\ NewId \notin Minted
           /\ Minted \cup {NewId} = 1..NewId
           /\ Cardinality(Minted \cup {NewId}) = NewId
           /\ NewId \in Nat
<1>1. IsFiniteSet(Minted)
  <2>1. IsFiniteSet(1..MaxIds) BY FS_Interval, LimitAssumption
  <2> QED BY <2>1, FS_Subset DEF Ids
<1>2. Cardinality(Minted) \in Nat BY <1>1, FS_CardinalityType
<1>3. NewId \notin Minted BY <1>2 DEF NewId, Minted
<1>4. Minted \cup {NewId} = 1..NewId BY <1>2 DEF NewId, Minted
<1>5. Cardinality(Minted \cup {NewId}) = NewId BY <1>1, <1>3, FS_AddElement DEF NewId, Minted
<1> QED BY <1>1, <1>2, <1>3, <1>4, <1>5 DEF NewId, Minted

(* Calls and cookies that hold in a step that mints nothing and leaves them. *)
LEMMA OtherCalls ==
    ASSUME \A c \in Calls : CallOK(c), NEW d \in Calls,
           \A id \in Minted : id \in Minted' /\ minted'[id] = minted[id],
           NEW c \in Calls, call'[c] = call[c]
    PROVE  CallOK(c)'
BY DEF CallOK

LEMMA OtherCookies ==
    ASSUME NEW b \in Browsers, CookieOK(b),
           \A id \in Minted : id \in Minted' /\ minted'[id] = minted[id],
           cookie'[b] = cookie[b]
    PROVE  CookieOK(b)'
BY DEF CookieOK

LEMMA InitInv == Init => Inv
<1> SUFFICES ASSUME Init PROVE Inv OBVIOUS
<1>1. Minted = {} /\ Cardinality(Minted) = 0 BY FS_EmptySet DEF Init, Minted
<1>2. Store BY <1>1 DEF Init, Store, Minted
<1>3. Slots BY DEF Init, Slots
<1>4. \A c \in Calls : CallOK(c) BY DEF Init, CallOK
<1>5. \A b \in Browsers : CookieOK(b) BY DEF Init, CookieOK
<1> QED BY <1>2, <1>3, <1>4, <1>5 DEF Inv

Same == minted' = minted /\ \A id \in Minted : id \in Minted' /\ minted'[id] = minted[id]

LEMMA SendInv == ASSUME Inv, NEW c \in Calls, Send(c) PROVE Inv'
<1>1. minted' = minted /\ live' = live /\ plies' = plies /\ cookie' = cookie /\ lost' = lost
  BY DEF Send
<1>2. Store' BY <1>1 DEF Inv, Store, Minted
<1>3. Slots' BY <1>1 DEF Inv, Slots, Send, Go
<1>4. \A d \in Calls : CallOK(d)'
  <2> TAKE d \in Calls
  <2>1. CASE d = c
    <3>1. PICK kind \in {"look", "move"} :
              call'[c] = [at |-> "sent", kind |-> kind, sends |-> cookie[Owner(c)]]
      BY DEF Send, Go, Inv, Slots
    <3>2. Owner(c) \in Browsers BY OwnerAssumption
    <3> QED BY <2>1, <3>1, <3>2, <1>1 DEF CallOK, CookieOK, Inv, Slots, Minted
  <2>2. CASE d # c
    <3>1. call'[d] = call[d] BY <2>2 DEF Send, Go, Inv, Slots
    <3> QED BY <3>1, <1>1, OtherCalls DEF Inv, Minted
  <2> QED BY <2>1, <2>2
<1>5. \A b \in Browsers : CookieOK(b)' BY <1>1 DEF Inv, CookieOK, Minted
<1> QED BY <1>2, <1>3, <1>4, <1>5 DEF Inv

LEMMA ResolveInv == ASSUME Inv, NEW c \in Calls, Resolve(c) PROVE Inv'
<1>1. minted' = minted /\ plies' = plies /\ cookie' = cookie BY DEF Resolve
<1>2. CallOK(c) /\ call[c].at = "sent" BY DEF Inv, Resolve
<1>3. /\ call[c] \in [at : {"sent"}, kind : {"look", "move"}, sends : Ids \cup {None}]
      /\ call[c].sends # None => minted[call[c].sends] = Owner(c)
  BY <1>2 DEF CallOK, Idle
<1>4. call[c].sends \in DOMAIN live BY DEF Resolve, Known
<1>5. call[c].sends \in Minted /\ call[c].sends \in Ids /\ minted[call[c].sends] = Owner(c)
  BY <1>3, <1>4, NoneAssumption, LimitAssumption DEF Inv, Store, Ids
<1>6. Store'
  <2>1. live' = [live EXCEPT ![call[c].sends] = 0] BY DEF Resolve
  <2>2. DOMAIN live' = DOMAIN live BY <2>1
  <2>3. live' \in [DOMAIN live -> 0..TTL]
    <3>1. live \in [DOMAIN live -> 0..TTL] /\ 0 \in 0..TTL
      BY LimitAssumption DEF Inv, Store
    <3> QED BY <2>1, <3>1, <1>4
  <2> QED BY <1>1, <2>2, <2>3 DEF Inv, Store, Minted
<1>7. Slots' BY <1>1 DEF Inv, Slots, Resolve, Go
<1>8. \A d \in Calls : CallOK(d)'
  <2> TAKE d \in Calls
  <2>1. CASE d = c
    <3>1. call'[c] = [at |-> "resolved", kind |-> call[c].kind,
                      game |-> call[c].sends, fresh |-> FALSE]
      BY DEF Resolve, Go, Inv, Slots
    <3> QED BY <2>1, <3>1, <1>1, <1>3, <1>5 DEF CallOK, Minted
  <2>2. CASE d # c
    <3>1. call'[d] = call[d] BY <2>2 DEF Resolve, Go, Inv, Slots
    <3> QED BY <3>1, <1>1, OtherCalls DEF Inv, Minted
  <2> QED BY <2>1, <2>2
<1>9. \A b \in Browsers : CookieOK(b)' BY <1>1 DEF Inv, CookieOK, Minted
<1> QED BY <1>6, <1>7, <1>8, <1>9 DEF Inv

LEMMA MintStore == ASSUME Inv, NEW c \in Calls, Mint(c)
    PROVE  /\ Store'
           /\ Minted' = Minted \cup {NewId} /\ NewId \in Ids /\ NewId \notin Minted
           /\ minted'[NewId] = Owner(c)
           /\ \A id \in Minted : id \in Minted' /\ minted'[id] = minted[id]
<1>1. /\ Minted = 1..Cardinality(Minted) /\ Minted \subseteq Ids
      /\ minted \in [Minted -> Browsers] /\ DOMAIN live \subseteq Minted
      /\ live \in [DOMAIN live -> 0..TTL] /\ plies \in [Minted -> 0..MaxPlies]
  BY DEF Inv, Store
<1>2. /\ NewId \notin Minted /\ Minted \cup {NewId} = 1..NewId
      /\ Cardinality(Minted \cup {NewId}) = NewId
  BY <1>1, NewIdFresh
<1>3. NewId \in Ids BY DEF Mint
<1>4. Owner(c) \in Browsers BY OwnerAssumption
<1>5. minted' = [id \in Minted \cup {NewId} |-> IF id = NewId THEN Owner(c) ELSE minted[id]]
  BY DEF Mint, Minted
<1>6. plies' = [id \in Minted \cup {NewId} |-> IF id = NewId THEN 0 ELSE plies[id]]
  BY DEF Mint, Minted
<1>7. Minted' = Minted \cup {NewId} BY <1>5 DEF Minted
<1>8. minted' \in [Minted' -> Browsers] BY <1>1, <1>4, <1>5, <1>7
<1>9. plies' \in [Minted' -> 0..MaxPlies] BY <1>1, <1>6, <1>7, LimitAssumption
<1>10. DOMAIN live' \subseteq Minted' /\ live' \in [DOMAIN live' -> 0..TTL]
  <2>1. PICK rest \in Remaining :
            live' = [id \in rest \cup {NewId} |-> IF id \in rest THEN live[id] ELSE 0]
    BY DEF Mint
  <2>2. rest \subseteq DOMAIN live BY DEF Remaining, Fresh
  <2>3. \A id \in rest : live[id] \in 0..TTL BY <1>1, <2>2
  <2> QED BY <2>1, <2>2, <2>3, <1>1, <1>7, LimitAssumption
<1>11. (Minted = 1..Cardinality(Minted))' BY <1>2, <1>7
<1>12. Minted' \subseteq Ids BY <1>1, <1>3, <1>7
<1>13. Store' BY <1>8, <1>9, <1>10, <1>11, <1>12 DEF Store
<1>14. minted'[NewId] = Owner(c) BY <1>5
<1>15. \A id \in Minted : id \in Minted' /\ minted'[id] = minted[id] BY <1>2, <1>5, <1>7
<1> QED BY <1>2, <1>3, <1>7, <1>13, <1>14, <1>15

LEMMA MintInv == ASSUME Inv, NEW c \in Calls, Mint(c) PROVE Inv'
<1>1. /\ Store' /\ Minted' = Minted \cup {NewId} /\ NewId \in Ids
      /\ minted'[NewId] = Owner(c)
      /\ \A id \in Minted : id \in Minted' /\ minted'[id] = minted[id]
  BY MintStore
<1>2. Slots' BY DEF Inv, Slots, Mint, Go
<1>3. call[c].kind \in {"look", "move"} BY DEF Inv, Mint, CallOK, Idle
<1>4. \A d \in Calls : CallOK(d)'
  <2> TAKE d \in Calls
  <2>1. CASE d = c
    <3>1. call'[c] = [at |-> "resolved", kind |-> call[c].kind, game |-> NewId, fresh |-> TRUE]
      BY DEF Mint, Go, Inv, Slots
    <3> QED BY <2>1, <3>1, <1>1, <1>3 DEF CallOK
  <2>2. CASE d # c
    <3>1. call'[d] = call[d] BY <2>2 DEF Mint, Go, Inv, Slots
    <3> QED BY <3>1, <1>1, OtherCalls DEF Inv
  <2> QED BY <2>1, <2>2
<1>5. \A b \in Browsers : CookieOK(b)'
  <2>1. cookie' = cookie BY DEF Mint
  <2> QED BY <2>1, <1>1, OtherCookies DEF Inv
<1> QED BY <1>1, <1>2, <1>4, <1>5 DEF Inv

LEMMA ActInv == ASSUME Inv, NEW c \in Calls, Act(c) PROVE Inv'
<1>1. minted' = minted /\ live' = live /\ cookie' = cookie BY DEF Act
<1>2. /\ call[c] \in [at : {"resolved", "answered"}, kind : {"look", "move"},
                      game : Ids, fresh : BOOLEAN]
      /\ call[c].game \in Minted /\ minted[call[c].game] = Owner(c)
  BY DEF Inv, Act, CallOK, Idle
<1>3. plies' \in [Minted -> 0..MaxPlies]
  <2>1. plies \in [Minted -> 0..MaxPlies] BY DEF Inv, Store
  <2>2. plies' = plies \/ /\ plies' = [plies EXCEPT ![call[c].game] = @ + 1]
                          /\ plies[call[c].game] < MaxPlies
    BY DEF Act
  <2>3. plies[call[c].game] \in 0..MaxPlies BY <2>1, <1>2
  <2> QED BY <2>1, <2>2, <2>3, LimitAssumption
<1>4. Store' BY <1>1, <1>3 DEF Inv, Store, Minted
<1>5. Slots' BY <1>1 DEF Inv, Slots, Act, Go
<1>6. \A d \in Calls : CallOK(d)'
  <2> TAKE d \in Calls
  <2>1. CASE d = c
    <3>1. call'[c] = [call[c] EXCEPT !.at = "answered"] BY DEF Act, Go, Inv, Slots
    <3> QED BY <2>1, <3>1, <1>1, <1>2 DEF CallOK, Minted
  <2>2. CASE d # c
    <3>1. call'[d] = call[d] BY <2>2 DEF Act, Go, Inv, Slots
    <3> QED BY <3>1, <1>1, OtherCalls DEF Inv, Minted
  <2> QED BY <2>1, <2>2
<1>7. \A b \in Browsers : CookieOK(b)' BY <1>1 DEF Inv, CookieOK, Minted
<1> QED BY <1>4, <1>5, <1>6, <1>7 DEF Inv

LEMMA ArriveInv == ASSUME Inv, NEW c \in Calls, Arrive(c) PROVE Inv'
<1>1. minted' = minted /\ live' = live /\ plies' = plies BY DEF Arrive
<1>2. /\ call[c].game \in Ids /\ call[c].game \in Minted /\ minted[call[c].game] = Owner(c)
  BY DEF Inv, Arrive, CallOK, Idle
<1>3. cookie' = cookie \/ cookie' = [cookie EXCEPT ![Owner(c)] = call[c].game]
  BY DEF Arrive
<1>4. Store' BY <1>1 DEF Inv, Store, Minted
<1>5. Slots'
  <2>1. cookie' \in [Browsers -> Ids \cup {None}] BY <1>2, <1>3 DEF Inv, Slots
  <2> QED BY <2>1 DEF Inv, Slots, Arrive, Go
<1>6. \A d \in Calls : CallOK(d)'
  <2> TAKE d \in Calls
  <2>1. CASE d = c BY <2>1 DEF Arrive, Go, Inv, Slots, CallOK
  <2>2. CASE d # c
    <3>1. call'[d] = call[d] BY <2>2 DEF Arrive, Go, Inv, Slots
    <3> QED BY <3>1, <1>1, OtherCalls DEF Inv, Minted
  <2> QED BY <2>1, <2>2
<1>7. \A b \in Browsers : CookieOK(b)'
  <2> TAKE b \in Browsers
  <2>1. cookie \in [Browsers -> Ids \cup {None}] BY DEF Inv, Slots
  <2>2. CASE cookie'[b] = cookie[b] BY <2>2, <1>1 DEF Inv, CookieOK, Minted
  <2>3. CASE b = Owner(c) /\ cookie'[b] = call[c].game BY <2>3, <1>1, <1>2 DEF CookieOK, Minted
  <2> QED BY <1>3, <2>1, <2>2, <2>3
<1> QED BY <1>4, <1>5, <1>6, <1>7 DEF Inv

LEMMA LostInv == ASSUME Inv, NEW c \in Calls, Lost(c) PROVE Inv'
<1>1. minted' = minted /\ live' = live /\ plies' = plies /\ cookie' = cookie BY DEF Lost
<1>2. Store' BY <1>1 DEF Inv, Store, Minted
<1>3. Slots' BY <1>1 DEF Inv, Slots, Lost, Go
<1>4. \A d \in Calls : CallOK(d)'
  <2> TAKE d \in Calls
  <2>1. CASE d = c BY <2>1 DEF Lost, Go, Inv, Slots, CallOK
  <2>2. CASE d # c
    <3>1. call'[d] = call[d] BY <2>2 DEF Lost, Go, Inv, Slots
    <3> QED BY <3>1, <1>1, OtherCalls DEF Inv, Minted
  <2> QED BY <2>1, <2>2
<1>5. \A b \in Browsers : CookieOK(b)' BY <1>1 DEF Inv, CookieOK, Minted
<1> QED BY <1>2, <1>3, <1>4, <1>5 DEF Inv

LEMMA AgeInv == ASSUME Inv, Age PROVE Inv'
<1>1. minted' = minted /\ plies' = plies /\ cookie' = cookie /\ call' = call BY DEF Age
<1>2. live' = [id \in DOMAIN live |-> IF live[id] < TTL THEN live[id] + 1 ELSE TTL]
  BY DEF Age
<1>3. live \in [DOMAIN live -> 0..TTL] BY DEF Inv, Store
<1>4. DOMAIN live' = DOMAIN live /\ live' \in [DOMAIN live -> 0..TTL]
  BY <1>2, <1>3, LimitAssumption
<1>5. Store' BY <1>1, <1>4 DEF Inv, Store, Minted
<1> QED BY <1>1, <1>5 DEF Inv, Slots, CallOK, CookieOK, Minted

LEMMA StutterInv == ASSUME Inv, UNCHANGED vars PROVE Inv'
BY DEF Inv, Store, Slots, CallOK, CookieOK, Minted, vars

LEMMA NextInv == Inv /\ [Next]_vars => Inv'
BY SendInv, ResolveInv, MintInv, ActInv, ArriveInv, LostInv, AgeInv, StutterInv DEF Next

LEMMA Inductive == Spec => []Inv
BY InitInv, NextInv, PTL DEF Spec

(* The store, the games and the cookies stay well typed.                    *)
THEOREM TypeCorrect == Spec => []TypeOK
<1>1. Inv => TypeOK BY DEF Inv, Store, Slots, TypeOK, CallOK, Idle
<1> QED BY <1>1, Inductive, PTL

(* A browser never holds, sends or acts on a game made for another.          *)
THEOREM Isolation == Spec => []OwnGame
<1>1. Inv => OwnGame BY DEF Inv, OwnGame, CallOK, CookieOK, Idle
<1> QED BY <1>1, Inductive, PTL

-------------------------------------------------------------------------------
(* The cap *)

LEMMA RestBounded ==
    ASSUME Inv, CapHeld, NEW rest \in Remaining
    PROVE  IsFiniteSet(rest) /\ Cardinality(rest) + 1 <= Cap
<1>1. IsFiniteSet(DOMAIN live)
  <2>1. IsFiniteSet(1..MaxIds) BY FS_Interval, LimitAssumption
  <2>2. DOMAIN live \subseteq 1..MaxIds BY DEF Inv, Store, Ids
  <2> QED BY <2>1, <2>2, FS_Subset
<1>2. /\ IsFiniteSet(Fresh) /\ Cardinality(Fresh) <= Cardinality(DOMAIN live)
      /\ Cardinality(Fresh) \in Nat
  <2>1. Fresh \subseteq DOMAIN live BY DEF Fresh
  <2> QED BY <1>1, <2>1, FS_Subset, FS_CardinalityType
<1>3. Cardinality(Fresh) <= Cap
  BY <1>1, <1>2, FS_CardinalityType, LimitAssumption DEF CapHeld
<1>4. CASE Cardinality(Fresh) >= Cap
  <2>1. PICK victim \in Fresh : rest = Fresh \ {victim} BY <1>4 DEF Remaining, Stalest
  <2>2. IsFiniteSet(rest) /\ Cardinality(rest) = Cardinality(Fresh) - 1
    BY <2>1, <1>2, FS_RemoveElement
  <2> QED BY <2>2, <1>2, <1>3, LimitAssumption
<1>5. CASE ~(Cardinality(Fresh) >= Cap)
  BY <1>5, <1>2, LimitAssumption DEF Remaining
<1> QED BY <1>4, <1>5

LEMMA MintCap == ASSUME Inv, CapHeld, NEW c \in Calls, Mint(c) PROVE CapHeld'
<1>1. PICK rest \in Remaining :
          live' = [id \in rest \cup {NewId} |-> IF id \in rest THEN live[id] ELSE 0]
  BY DEF Mint
<1>2. DOMAIN live' = rest \cup {NewId} BY <1>1
<1>3. IsFiniteSet(rest) /\ Cardinality(rest) + 1 <= Cap BY RestBounded
<1>4. Cardinality(rest) \in Nat BY <1>3, FS_CardinalityType
<1>5. NewId \notin rest
  <2>1. rest \subseteq DOMAIN live BY DEF Remaining, Fresh
  <2> QED BY <2>1, MintStore DEF Inv, Store
<1>6. Cardinality(rest \cup {NewId}) = Cardinality(rest) + 1 BY <1>3, <1>5, FS_AddElement
<1> QED BY <1>2, <1>3, <1>6 DEF CapHeld

(* The store never holds more than SESSION_CAP sessions.                     *)
THEOREM CapNeverPassed == Spec => []CapHeld
<1>1. Init => CapHeld
  <2> SUFFICES ASSUME Init PROVE CapHeld OBVIOUS
  <2>1. DOMAIN live = {} BY DEF Init
  <2> QED BY <2>1, FS_EmptySet, LimitAssumption DEF CapHeld
<1>2. Inv /\ CapHeld /\ [Next]_vars => CapHeld'
  <2> SUFFICES ASSUME Inv, CapHeld, [Next]_vars PROVE CapHeld' OBVIOUS
  <2>1. ASSUME NEW c \in Calls, Mint(c) PROVE CapHeld' BY <2>1, MintCap
  <2>2. ASSUME NEW c \in Calls, Resolve(c) PROVE CapHeld'
    <3>1. DOMAIN live' = DOMAIN live BY <2>2 DEF Resolve
    <3> QED BY <3>1 DEF CapHeld
  <2>3. ASSUME Age PROVE CapHeld'
    <3>1. DOMAIN live' = DOMAIN live BY <2>3 DEF Age
    <3> QED BY <3>1 DEF CapHeld
  <2>4. ASSUME live' = live PROVE CapHeld' BY <2>4 DEF CapHeld
  <2> QED BY <2>1, <2>2, <2>3, <2>4 DEF Next, Send, Act, Arrive, Lost, vars
<1> QED BY <1>1, <1>2, Inductive, PTL DEF Spec

(* Only idle sessions leave the store, or at the cap one that no remaining    *)
(* session has outlived.                                                   *)
THEOREM EvictionOrder == Spec => EvictsStalest
<1> DEFINE Leaves(id) == \/ live[id] >= TTL
                         \/ /\ Cardinality(Fresh) >= Cap
                            /\ \A other \in DOMAIN live \cap DOMAIN live' :
                                   live[other] <= live[id]
<1>1. Inv /\ [Next]_vars => [\A id \in DOMAIN live \ DOMAIN live' : Leaves(id)]_vars
  <2> SUFFICES ASSUME Inv, [Next]_vars, NEW id \in DOMAIN live \ DOMAIN live'
               PROVE  Leaves(id)
    OBVIOUS
  <2>1. CASE \E c \in Calls : Mint(c)
    <3>1. PICK c \in Calls : Mint(c) BY <2>1
    <3>2. PICK rest \in Remaining :
              live' = [i \in rest \cup {NewId} |-> IF i \in rest THEN live[i] ELSE 0]
      BY <3>1 DEF Mint
    <3>3. DOMAIN live' = rest \cup {NewId} /\ id \notin rest BY <3>2
    <3>4. NewId \notin DOMAIN live BY <3>1, MintStore DEF Inv, Store
    <3>5. live[id] \in 0..TTL BY DEF Inv, Store
    <3>6. CASE id \notin Fresh BY <3>6, <3>5, LimitAssumption DEF Fresh
    <3>7. CASE id \in Fresh
      <4>1. Cardinality(Fresh) >= Cap BY <3>7, <3>3 DEF Remaining
      <4>2. PICK victim \in Stalest(Fresh) : rest = Fresh \ {victim} BY <4>1 DEF Remaining
      <4>3. id = victim BY <3>3, <3>7, <4>2
      <4>4. \A other \in Fresh : live[other] <= live[id] BY <4>2, <4>3 DEF Stalest
      <4>5. \A other \in DOMAIN live \cap DOMAIN live' : other \in Fresh
        BY <3>3, <3>4, <4>2
      <4> QED BY <4>1, <4>4, <4>5
    <3> QED BY <3>6, <3>7
  <2>2. CASE ~\E c \in Calls : Mint(c)
    <3>1. DOMAIN live' = DOMAIN live
      BY <2>2 DEF Next, Send, Resolve, Act, Arrive, Lost, Age, vars
    <3> QED BY <3>1
  <2> QED BY <2>1, <2>2
<1> QED BY <1>1, Inductive, PTL DEF Spec, EvictsStalest

-------------------------------------------------------------------------------
(* The bot manager.  What makes the phase "installing" trustworthy is that    *)
(* exactly one thread is on its way to end it whenever it is up (Marked):   *)
(* install() refuses a second thread until the first has taken it down, and *)
(* nobody else does.                                                       *)

Phases == {"notInstalled", "installing", "ready", "error"}
Statuses == [phase : Phases, engines : SUBSET Engines, engine : Engines \cup {NoBot}]

Rows == [at : {"idle", "rescan", "remove", "removed", "download", "record", "setReady", "default"}]
        \cup [at : {"apply"}, engines : SUBSET Engines, selected : Engines \cup {NoBot}]
        \cup [at : {"select"}, engine : Engines]
        \cup [at : {"save", "saving"}, man : Manifest, next : {"rescan", "default", "setReady"}]

(* On the way to end the phase "installing".                                *)
Towards(r) == \/ r.at \in {"download", "record", "setReady"}
              \/ r.at \in {"save", "saving"} /\ r.next = "setReady"

BotsTypes == /\ binary \in BOOLEAN /\ packages \subseteq Packages
             /\ file \in Manifest \cup {Torn} /\ status \in Statuses
             /\ thread \in [Threads -> Rows]
             /\ crashes \in 0..MaxCrashes /\ ops \in 0..MaxOps
Installing == {t \in Threads : Towards(thread[t])}
Marked == /\ status.phase = "installing" <=> Installing # {}
          /\ \A t, u \in Installing : t = u
          /\ Installing \subseteq Installers
BotsInv == BotsTypes /\ Marked

LEMMA LoadedType == ASSUME BotsTypes PROVE Loaded \in Manifest
BY DEF BotsTypes, Loaded, Empty, Manifest, Engines

LEMMA DiscoveredType == ASSUME BotsTypes PROVE Discovered \subseteq Engines
BY DEF BotsTypes, Discovered, Engines

(* rescan never puts up the phase "installing" nor takes it down.            *)
LEMMA RescannedType ==
    ASSUME NEW old \in Statuses, NEW engines \in SUBSET Engines, NEW selected,
           NEW new \in Rescanned(old, engines, selected)
    PROVE  new \in Statuses /\ (new.phase = "installing" <=> old.phase = "installing")
<1>1. CASE old.phase = "installing" BY <1>1 DEF Rescanned
<1>2. CASE old.phase # "installing" /\ engines = {}
  <2>1. new = [phase |-> IF old.phase = "error" THEN "error" ELSE "notInstalled",
               engines |-> {}, engine |-> NoBot]
    BY <1>2 DEF Rescanned, NoEngine
  <2> QED BY <1>2, <2>1 DEF Statuses, Phases
<1>3. CASE old.phase # "installing" /\ engines # {}
  <2>1. PICK e \in Choices(engines, selected) :
            new = [phase |-> "ready", engines |-> engines, engine |-> e]
    BY <1>3 DEF Rescanned
  <2>2. e \in Engines BY DEF Choices, Engines
  <2> QED BY <1>3, <2>1, <2>2 DEF Statuses, Phases
<1> QED BY <1>1, <1>2, <1>3

LEMMA NoEngineType == NoEngine \in Statuses /\ NoEngine.phase # "installing"
BY DEF NoEngine, Statuses, Phases

(* A thread that moves to another row with Go leaves the others alone.       *)
LEMMA Gone ==
    ASSUME BotsInv, NEW t \in Threads, NEW r \in Rows, BotsGo(t, r),
           Towards(r) <=> Towards(thread[t]), (status.phase = "installing")' <=> status.phase = "installing"
    PROVE  Marked' /\ thread' \in [Threads -> Rows]
<1>1. thread' \in [Threads -> Rows] /\ thread'[t] = r /\ \A u \in Threads \ {t} : thread'[u] = thread[u]
  BY DEF BotsInv, BotsTypes, BotsGo
<1>2. Installing' = Installing BY <1>1 DEF Installing
<1> QED BY <1>1, <1>2 DEF BotsInv, Marked

(* The one installing thread ends the phase.                               *)
LEMMA Over ==
    ASSUME BotsInv, NEW t \in Threads, NEW r \in Rows, BotsGo(t, r), Towards(thread[t]), ~Towards(r),
           status'.phase # "installing"
    PROVE  Marked' /\ thread' \in [Threads -> Rows]
<1>1. thread' \in [Threads -> Rows] /\ thread'[t] = r /\ \A u \in Threads \ {t} : thread'[u] = thread[u]
  BY DEF BotsInv, BotsTypes, BotsGo
<1>2. Installing' = {} BY <1>1 DEF Installing, BotsInv, Marked
<1> QED BY <1>1, <1>2 DEF Marked

LEMMA Quiet ==
    ASSUME BotsInv, NEW t \in Threads, NEW r \in Rows, ~Towards(r), ~Towards(thread[t]), BotsGo(t, r),
           UNCHANGED status
    PROVE  Marked' /\ thread' \in [Threads -> Rows]
BY Gone

LEMMA BotsInitInv == BotsInit => BotsInv
<1> SUFFICES ASSUME BotsInit PROVE BotsInv OBVIOUS
<1>1. packages \subseteq Engines BY DEF BotsInit, Engines
<1>2. status \in Statuses /\ status.phase # "installing"
  BY <1>1, NoEngineType, RescannedType DEF BotsInit
<1>3. BotsIdle \in Rows /\ ~Towards(BotsIdle) BY DEF BotsIdle, Rows, Towards
<1>4. thread \in [Threads -> Rows] /\ Installing = {} BY <1>3 DEF BotsInit, Installing
<1>5. Empty \in Manifest BY DEF Empty, Manifest
<1>6. crashes \in 0..MaxCrashes /\ ops \in 0..MaxOps BY BotsBoundAssumption DEF BotsInit
<1> QED BY <1>2, <1>4, <1>5, <1>6 DEF BotsInv, BotsTypes, Marked, BotsInit

(* Every request and every step of a thread keeps the invariant.            *)
LEMMA StartInv ==
    ASSUME BotsInv, NEW t \in Threads, NEW r \in Rows, ~Towards(r), Begin(t, r), UNCHANGED <<disk, status>>
    PROVE  BotsInv'
<1>1. ~Towards(thread[t]) /\ BotsGo(t, r) BY DEF Begin, At, Towards
<1>2. Marked' /\ thread' \in [Threads -> Rows] BY <1>1, Quiet
<1>3. ops' \in 0..MaxOps BY BotsBoundAssumption DEF Begin, BotsInv, BotsTypes
<1> QED BY <1>2, <1>3 DEF Begin, BotsInv, BotsTypes, disk

LEMMA RequestInv == ASSUME BotsInv, NEW t \in Requests, Request(t) PROVE BotsInv'
<1>0. t \in Threads BY DEF Threads
<1>1. CASE List(t)
  <2>1. [at |-> "rescan"] \in Rows /\ ~Towards([at |-> "rescan"]) BY DEF Rows, Towards
  <2> QED BY <1>0, <1>1, <2>1, StartInv DEF List
<1>2. CASE Select(t)
  <2>1. PICK e \in status.engines : Begin(t, [at |-> "select", engine |-> e]) /\ UNCHANGED <<disk, status>>
    BY <1>2 DEF Select
  <2>2. [at |-> "select", engine |-> e] \in Rows /\ ~Towards([at |-> "select", engine |-> e])
    BY DEF Rows, Towards, BotsInv, BotsTypes, Statuses
  <2> QED BY <1>0, <2>1, <2>2, StartInv
<1>3. CASE Uninstall(t)
  <2>1. [at |-> "remove"] \in Rows /\ ~Towards([at |-> "remove"]) BY DEF Rows, Towards
  <2> QED BY <1>0, <1>3, <2>1, StartInv DEF Uninstall
<1>4. ASSUME NEW i \in Installers, Install(t, i) PROVE BotsInv'
  <2>0. i \in Threads BY DEF Threads
  <2>1. [at |-> "rescan"] \in Rows /\ ~Towards([at |-> "rescan"])
        /\ [at |-> "download"] \in Rows /\ Towards([at |-> "download"])
    BY DEF Rows, Towards
  <2>2. thread' \in [Threads -> Rows] /\ thread'[i] = [at |-> "download"]
        /\ \A u \in Threads \ {i} : thread'[u] = thread[u] \/ thread'[u] = [at |-> "rescan"]
    BY <1>0, <1>4, <2>0, <2>1 DEF Install, BotsInv, BotsTypes
  <2>3. Installing = {} BY <1>4 DEF Install, BotsInv, Marked
  <2>4. Installing' = {i} BY <2>0, <2>1, <2>2, <2>3 DEF Installing
  <2>5. status' \in Statuses /\ status'.phase = "installing"
    BY <1>4 DEF Install, BotsInv, BotsTypes, Statuses, Phases
  <2>6. Marked' BY <2>4, <2>5 DEF Marked
  <2>7. ops' \in 0..MaxOps BY <1>4, BotsBoundAssumption DEF Install, BotsInv, BotsTypes
  <2> QED BY <1>4, <2>2, <2>5, <2>6, <2>7 DEF Install, BotsInv, BotsTypes, disk
<1> QED BY <1>1, <1>2, <1>3, <1>4 DEF Request

LEMMA ManifestRow ==
    ASSUME NEW man \in Manifest, NEW next \in {"rescan", "setReady"}
    PROVE  Saving(man, next) \in Rows /\ (Towards(Saving(man, next)) <=> next = "setReady")
BY DEF Saving, Rows, Towards

LEMMA ProceedInv == ASSUME BotsInv, NEW t \in Threads, Proceed(t) PROVE BotsInv'
<1> USE DEF BotsInv
<1>0. thread[t] \in Rows BY DEF BotsTypes
<1>1. CASE RescanRead(t)
  <2> DEFINE r == [at |-> "apply", engines |-> Discovered, selected |-> Loaded.selected]
  <2>1. r \in Rows /\ ~Towards(r) BY LoadedType, DiscoveredType DEF Rows, Towards, Manifest
  <2>2. ~Towards(thread[t]) /\ BotsGo(t, r) /\ UNCHANGED status BY <1>1 DEF RescanRead, At, Towards
  <2>3. Marked' /\ thread' \in [Threads -> Rows] BY <2>1, <2>2, Quiet
  <2> QED BY <1>1, <2>3 DEF RescanRead, BotsTypes, disk, bounds
<1>2. CASE RescanApply(t)
  <2>1. thread[t].engines \in SUBSET Engines BY <1>0, <1>2 DEF RescanApply, At, Rows
  <2>2. status' \in Statuses /\ (status'.phase = "installing" <=> status.phase = "installing")
    BY <1>2, <2>1, RescannedType DEF RescanApply, BotsTypes
  <2>3. BotsIdle \in Rows /\ ~Towards(BotsIdle) /\ ~Towards(thread[t]) /\ BotsGo(t, BotsIdle)
    BY <1>2 DEF RescanApply, At, Towards, BotsIdle, Rows
  <2>4. Marked' /\ thread' \in [Threads -> Rows] BY <2>2, <2>3, Gone
  <2> QED BY <1>2, <2>2, <2>4 DEF RescanApply, BotsTypes, disk, bounds
<1>3. CASE SaveBegin(t)
  <2> DEFINE r == [thread[t] EXCEPT !.at = "saving"]
  <2>1. r \in Rows /\ (Towards(r) <=> Towards(thread[t]))
    BY <1>0, <1>3 DEF SaveBegin, At, Rows, Towards
  <2>2. Marked' /\ thread' \in [Threads -> Rows] BY <1>3, <2>1, Gone DEF SaveBegin
  <2> QED BY <1>3, <2>2 DEF SaveBegin, BotsTypes, bounds
<1>4. CASE SaveEnd(t)
  <2> DEFINE r == [at |-> thread[t].next]
  <2>1. r \in Rows /\ (Towards(r) <=> Towards(thread[t])) /\ thread[t].man \in Manifest
    BY <1>0, <1>4 DEF SaveEnd, At, Rows, Towards
  <2>2. Marked' /\ thread' \in [Threads -> Rows] BY <1>4, <2>1, Gone DEF SaveEnd
  <2>3. file' \in Manifest \cup {Torn} BY <1>4, <2>1 DEF SaveEnd
  <2> QED BY <1>4, <2>2, <2>3 DEF SaveEnd, BotsTypes, bounds
<1>5. CASE SelectLoad(t)
  <2> DEFINE man == [Loaded EXCEPT !.selected = thread[t].engine]
  <2>1. man \in Manifest BY <1>0, <1>5, LoadedType DEF SelectLoad, At, Rows, Manifest
  <2>2. ~Towards(thread[t]) /\ BotsGo(t, Saving(man, "rescan")) BY <1>5 DEF SelectLoad, At, Towards
  <2>3. UNCHANGED status BY <1>5 DEF SelectLoad
  <2>4. Saving(man, "rescan") \in Rows /\ ~Towards(Saving(man, "rescan")) BY <2>1, ManifestRow
  <2>5. Marked' /\ thread' \in [Threads -> Rows] BY <2>2, <2>3, <2>4, Quiet
  <2> QED BY <1>5, <2>5 DEF SelectLoad, BotsTypes, disk, bounds
<1>6. CASE RemoveDir(t)
  <2> DEFINE r == [at |-> "removed"]
  <2>1. r \in Rows /\ ~Towards(r) /\ ~Towards(thread[t]) BY <1>6 DEF RemoveDir, At, Rows, Towards
  <2>2. Marked' /\ thread' \in [Threads -> Rows] BY <1>6, <2>1, Quiet DEF RemoveDir
  <2> QED BY <1>6, <2>2 DEF RemoveDir, BotsTypes, bounds
<1>7. CASE RemoveFails(t)
  <2>1. BotsIdle \in Rows /\ ~Towards(BotsIdle) /\ ~Towards(thread[t])
    BY <1>7 DEF RemoveFails, At, Rows, Towards, BotsIdle
  <2>2. Marked' /\ thread' \in [Threads -> Rows] BY <1>7, <2>1, Quiet DEF RemoveFails
  <2> QED BY <1>7, <2>2 DEF RemoveFails, BotsTypes, disk, bounds
<1>8. CASE UninstallLoad(t)
  <2> DEFINE man == [ntc |-> FALSE,
                     selected |-> IF Loaded.selected = "ntc" THEN NoBot ELSE Loaded.selected]
  <2>1. man \in Manifest BY LoadedType DEF Manifest
  <2>2. ~Towards(thread[t]) /\ BotsGo(t, Saving(man, "rescan")) BY <1>8 DEF UninstallLoad, At, Towards
  <2>3. UNCHANGED status BY <1>8 DEF UninstallLoad
  <2>4. Saving(man, "rescan") \in Rows /\ ~Towards(Saving(man, "rescan")) BY <2>1, ManifestRow
  <2>5. Marked' /\ thread' \in [Threads -> Rows] BY <2>2, <2>3, <2>4, Quiet
  <2> QED BY <1>8, <2>5 DEF UninstallLoad, BotsTypes, disk, bounds
<1>9. CASE Place(t)
  <2> DEFINE r == [at |-> "record"]
  <2>1. r \in Rows /\ Towards(r) /\ Towards(thread[t]) BY <1>9 DEF Place, At, Rows, Towards
  <2>2. Marked' /\ thread' \in [Threads -> Rows] BY <1>9, <2>1, Gone DEF Place
  <2> QED BY <1>9, <2>2 DEF Place, BotsTypes, bounds
<1>10. CASE Record(t)
  <2> DEFINE man == [Loaded EXCEPT !.ntc = TRUE]
  <2>1. man \in Manifest BY LoadedType DEF Manifest
  <2>2. Saving(man, "setReady") \in Rows /\ Towards(Saving(man, "setReady")) BY <2>1, ManifestRow
  <2>3. Towards(thread[t]) /\ BotsGo(t, Saving(man, "setReady")) BY <1>10 DEF Record, At, Towards
  <2>4. UNCHANGED status BY <1>10 DEF Record
  <2>5. Marked' /\ thread' \in [Threads -> Rows] BY <2>2, <2>3, <2>4, Gone
  <2> QED BY <1>10, <2>5 DEF Record, BotsTypes, disk, bounds
<1>11. CASE SetReady(t)
  <2> DEFINE r == [at |-> "default"]
  <2>1. r \in Rows /\ ~Towards(r) /\ Towards(thread[t]) BY <1>11 DEF SetReady, At, Rows, Towards
  <2>2. status' \in Statuses /\ status'.phase # "installing"
    BY <1>11 DEF SetReady, BotsTypes, Statuses, Phases
  <2>3. Marked' /\ thread' \in [Threads -> Rows] BY <1>11, <2>1, <2>2, Over DEF SetReady
  <2> QED BY <1>11, <2>2, <2>3 DEF SetReady, BotsTypes, disk, bounds
<1>12. CASE DefaultLoad(t)
  <2> DEFINE man == [Loaded EXCEPT !.selected = "ntc"]
  <2> DEFINE r == IF Loaded.selected = NoBot THEN Saving(man, "rescan") ELSE [at |-> "rescan"]
  <2>1. man \in Manifest BY LoadedType DEF Manifest, Engines
  <2>2. [at |-> "rescan"] \in Rows /\ ~Towards([at |-> "rescan"]) BY DEF Rows, Towards
  <2>3. r \in Rows /\ ~Towards(r) BY <2>1, <2>2, ManifestRow
  <2>4. ~Towards(thread[t]) /\ BotsGo(t, r) /\ UNCHANGED status BY <1>12 DEF DefaultLoad, At, Towards
  <2>5. Marked' /\ thread' \in [Threads -> Rows] BY <2>3, <2>4, Quiet
  <2> QED BY <1>12, <2>5 DEF DefaultLoad, BotsTypes, disk, bounds
<1>13. CASE InstallFails(t)
  <2>1. BotsIdle \in Rows /\ ~Towards(BotsIdle) /\ Towards(thread[t])
    BY <1>13 DEF InstallFails, At, Rows, Towards, BotsIdle
  <2>2. status' \in Statuses /\ status'.phase # "installing"
    BY <1>13 DEF InstallFails, BotsTypes, Statuses, Phases
  <2>3. Marked' /\ thread' \in [Threads -> Rows] BY <1>13, <2>1, <2>2, Over DEF InstallFails
  <2> QED BY <1>13, <2>2, <2>3 DEF InstallFails, BotsTypes, disk, bounds
<1> QED BY <1>1, <1>2, <1>3, <1>4, <1>5, <1>6, <1>7, <1>8, <1>9, <1>10, <1>11, <1>12, <1>13 DEF Proceed

LEMMA RestartInv == ASSUME BotsInv, Restart PROVE BotsInv'
<1>1. status' \in Statuses /\ status'.phase # "installing"
  BY NoEngineType, DiscoveredType, RescannedType DEF Restart, BotsInv
<1>2. BotsIdle \in Rows /\ ~Towards(BotsIdle) BY DEF BotsIdle, Rows, Towards
<1>3. thread' \in [Threads -> Rows] /\ Installing' = {} BY <1>2 DEF Restart, Installing
<1>4. crashes' \in 0..MaxCrashes BY BotsBoundAssumption DEF Restart, BotsInv, BotsTypes
<1> QED BY <1>1, <1>3, <1>4 DEF Restart, BotsInv, BotsTypes, Marked, disk

LEMMA BotsNextInv == BotsInv /\ [BotsNext]_botsVars => BotsInv'
<1> SUFFICES ASSUME BotsInv, [BotsNext]_botsVars PROVE BotsInv' OBVIOUS
<1>1. CASE Ntpkg BY <1>1 DEF Ntpkg, BotsInv, BotsTypes, Marked, Installing, bounds
<1>2. CASE UNCHANGED botsVars BY <1>2 DEF botsVars, BotsInv, BotsTypes, Marked, Installing
<1> QED BY <1>1, <1>2, RequestInv, ProceedInv, RestartInv DEF BotsNext

LEMMA BotsInductive == BotsSpec => []BotsInv
BY BotsInitInv, BotsNextInv, PTL DEF BotsSpec

(* The shared status, bots.json and the bounds keep their types.             *)
THEOREM BotsTypeCorrect == BotsSpec => []BotsTypeOK
<1>1. BotsInv => BotsTypeOK BY DEF BotsInv, BotsTypes, BotsTypeOK, Statuses, Phases
<1> QED BY <1>1, BotsInductive, PTL

(* The phase "installing" is never up without a thread that will end it: the   *)
(* bot can always be installed or removed again.                            *)
THEOREM NeverStuckInstalling == BotsSpec => []BusyMeansInstalling
<1>1. BotsInv => BusyMeansInstalling
  BY DEF BotsInv, Marked, Installing, Towards, BusyMeansInstalling
<1> QED BY <1>1, BotsInductive, PTL

(* A failed install stays visible until a new attempt, an engine or a restart. *)
THEOREM ErrorKept == BotsSpec => ErrorStays
<1> DEFINE Kept == (status.phase = "error" /\ crashes' = crashes) =>
                      \/ status'.phase \in {"error", "installing"}
                      \/ status'.engines # {}
<1>1. BotsInv /\ [BotsNext]_botsVars => [Kept]_botsVars
  <2> SUFFICES ASSUME BotsInv, [BotsNext]_botsVars, status.phase = "error", crashes' = crashes
               PROVE  status'.phase \in {"error", "installing"} \/ status'.engines # {}
    OBVIOUS
  <2>1. ASSUME NEW t \in Threads, RescanApply(t)
        PROVE  status'.phase \in {"error", "installing"} \/ status'.engines # {}
    BY <2>1 DEF RescanApply, Rescanned, NoEngine
  <2>2. ASSUME NEW t \in Threads, SetReady(t) PROVE FALSE
    <3>1. Towards(thread[t]) BY <2>2 DEF SetReady, At, Towards
    <3> QED BY <3>1 DEF BotsInv, Marked, Installing
  <2>3. ASSUME NEW t \in Threads, InstallFails(t) PROVE status'.phase = "error"
    BY <2>3 DEF InstallFails, BotsInv, BotsTypes, Statuses
  <2>4. ASSUME NEW t \in Requests, NEW i \in Installers, Install(t, i)
        PROVE  status'.phase = "installing"
    BY <2>4 DEF Install, BotsInv, BotsTypes, Statuses
  <2>5. CASE Restart
    BY <2>5 DEF Restart, BotsInv, BotsTypes
  <2>6. CASE UNCHANGED status BY <2>6
  <2> QED BY <2>1, <2>2, <2>3, <2>4, <2>5, <2>6
          DEF BotsNext, Request, Proceed, List, Select, Uninstall,
              Begin, Ntpkg, botsVars, RescanRead, SaveBegin,
              SaveEnd, SelectLoad, RemoveDir, RemoveFails, UninstallLoad, Place, Record, DefaultLoad
<1> QED BY <1>1, BotsInductive, PTL DEF BotsSpec, ErrorStays

-------------------------------------------------------------------------------
(* The game screen.  While a game has only grown, its number of moves and its *)
(* end tell how many changes a state has behind it (Onward), and every state *)
(* a request carries or a tab shows is one of that game: isStalePoll, which *)
(* looks at nothing else, then tells earlier states from later ones.       *)

Ended(s) == IF s.over THEN 1 ELSE 0
(* A state of a game that has only grown: the more changes, the further on.  *)
Onward(s) == s.rev = s.moves + Ended(s)
(* Polls and posts carry states of the game.                               *)
Answers == /\ \A t \in Tabs : Onward(view[t])
           /\ \A t \in Tabs : poll[t].at = "served" => Onward(poll[t].state)
           /\ \A t \in Tabs : post[t].at = "served" => Onward(post[t].state)
           /\ \A t \in Tabs : post[t].at = "sent" => Onward(post[t].shown)
ScreenInv == /\ ScreenTypeOK
             /\ server.moves + Ended(server) <= server.rev
             /\ Grown => Answers

LEMMA ScreenInitInv == ScreenInit => ScreenInv
<1> SUFFICES ASSUME ScreenInit PROVE ScreenInv OBVIOUS
<1>1. NewGame \in State /\ Onward(NewGame)
  BY RevAssumption DEF NewGame, State, Onward, Ended
<1>2. ScreenTypeOK BY <1>1 DEF ScreenInit, ScreenTypeOK, Polls, Posts
<1>3. Answers BY <1>1 DEF ScreenInit, Answers, NoRequest
<1>4. server.moves + Ended(server) <= server.rev BY DEF ScreenInit, NewGame, Ended
<1> QED BY <1>2, <1>3, <1>4 DEF ScreenInv

LEMMA SentState ==
    ASSUME ScreenTypeOK, NEW t \in Tabs
    PROVE  /\ server \in State /\ view[t] \in State
           /\ poll[t].at = "served" => poll[t].state \in State
           /\ post[t].at = "served" => post[t].state \in State
           /\ post[t].at = "sent" => post[t].shown \in State /\ post[t].op \in Ops
BY DEF ScreenTypeOK, Polls, Posts, NoRequest, Sent

LEMMA ChangedState ==
    ASSUME ScreenInv, NEW op \in AllOps, Possible(op)
    PROVE  /\ Changed(op) \in State
           /\ LET s == Changed(op) IN
              /\ s.moves + Ended(s) <= s.rev
              /\ Onward(s) => Onward(server)
<1> DEFINE new == Changed(op)
<1>1. /\ server \in State /\ server.moves + Ended(server) <= server.rev
      /\ server.rev < MaxRev /\ MaxRev \in Nat
      /\ op = "undo" => server.moves > 0
      /\ op \in {"move", "resign", "draw"} => ~server.over
  BY RevAssumption DEF ScreenInv, ScreenTypeOK, Possible
<1>2. new.rev = server.rev + 1 /\ new.over \in BOOLEAN /\ new = [moves |-> new.moves, over |-> new.over, rev |-> new.rev]
  BY DEF Changed
<1>3. CASE op = "move"
  <2>1. new.moves = server.moves + 1 /\ ~new.over BY <1>3 DEF Changed
  <2> QED BY <1>1, <1>2, <1>3, <2>1 DEF State, Onward, Ended
<1>4. CASE op = "undo"
  <2>1. new.moves = server.moves - 1 /\ ~new.over BY <1>4 DEF Changed
  <2> QED BY <1>1, <1>2, <1>4, <2>1 DEF State, Onward, Ended
<1>5. CASE op = "new"
  <2>1. new.moves = 0 /\ ~new.over BY <1>5 DEF Changed
  <2> QED BY <1>1, <1>2, <2>1 DEF State, Onward, Ended
<1>6. CASE op \in {"resign", "draw"}
  <2>1. new.moves = server.moves /\ new.over = TRUE BY <1>6 DEF Changed
  <2> QED BY <1>1, <1>2, <1>6, <2>1 DEF State, Onward, Ended
<1> QED BY <1>3, <1>4, <1>5, <1>6 DEF AllOps

LEMMA FlagState ==
    ASSUME ScreenInv, FlagFall
    PROVE  /\ server' \in State
           /\ server'.moves + Ended(server') <= server'.rev
           /\ Onward(server') => Onward(server)
<1>1. server' = [rev |-> server.rev + 1, over |-> TRUE, moves |-> server.moves]
  BY DEF Changed, FlagFall
<1>2. /\ ~server.over /\ server.rev < MaxRev /\ server \in State
      /\ server.moves + Ended(server) <= server.rev /\ MaxRev \in Nat
  BY RevAssumption DEF FlagFall, ScreenInv, ScreenTypeOK
<1> QED BY <1>1, <1>2 DEF State, Onward, Ended

LEMMA GrownIsOnward == Grown <=> Onward(server)
BY DEF Grown, Onward, Ended

LEMMA PollStep ==
    ASSUME ScreenInv, NEW t \in Tabs,
           SendPoll(t) \/ ServePoll(t) \/ ArrivePoll(t) \/ LosePoll(t)
    PROVE  ScreenInv'
<1>1. /\ server' = server /\ post' = post /\ quiet' = quiet
      /\ view' \in [Tabs -> State] /\ poll' \in [Tabs -> Polls]
  BY SentState DEF ScreenInv, ScreenTypeOK, SendPoll, ServePoll, ArrivePoll,
     LosePoll, Polls
<1>2. ScreenTypeOK' BY <1>1 DEF ScreenInv, ScreenTypeOK
<1>3. ASSUME Grown PROVE Answers'
  <2>1. Answers /\ Onward(server) BY <1>3, GrownIsOnward DEF ScreenInv
  <2>2. \A u \in Tabs : Onward(view'[u])
    BY <2>1 DEF Answers, ScreenInv, ScreenTypeOK, SendPoll, ServePoll,
       ArrivePoll, LosePoll
  <2>3. \A u \in Tabs : poll'[u].at = "served" => Onward(poll'[u].state)
    BY <2>1 DEF Answers, ScreenInv, ScreenTypeOK, SendPoll, ServePoll,
       ArrivePoll, LosePoll, Sent, NoRequest
  <2> QED BY <1>1, <2>1, <2>2, <2>3 DEF Answers
<1> QED BY <1>1, <1>2, <1>3 DEF ScreenInv, Grown

LEMMA PostStep ==
    ASSUME ScreenInv, NEW t \in Tabs,
           \/ \E op \in Ops : UserActs(t, op)
           \/ RefusePost(t) \/ ArrivePost(t) \/ LosePost(t) \/ EndQuiet(t)
    PROVE  ScreenInv'
<1>1. server' = server
  BY DEF UserActs, RefusePost, ArrivePost, LosePost, EndQuiet
<1>2. /\ view' \in [Tabs -> State] /\ quiet' \in [Tabs -> BOOLEAN]
      /\ poll' \in [Tabs -> Polls]
  BY SentState DEF ScreenInv, ScreenTypeOK, UserActs, RefusePost, ArrivePost,
     LosePost, EndQuiet, Polls
<1>3. post' \in [Tabs -> Posts]
  <2>1. CASE \E op \in Ops : UserActs(t, op)
    BY <2>1, SentState DEF ScreenInv, ScreenTypeOK, UserActs, Posts
  <2>2. CASE ~\E op \in Ops : UserActs(t, op)
    BY <2>2 DEF ScreenInv, ScreenTypeOK, RefusePost, ArrivePost,
       LosePost, EndQuiet, Posts
  <2> QED BY <2>1, <2>2
<1>4. ASSUME Grown PROVE Answers'
  <2>1. Answers BY <1>4 DEF ScreenInv
  <2>2. \A u \in Tabs : Onward(view'[u])
    BY <2>1 DEF Answers, ScreenInv, ScreenTypeOK, UserActs, RefusePost, ArrivePost,
     LosePost, EndQuiet
  <2>3. \A u \in Tabs : poll'[u] = poll[u] \/ poll'[u] = NoRequest
    BY DEF ScreenInv, ScreenTypeOK, UserActs, RefusePost, ArrivePost,
     LosePost, EndQuiet
  <2>4. \A u \in Tabs : \/ post'[u] = post[u] \/ post'[u] = NoRequest
                        \/ \E op \in Ops : post'[u] = [at |-> "sent", op |-> op, shown |-> view[u]]
    BY DEF ScreenInv, ScreenTypeOK, UserActs, RefusePost, ArrivePost,
     LosePost, EndQuiet
  <2>5. \A u \in Tabs : poll'[u].at = "served" => Onward(poll'[u].state)
    BY <2>1, <2>3 DEF Answers, NoRequest
  <2>6. \A u \in Tabs : /\ post'[u].at = "served" => Onward(post'[u].state)
                        /\ post'[u].at = "sent" => Onward(post'[u].shown)
    <3> TAKE u \in Tabs
    <3>1. CASE post'[u] = post[u] BY <3>1, <2>1 DEF Answers
    <3>2. CASE post'[u] = NoRequest BY <3>2 DEF NoRequest
    <3>3. CASE \E op \in Ops : post'[u] = [at |-> "sent", op |-> op, shown |-> view[u]]
      BY <3>3, <2>1 DEF Answers
    <3> QED BY <3>1, <3>2, <3>3, <2>4
  <2> QED BY <2>2, <2>5, <2>6 DEF Answers
<1> QED BY <1>1, <1>2, <1>3, <1>4 DEF ScreenInv, Grown, ScreenTypeOK

LEMMA ServeStep ==
    ASSUME ScreenInv, NEW t \in Tabs, ServePost(t)
    PROVE  ScreenInv'
<1>0. post[t].op \in Ops /\ post[t].op \in AllOps
  BY SentState, OpsAssumption DEF ScreenInv, ServePost
<1>1. /\ server' \in State /\ server'.moves + Ended(server') <= server'.rev
      /\ Onward(server') => Onward(server)
  BY <1>0, ChangedState DEF ServePost
<1>3. ScreenTypeOK'
  <2>1. post' \in [Tabs -> Posts]
    BY <1>0, <1>1 DEF ScreenInv, ScreenTypeOK, ServePost, Posts
  <2> QED BY <2>1, <1>1 DEF ScreenInv, ScreenTypeOK, ServePost
<1>4. ASSUME Onward(server') PROVE Answers'
  <2>1. Answers BY <1>1, <1>4, GrownIsOnward DEF ScreenInv
  <2>2. \A u \in Tabs : post'[u] = post[u] \/ post'[u] = [at |-> "served", op |-> post[t].op, state |-> server']
    BY DEF ScreenInv, ScreenTypeOK, ServePost
  <2> QED BY <1>4, <2>1, <2>2 DEF Answers, ServePost
<1>5. Grown' => Onward(server') BY DEF Grown, Onward, Ended
<1> QED BY <1>1, <1>3, <1>4, <1>5 DEF ScreenInv, Grown

LEMMA FlagStep == ASSUME ScreenInv, FlagFall PROVE ScreenInv'
<1>1. ScreenTypeOK' BY FlagState DEF ScreenInv, ScreenTypeOK, FlagFall
<1>2. ASSUME Onward(server') PROVE Answers'
  BY <1>2, FlagState, GrownIsOnward DEF ScreenInv, Answers, FlagFall
<1>5. Grown' => Onward(server') BY DEF Grown, Onward, Ended
<1> QED BY <1>1, <1>2, <1>5, FlagState DEF ScreenInv, Grown

LEMMA ScreenNextInv == ScreenInv /\ [ScreenNext]_screenVars => ScreenInv'
<1> SUFFICES ASSUME ScreenInv, [ScreenNext]_screenVars PROVE ScreenInv' OBVIOUS
<1>1. CASE UNCHANGED screenVars
  BY <1>1 DEF screenVars, ScreenInv, ScreenTypeOK, Grown, Answers
<1>2. CASE ScreenNext
  BY <1>2, PollStep, PostStep, ServeStep, FlagStep DEF ScreenNext
<1> QED BY <1>1, <1>2

LEMMA ScreenInductive == ScreenSpec => []ScreenInv
BY ScreenInitInv, ScreenNextInv, PTL DEF ScreenSpec

(* The game, the tabs and the requests of the screen are well typed.         *)
THEOREM ScreenTypeCorrect == ScreenSpec => []ScreenTypeOK
<1>1. ScreenInv => ScreenTypeOK BY DEF ScreenInv
<1> QED BY <1>1, ScreenInductive, PTL

(* However polls and posts cross, in a game that only grows no poll takes a   *)
(* tab back to an earlier state.                                           *)
THEOREM PollsNeverGoBack == ScreenSpec => NoGhost
<1>1. ScreenInv /\ [ScreenNext]_screenVars
      => [Grown => \A t \in Tabs : ~GoesBack(t)]_screenVars
  <2> SUFFICES ASSUME ScreenInv, ScreenNext, Grown, NEW t \in Tabs, GoesBack(t)
               PROVE  FALSE
    OBVIOUS
  <2>1. view'[t] # view[t] /\ post'[t] = post[t] /\ view'[t].rev < view[t].rev
    BY SentState DEF GoesBack, ScreenInv, State
  <2>2. PICK u \in Tabs : ArrivePoll(u) \/ RefusePost(u) \/ ArrivePost(u)
    BY <2>1 DEF ScreenNext, SendPoll, ServePoll, LosePoll, UserActs,
       ServePost, LosePost, EndQuiet, FlagFall
  <2>3. u = t
    BY <2>1, <2>2 DEF ArrivePoll, RefusePost, ArrivePost, ScreenInv, ScreenTypeOK
  <2>4. ArrivePoll(t)
    BY <2>1, <2>2, <2>3 DEF RefusePost, ArrivePost, ScreenInv, ScreenTypeOK, NoRequest
  <2>5. /\ view'[t] = poll[t].state /\ poll[t].at = "served"
        /\ ~IsStalePoll(view[t], poll[t].state)
    BY <2>1, <2>4 DEF ArrivePoll, ScreenInv, ScreenTypeOK
  <2>6. Onward(view[t]) /\ Onward(poll[t].state) BY <2>5 DEF ScreenInv, Answers
  <2>7. view[t] \in State /\ poll[t].state \in State
    BY <2>5, SentState DEF ScreenInv
  <2> QED BY <2>1, <2>5, <2>6, <2>7 DEF Onward, Ended, IsStalePoll, State, ScreenInv
<1> QED BY <1>1, ScreenInductive, PTL DEF ScreenSpec, NoGhost
===============================================================================
