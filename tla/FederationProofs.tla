-------------------------- MODULE FederationProofs --------------------------
(***************************************************************************)
(* What the servers of ealobby::Server keep of each other's players, for   *)
(* any number of servers, clients, games and links, whatever is lost       *)
(* between them.                                                           *)
(*                                                                         *)
(* A handler is a chain of functions of the world, so first comes what     *)
(* each of them does to a world, then what each keeps of it, then one step *)
(* per action.  The last parts are about the two ends of a link.  Where    *)
(* all games are on one server: once nothing is on its way on a link, the  *)
(* client's server and the host agree on who plays through it, and all     *)
(* that was asked of the host through it has been answered.  Wherever the  *)
(* games are: once nothing is left to be done, whoever is in a game was    *)
(* last told who is in it.                                                 *)
(***************************************************************************)
EXTENDS Federation, FoldLemmas

-----------------------------------------------------------------------------
(* Worlds *)

ConnMaps == UNION {[D -> Connection] : D \in SUBSET People}
GameMaps == UNION {[D -> Game] : D \in SUBSET (1 .. MaxGames)}
Wire == [out : Seq(Message), back : Seq(Answer)]
Owed == SUBSET {"join", "play", "leave"}

Worlds ==
  [conns : ConnMaps, games : GameMaps, links : Seq(Link), wire : Seq(Wire),
   held : Seq(1 .. MaxGames), told : [Clients -> Records], owed : [Clients -> Owed]]

LEMMA WorldHas ==
  ASSUME NEW w \in Worlds
  PROVE  /\ DOMAIN w.conns \subseteq People /\ w.conns \in [DOMAIN w.conns -> Connection]
         /\ DOMAIN w.games \subseteq 1 .. MaxGames /\ w.games \in [DOMAIN w.games -> Game]
         /\ w.links \in Seq(Link) /\ w.wire \in Seq(Wire)
         /\ w.held \in Seq(1 .. MaxGames)
         /\ w.told \in [Clients -> Records] /\ w.owed \in [Clients -> Owed]
  BY DEF Worlds, ConnMaps, GameMaps

\* v is w but for one of the parts.
ButConns(w, v) ==
  /\ v \in Worlds /\ v.games = w.games /\ v.links = w.links /\ v.wire = w.wire
  /\ v.held = w.held /\ v.told = w.told /\ v.owed = w.owed
ButGames(w, v) ==
  /\ v \in Worlds /\ v.conns = w.conns /\ v.links = w.links /\ v.wire = w.wire
  /\ v.held = w.held /\ v.told = w.told /\ v.owed = w.owed
ButWire(w, v) ==
  /\ v \in Worlds /\ v.conns = w.conns /\ v.games = w.games /\ v.links = w.links
  /\ v.held = w.held /\ v.told = w.told /\ v.owed = w.owed
ButLinks(w, v) ==
  /\ v \in Worlds /\ v.conns = w.conns /\ v.games = w.games /\ v.wire = w.wire
  /\ v.held = w.held /\ v.told = w.told /\ v.owed = w.owed
ButHeld(w, v) ==
  /\ v \in Worlds /\ v.conns = w.conns /\ v.games = w.games /\ v.links = w.links
  /\ v.wire = w.wire /\ v.told = w.told /\ v.owed = w.owed
ButTold(w, v) ==
  /\ v \in Worlds /\ v.conns = w.conns /\ v.games = w.games /\ v.links = w.links
  /\ v.wire = w.wire /\ v.held = w.held /\ v.owed = w.owed
ButOwed(w, v) ==
  /\ v \in Worlds /\ v.conns = w.conns /\ v.games = w.games /\ v.links = w.links
  /\ v.wire = w.wire /\ v.held = w.held /\ v.told = w.told

LEMMA SetConns ==
  ASSUME NEW w \in Worlds, NEW c \in ConnMaps
  PROVE  LET v == [w EXCEPT !.conns = c] IN ButConns(w, v) /\ v.conns = c
  BY DEF Worlds, ButConns

LEMMA SetGames ==
  ASSUME NEW w \in Worlds, NEW g \in GameMaps
  PROVE  LET v == [w EXCEPT !.games = g] IN ButGames(w, v) /\ v.games = g
  BY DEF Worlds, ButGames

LEMMA SetLinks ==
  ASSUME NEW w \in Worlds, NEW k \in Seq(Link)
  PROVE  LET v == [w EXCEPT !.links = k] IN ButLinks(w, v) /\ v.links = k
  BY DEF Worlds, ButLinks

LEMMA SetWire ==
  ASSUME NEW w \in Worlds, NEW k \in Seq(Wire)
  PROVE  LET v == [w EXCEPT !.wire = k] IN ButWire(w, v) /\ v.wire = k
  BY DEF Worlds, ButWire

LEMMA SetHeld ==
  ASSUME NEW w \in Worlds, NEW h \in Seq(1 .. MaxGames)
  PROVE  LET v == [w EXCEPT !.held = h] IN ButHeld(w, v) /\ v.held = h
  BY DEF Worlds, ButHeld

LEMMA SetTold ==
  ASSUME NEW w \in Worlds, NEW t \in [Clients -> Records]
  PROVE  LET v == [w EXCEPT !.told = t] IN ButTold(w, v) /\ v.told = t
  BY DEF Worlds, ButTold

LEMMA SetOwed ==
  ASSUME NEW w \in Worlds, NEW o \in [Clients -> Owed]
  PROVE  LET v == [w EXCEPT !.owed = o] IN ButOwed(w, v) /\ v.owed = o
  BY DEF Worlds, ButOwed

LEMMA WorldIs ==
  /\ World.conns = conns /\ World.games = games /\ World.links = links /\ World.wire = wire
  /\ World.held = held /\ World.told = told /\ World.owed = owed
  BY DEF World

\* What a step makes of the world is the world after it.
LEMMA BecomesIs ==
  ASSUME NEW v \in Worlds, Becomes(v)
  PROVE  World' = v
<1>1. v = [conns |-> v.conns, games |-> v.games, links |-> v.links, wire |-> v.wire,
           held |-> v.held, told |-> v.told, owed |-> v.owed]
  BY DEF Worlds
<1> QED
  BY <1>1 DEF Becomes, World

-----------------------------------------------------------------------------
(* What the handlers are made of *)

\* Of the connections only m's place changed: its game is g, its link l.
Placed(w, v, m, g, l) ==
  /\ DOMAIN v.conns = DOMAIN w.conns
  /\ \A x \in DOMAIN w.conns \ {m} : v.conns[x] = w.conns[x]
  /\ v.conns[m].user = w.conns[m].user /\ v.conns[m].game = g /\ v.conns[m].remote = l

PutConn(w, m, c) == [w EXCEPT !.conns[m] = c]
InGame(w, m, g) == [w EXCEPT !.conns[m].game = g]
OnLink(w, m, l) == [w EXCEPT !.conns[m].remote = l]

LEMMA ZeroIs == 0 \in 0 .. MaxGames /\ 0 \in 0 .. MaxLinks
  BY BoundsAssumption

LEMMA PutConnDoes ==
  ASSUME NEW w \in Worlds, NEW m \in DOMAIN w.conns, NEW c \in Connection
  PROVE  LET v == PutConn(w, m, c) IN
         /\ ButConns(w, v)
         /\ DOMAIN v.conns = DOMAIN w.conns
         /\ \A x \in DOMAIN w.conns \ {m} : v.conns[x] = w.conns[x]
         /\ v.conns[m] = c
<1> DEFINE n == [w.conns EXCEPT ![m] = c]
<1>1. /\ DOMAIN w.conns \subseteq People /\ w.conns \in [DOMAIN w.conns -> Connection]
  BY WorldHas
<1>2. PutConn(w, m, c) = [w EXCEPT !.conns = n]
  BY DEF PutConn
<1>3. n \in [DOMAIN w.conns -> Connection]
  BY <1>1
<1>4. n \in ConnMaps
  BY <1>1, <1>3 DEF ConnMaps
<1>5. /\ DOMAIN n = DOMAIN w.conns /\ n[m] = c
      /\ \A x \in DOMAIN w.conns \ {m} : n[x] = w.conns[x]
  BY <1>1
<1> HIDE DEF n
<1> QED
  BY <1>2, <1>4, <1>5, SetConns

LEMMA InGameDoes ==
  ASSUME NEW w \in Worlds, NEW m \in DOMAIN w.conns, NEW g \in 0 .. MaxGames
  PROVE  LET v == InGame(w, m, g) IN ButConns(w, v) /\ Placed(w, v, m, g, w.conns[m].remote)
<1> DEFINE c == [w.conns[m] EXCEPT !.game = g]
<1>1. w.conns[m] \in Connection
  BY WorldHas
<1>2. /\ c \in Connection
      /\ c.user = w.conns[m].user /\ c.game = g /\ c.remote = w.conns[m].remote
  BY <1>1 DEF Connection
<1>3. InGame(w, m, g) = PutConn(w, m, c)
  BY DEF InGame, PutConn
<1> HIDE DEF c
<1> QED
  BY <1>2, <1>3, PutConnDoes DEF Placed

LEMMA OnLinkDoes ==
  ASSUME NEW w \in Worlds, NEW m \in DOMAIN w.conns, NEW l \in 0 .. MaxLinks
  PROVE  LET v == OnLink(w, m, l) IN ButConns(w, v) /\ Placed(w, v, m, w.conns[m].game, l)
<1> DEFINE c == [w.conns[m] EXCEPT !.remote = l]
<1>1. w.conns[m] \in Connection
  BY WorldHas
<1>2. /\ c \in Connection
      /\ c.user = w.conns[m].user /\ c.game = w.conns[m].game /\ c.remote = l
  BY <1>1 DEF Connection
<1>3. OnLink(w, m, l) = PutConn(w, m, c)
  BY DEF OnLink, PutConn
<1> HIDE DEF c
<1> QED
  BY <1>2, <1>3, PutConnDoes DEF Placed

Gone(w, m) == [w EXCEPT !.conns = Without(w.conns, m)]

LEMMA GoneDoes ==
  ASSUME NEW w \in Worlds, NEW m
  PROVE  LET v == Gone(w, m) IN
         /\ ButConns(w, v)
         /\ DOMAIN v.conns = DOMAIN w.conns \ {m}
         /\ \A x \in DOMAIN v.conns : v.conns[x] = w.conns[x]
<1> DEFINE n == Without(w.conns, m)
<1>1. /\ DOMAIN w.conns \subseteq People /\ w.conns \in [DOMAIN w.conns -> Connection]
  BY WorldHas
<1>2. /\ DOMAIN n = DOMAIN w.conns \ {m} /\ n \in [DOMAIN n -> Connection]
      /\ \A x \in DOMAIN n : n[x] = w.conns[x]
  BY <1>1 DEF Without
<1>3. n \in ConnMaps
  BY <1>1, <1>2 DEF ConnMaps
<1>4. Gone(w, m) = [w EXCEPT !.conns = n]
  BY DEF Gone
<1> HIDE DEF n
<1> QED
  BY <1>2, <1>3, <1>4, SetConns

Came(w, m, c) == [w EXCEPT !.conns = With(w.conns, m, c)]

LEMMA CameDoes ==
  ASSUME NEW w \in Worlds, NEW m \in People, NEW c \in Connection
  PROVE  LET v == Came(w, m, c) IN
         /\ ButConns(w, v)
         /\ DOMAIN v.conns = DOMAIN w.conns \cup {m}
         /\ \A x \in DOMAIN w.conns \ {m} : v.conns[x] = w.conns[x]
         /\ v.conns[m] = c
<1> DEFINE n == With(w.conns, m, c)
<1>1. /\ DOMAIN w.conns \subseteq People /\ w.conns \in [DOMAIN w.conns -> Connection]
  BY WorldHas
<1>2. /\ DOMAIN n = DOMAIN w.conns \cup {m} /\ n \in [DOMAIN n -> Connection]
      /\ \A x \in DOMAIN w.conns \ {m} : n[x] = w.conns[x]
      /\ n[m] = c
  BY <1>1 DEF With
<1>3. n \in ConnMaps
  BY <1>1, <1>2 DEF ConnMaps
<1>4. Came(w, m, c) = [w EXCEPT !.conns = n]
  BY DEF Came
<1> HIDE DEF n
<1> QED
  BY <1>2, <1>3, <1>4, SetConns

\* A game passed on to other players, the first of whom may be a new host.
Passed(k, list, host) == [k EXCEPT !.players = list, !.host = host]

LEMMA GamesOf ==
  ASSUME NEW k \in Game, NEW list \in Seq(People), NEW host \in Clients
  PROVE  /\ LET n == [k EXCEPT !.players = list] IN
              /\ n \in Game /\ n.players = list
              /\ n.server = k.server /\ n.host = k.host /\ n.locked = k.locked
         /\ LET n == Passed(k, list, host) IN
              /\ n \in Game /\ n.players = list /\ n.host = host
              /\ n.server = k.server /\ n.locked = k.locked
         /\ LET n == [k EXCEPT !.locked = TRUE] IN
              /\ n \in Game /\ n.players = k.players /\ n.locked
              /\ n.server = k.server /\ n.host = k.host
  BY DEF Game, Passed

LEMMA GamePassed ==
  ASSUME NEW k \in Game, NEW list \in Seq(People), NEW host \in Clients, NEW n, n = Passed(k, list, host)
  PROVE  n \in Game /\ n.players = list /\ n.host = host /\ n.server = k.server /\ n.locked = k.locked
<1>1. PICK s, a, b, o : /\ k = [server |-> s, host |-> a, players |-> b, locked |-> o]
                        /\ s \in Servers /\ a \in Clients /\ b \in Seq(People) /\ o \in BOOLEAN
  BY DEF Game
<1>2. PICK j : j = [server |-> s, host |-> a, players |-> list, locked |-> o]
  OBVIOUS
<1>3. n = [server |-> s, host |-> host, players |-> list, locked |-> o]
  <2>1. [k EXCEPT !.players = list] = j
    BY <1>1, <1>2
  <2>2. n = [[k EXCEPT !.players = list] EXCEPT !.host = host]
    BY DEF Passed
  <2>3. [j EXCEPT !.host = host] = [server |-> s, host |-> host, players |-> list, locked |-> o]
    BY <1>2
  <2> QED
    BY <2>1, <2>2, <2>3
<1>4. n \in Game
  BY <1>1, <1>3 DEF Game
<1> QED
  BY <1>1, <1>3, <1>4

PutGame(w, g, k) == [w EXCEPT !.games[g] = k]

LEMMA PutGameDoes ==
  ASSUME NEW w \in Worlds, NEW g \in DOMAIN w.games, NEW k \in Game
  PROVE  LET v == PutGame(w, g, k) IN
         /\ ButGames(w, v)
         /\ DOMAIN v.games = DOMAIN w.games
         /\ \A i \in DOMAIN w.games \ {g} : v.games[i] = w.games[i]
         /\ v.games[g] = k
<1> DEFINE n == [w.games EXCEPT ![g] = k]
<1>1. DOMAIN w.games \subseteq 1 .. MaxGames /\ w.games \in [DOMAIN w.games -> Game]
  BY WorldHas
<1>2. PutGame(w, g, k) = [w EXCEPT !.games = n]
  BY DEF PutGame
<1>3. n \in GameMaps
  BY <1>1 DEF GameMaps
<1>4. /\ DOMAIN n = DOMAIN w.games /\ n[g] = k
      /\ \A i \in DOMAIN w.games \ {g} : n[i] = w.games[i]
  BY <1>1
<1> HIDE DEF n
<1> QED
  BY <1>2, <1>3, <1>4, SetGames

Closed(w, g) == [w EXCEPT !.games = Without(w.games, g)]

LEMMA ClosedDoes ==
  ASSUME NEW w \in Worlds, NEW g
  PROVE  LET v == Closed(w, g) IN
         /\ ButGames(w, v)
         /\ DOMAIN v.games = DOMAIN w.games \ {g}
         /\ \A i \in DOMAIN v.games : v.games[i] = w.games[i]
<1> DEFINE n == Without(w.games, g)
<1>1. DOMAIN w.games \subseteq 1 .. MaxGames /\ w.games \in [DOMAIN w.games -> Game]
  BY WorldHas
<1>2. /\ DOMAIN n = DOMAIN w.games \ {g} /\ n \in [DOMAIN n -> Game]
      /\ \A i \in DOMAIN n : n[i] = w.games[i]
  BY <1>1 DEF Without
<1>3. n \in GameMaps
  BY <1>1, <1>2 DEF GameMaps
<1>4. Closed(w, g) = [w EXCEPT !.games = n]
  BY DEF Closed
<1> HIDE DEF n
<1> QED
  BY <1>2, <1>3, <1>4, SetGames

Opened(w, g, k) == [w EXCEPT !.games = With(w.games, g, k)]

LEMMA OpenedDoes ==
  ASSUME NEW w \in Worlds, NEW g \in 1 .. MaxGames, NEW k \in Game
  PROVE  LET v == Opened(w, g, k) IN
         /\ ButGames(w, v)
         /\ DOMAIN v.games = DOMAIN w.games \cup {g}
         /\ \A i \in DOMAIN w.games \ {g} : v.games[i] = w.games[i]
         /\ v.games[g] = k
<1> DEFINE n == With(w.games, g, k)
<1>1. DOMAIN w.games \subseteq 1 .. MaxGames /\ w.games \in [DOMAIN w.games -> Game]
  BY WorldHas
<1>2. /\ DOMAIN n = DOMAIN w.games \cup {g} /\ n \in [DOMAIN n -> Game]
      /\ \A i \in DOMAIN w.games \ {g} : n[i] = w.games[i]
      /\ n[g] = k
  BY <1>1 DEF With
<1>3. n \in GameMaps
  BY <1>1, <1>2 DEF GameMaps
<1>4. Opened(w, g, k) = [w EXCEPT !.games = n]
  BY DEF Opened
<1> HIDE DEF n
<1> QED
  BY <1>2, <1>3, <1>4, SetGames

\* There is a wire for each link.
Wired(w) == w \in Worlds /\ Len(w.wire) = Len(w.links) /\ Len(w.links) <= MaxLinks

LEMMA WiredHas ==
  ASSUME NEW w, Wired(w)
  PROVE  /\ DOMAIN w.wire = DOMAIN w.links /\ DOMAIN w.links = 1 .. Len(w.links) /\ Len(w.links) \in Nat
         /\ DOMAIN w.links \subseteq 1 .. MaxLinks
         /\ \A l \in DOMAIN w.links : /\ w.links[l] \in Link /\ w.wire[l] \in Wire
                                      /\ w.wire[l].out \in Seq(Message) /\ w.wire[l].back \in Seq(Answer)
<1>1. w.links \in Seq(Link) /\ w.wire \in Seq(Wire) /\ MaxLinks \in Nat
  BY WorldHas, BoundsAssumption DEF Wired
<1>2. \A k \in Wire : k.out \in Seq(Message) /\ k.back \in Seq(Answer)
  BY DEF Wire
<1> HIDE DEF Wire, Link
<1> QED
  BY <1>1, <1>2 DEF Wired

\* A message was put on link l, to the host, unless the link is broken.
PutOut(w, v, l, x) ==
  /\ ButWire(w, v) /\ Wired(v)
  /\ \A k \in DOMAIN w.links :
       /\ v.wire[k].back = w.wire[k].back
       /\ v.wire[k].out = IF k = l /\ ~ w.links[l].broken THEN Append(w.wire[k].out, x) ELSE w.wire[k].out

\* The other way.
PutBack(w, v, l, x) ==
  /\ ButWire(w, v) /\ Wired(v)
  /\ \A k \in DOMAIN w.links :
       /\ v.wire[k].out = w.wire[k].out
       /\ v.wire[k].back = IF k = l /\ ~ w.links[l].broken THEN Append(w.wire[k].back, x) ELSE w.wire[k].back

PutWire(w, l, k) == [w EXCEPT !.wire[l] = k]

LEMMA PutWireDoes ==
  ASSUME NEW w, Wired(w), NEW l \in DOMAIN w.links, NEW k \in Wire
  PROVE  LET v == PutWire(w, l, k) IN
         /\ ButWire(w, v) /\ Wired(v)
         /\ \A i \in DOMAIN w.links \ {l} : v.wire[i] = w.wire[i]
         /\ v.wire[l] = k
<1> DEFINE n == [w.wire EXCEPT ![l] = k]
<1>1. w \in Worlds /\ w.wire \in Seq(Wire) /\ DOMAIN w.wire = DOMAIN w.links
  BY WiredHas, WorldHas DEF Wired
<1>2. PutWire(w, l, k) = [w EXCEPT !.wire = n]
  BY DEF PutWire
<1>3. n \in Seq(Wire) /\ Len(n) = Len(w.wire)
  BY <1>1
<1>4. n[l] = k /\ \A i \in DOMAIN w.links \ {l} : n[i] = w.wire[i]
  BY <1>1
<1> HIDE DEF n
<1>5. LET v == PutWire(w, l, k) IN ButWire(w, v) /\ v.wire = n
  BY <1>1, <1>2, <1>3, SetWire
<1> QED
  BY <1>3, <1>4, <1>5 DEF ButWire, Wired

LEMMA WireOf ==
  ASSUME NEW r \in Wire
  PROVE  /\ \A x \in Message : LET k == [r EXCEPT !["out"] = Append(@, x)] IN
              k \in Wire /\ k.out = Append(r.out, x) /\ k.back = r.back
         /\ \A x \in Answer : LET k == [r EXCEPT !["back"] = Append(@, x)] IN
              k \in Wire /\ k.back = Append(r.back, x) /\ k.out = r.out
         /\ \A u \in Seq(Message) : LET k == [r EXCEPT !.out = u] IN k \in Wire /\ k.out = u /\ k.back = r.back
         /\ \A u \in Seq(Answer) : LET k == [r EXCEPT !.back = u] IN k \in Wire /\ k.back = u /\ k.out = r.out
<1>1. PICK a \in Seq(Message), b \in Seq(Answer) : r = [out |-> a, back |-> b]
  BY DEF Wire
<1>2. ASSUME NEW x
      PROVE  /\ [r EXCEPT !.out = x] = [out |-> x, back |-> b]
             /\ [r EXCEPT !.back = x] = [out |-> a, back |-> x]
  BY <1>1
<1>4. ASSUME NEW x
      PROVE  /\ [r EXCEPT !["out"] = Append(@, x)] = [out |-> Append(a, x), back |-> b]
             /\ [r EXCEPT !["back"] = Append(@, x)] = [out |-> a, back |-> Append(b, x)]
  <2>1. \A y : [r EXCEPT !["out"] = y] = [out |-> y, back |-> b]
    BY <1>1
  <2>2. \A y : [r EXCEPT !["back"] = y] = [out |-> a, back |-> y]
    BY <1>1
  <2>3. r["out"] = a /\ r["back"] = b
    BY <1>1
  <2> QED
    BY <2>1, <2>2, <2>3
<1>3. /\ \A x \in Message : Append(a, x) \in Seq(Message)
      /\ \A x \in Answer : Append(b, x) \in Seq(Answer)
  OBVIOUS
<1> QED
  BY <1>1, <1>2, <1>3, <1>4 DEF Wire

LEMMA PutDoes ==
  ASSUME NEW w, Wired(w), NEW l \in DOMAIN w.links
  PROVE  /\ \A x \in Message : PutOut(w, Put(w, l, "out", x), l, x)
         /\ \A x \in Answer : PutBack(w, Put(w, l, "back", x), l, x)
<1>1. w.wire[l] \in Wire /\ w.wire[l].out \in Seq(Message) /\ w.wire[l].back \in Seq(Answer)
  BY WiredHas
<1>2. \A x, way : Put(w, l, way, x) = IF w.links[l].broken THEN w
                                      ELSE PutWire(w, l, [w.wire[l] EXCEPT ![way] = Append(@, x)])
  BY DEF Put, PutWire
<1>3. w \in Worlds /\ ButWire(w, w)
  BY DEF Wired, ButWire
<1>4. ASSUME NEW x \in Message PROVE PutOut(w, Put(w, l, "out", x), l, x)
  <2> DEFINE k == [w.wire[l] EXCEPT !["out"] = Append(@, x)]
  <2>1. k \in Wire /\ k.out = Append(w.wire[l].out, x) /\ k.back = w.wire[l].back
    BY <1>1, WireOf
  <2>2. Put(w, l, "out", x) = IF w.links[l].broken THEN w ELSE PutWire(w, l, k)
    BY <1>2
  <2> HIDE DEF k
  <2>3. CASE w.links[l].broken
    BY <1>3, <2>2, <2>3 DEF PutOut
  <2>4. CASE ~ w.links[l].broken
    <3>1. Put(w, l, "out", x) = PutWire(w, l, k)
      BY <2>2, <2>4
    <3>2. LET v == PutWire(w, l, k) IN
          /\ ButWire(w, v) /\ Wired(v)
          /\ \A i \in DOMAIN w.links \ {l} : v.wire[i] = w.wire[i]
          /\ v.wire[l] = k
      BY <2>1, PutWireDoes
    <3> QED
      BY <2>1, <2>4, <3>1, <3>2 DEF PutOut
  <2> QED
    BY <2>3, <2>4
<1>5. ASSUME NEW x \in Answer PROVE PutBack(w, Put(w, l, "back", x), l, x)
  <2> DEFINE k == [w.wire[l] EXCEPT !["back"] = Append(@, x)]
  <2>1. k \in Wire /\ k.back = Append(w.wire[l].back, x) /\ k.out = w.wire[l].out
    BY <1>1, WireOf
  <2>2. Put(w, l, "back", x) = IF w.links[l].broken THEN w ELSE PutWire(w, l, k)
    BY <1>2
  <2> HIDE DEF k
  <2>3. CASE w.links[l].broken
    BY <1>3, <2>2, <2>3 DEF PutBack
  <2>4. CASE ~ w.links[l].broken
    <3>1. Put(w, l, "back", x) = PutWire(w, l, k)
      BY <2>2, <2>4
    <3>2. LET v == PutWire(w, l, k) IN
          /\ ButWire(w, v) /\ Wired(v)
          /\ \A i \in DOMAIN w.links \ {l} : v.wire[i] = w.wire[i]
          /\ v.wire[l] = k
      BY <2>1, PutWireDoes
    <3> QED
      BY <2>1, <2>4, <3>1, <3>2 DEF PutBack
  <2> QED
    BY <2>3, <2>4
<1> QED
  BY <1>4, <1>5

\* Client c was sent an answer or a record.
Delivered(w, v, c, answers, record) ==
  /\ v \in Worlds
  /\ v.conns = w.conns /\ v.games = w.games /\ v.links = w.links /\ v.wire = w.wire /\ v.held = w.held
  /\ \A x \in Clients : v.told[x] = IF x = c /\ record # NoRecord THEN record ELSE w.told[x]
  /\ \A x \in Clients : v.owed[x] = IF x = c THEN w.owed[x] \ {answers} ELSE w.owed[x]

LEMMA DeliverDoes ==
  ASSUME NEW w \in Worlds, NEW c \in Clients, NEW a, NEW r \in Records
  PROVE  Delivered(w, Deliver(w, c, a, r), c, a, r)
<1> DEFINE t == [w.told EXCEPT ![c] = IF r = NoRecord THEN @ ELSE r]
           o == [w.owed EXCEPT ![c] = @ \ {a}]
           u == [w EXCEPT !.told = t]
           v == [u EXCEPT !.owed = o]
<1>1. w.told \in [Clients -> Records] /\ w.owed \in [Clients -> Owed]
  BY WorldHas
<1>2. Deliver(w, c, a, r) = v
  BY DEF Deliver
<1>3. /\ t \in [Clients -> Records]
      /\ \A x \in Clients : t[x] = IF x = c /\ r # NoRecord THEN r ELSE w.told[x]
  BY <1>1
<1>4. /\ o \in [Clients -> Owed]
      /\ \A x \in Clients : o[x] = IF x = c THEN w.owed[x] \ {a} ELSE w.owed[x]
  BY <1>1 DEF Owed
<1> HIDE DEF t, o
<1>5. ButTold(w, u) /\ u.told = t
  BY <1>3, SetTold
<1> HIDE DEF u
<1>6. u \in Worlds
  BY <1>5 DEF ButTold
<1>7. ButOwed(u, v) /\ v.owed = o
  BY <1>4, <1>6, SetOwed
<1> HIDE DEF v
<1> QED
  BY <1>2, <1>3, <1>4, <1>5, <1>7 DEF ButTold, ButOwed, Delivered

\* Whoever came by a link came by one there is, and whoever joined through one.
Linked(w) ==
  /\ Wired(w)
  /\ \A m \in DOMAIN w.conns \ Clients : m[1] \in DOMAIN w.links
  /\ \A m \in DOMAIN w.conns : w.conns[m].remote \in DOMAIN w.links \cup {0}

\* Every game is where it was.
SameServers(w, v) == \A g \in DOMAIN v.games : v.games[g].server = w.games[g].server

\* From w to v something was said to the players: messages came back on the
\* links, and clients were told.
Said(w, v) ==
  /\ Wired(v)
  /\ v.conns = w.conns /\ v.games = w.games /\ v.links = w.links /\ v.held = w.held
  /\ \A l \in DOMAIN w.links : /\ v.wire[l].out = w.wire[l].out
                               /\ ToSet(w.wire[l].back) \subseteq ToSet(v.wire[l].back)
  /\ \A c \in Clients : v.owed[c] \subseteq w.owed[c]

LEMMA AppendSet ==
  ASSUME NEW T, NEW list \in Seq(T), NEW x \in T
  PROVE  ToSet(Append(list, x)) = ToSet(list) \cup {x}
<1>1. DOMAIN Append(list, x) = DOMAIN list \cup {Len(list) + 1}
  OBVIOUS
<1>2. /\ \A i \in DOMAIN list : Append(list, x)[i] = list[i]
      /\ Append(list, x)[Len(list) + 1] = x
  OBVIOUS
<1> QED
  BY <1>1, <1>2 DEF ToSet

LEMMA SaidNothing ==
  ASSUME NEW w, Wired(w)
  PROVE  Said(w, w)
  BY DEF Said

LEMMA SaidTwice ==
  ASSUME NEW w, NEW u, NEW v, Said(w, u), Said(u, v)
  PROVE  Said(w, v)
  BY DEF Said

LEMMA SaidLinked ==
  ASSUME NEW w, NEW v, Linked(w), Said(w, v)
  PROVE  Linked(v)
  BY DEF Said, Linked

LEMMA PeopleAre ==
  ASSUME NEW m \in People
  PROVE  /\ m \notin Clients => m[1] \in 1 .. MaxLinks /\ m[2] \in Ids /\ m = <<m[1], m[2]>>
         /\ IdOf(m) \in Ids
<1>1. m \in Clients => IdOf(m) \in Ids
  BY DEF IdOf, Ids
<1>2. ASSUME m \notin Clients
      PROVE m[1] \in 1 .. MaxLinks /\ m[2] \in Ids /\ m = <<m[1], m[2]>> /\ IdOf(m) \in Ids
  BY <1>2 DEF People, IdOf
<1> QED
  BY <1>1, <1>2

\* A player who came by a link that is not cut has an answer of that kind on its way.
Replied(w, m, a) ==
  m \notin Clients /\ ~ w.links[m[1]].broken =>
    \E x \in ToSet(w.wire[m[1]].back) : x.id = m[2] /\ x.answers = a

LEMMA SendDoes ==
  ASSUME NEW w, Linked(w), NEW m \in DOMAIN w.conns,
         NEW a \in {"join", "play", "leave", "push"}, NEW r \in Records
  PROVE  LET v == Send(w, m, a, r) IN
         /\ Said(w, v)
         /\ m \in Clients => Delivered(w, v, m, a, r)
         /\ m \notin Clients => /\ m[1] \in DOMAIN w.links
                                /\ PutBack(w, v, m[1], [id |-> m[2], answers |-> a, record |-> r])
         /\ Replied(v, m, a)
<1> DEFINE v == Send(w, m, a, r)
           x == [id |-> m[2], answers |-> a, record |-> r]
<1>1. w \in Worlds /\ Wired(w) /\ m \in People
  BY WorldHas DEF Linked, Wired
<1>2. CASE m \in Clients
  <2>1. v = Deliver(w, m, a, r)
    BY <1>2 DEF Send
  <2> HIDE DEF v
  <2>2. Delivered(w, v, m, a, r)
    BY <1>1, <1>2, <2>1, DeliverDoes
  <2>3. Said(w, v)
    BY <1>1, <2>2 DEF Delivered, Said, Wired
  <2>4. Replied(v, m, a)
    BY <1>2 DEF Replied
  <2> QED
    BY <1>2, <2>2, <2>3, <2>4 DEF v
<1>3. CASE m \notin Clients
  <2>1. v = Put(w, m[1], "back", x)
    BY <1>3 DEF Send
  <2>2. m[1] \in DOMAIN w.links /\ m[2] \in Ids
    BY <1>1, <1>3, PeopleAre DEF Linked
  <2>3. x \in Answer
    BY <2>2 DEF Answer
  <2> HIDE DEF v, x
  <2>4. PutBack(w, v, m[1], x)
    BY <1>1, <2>1, <2>2, <2>3, PutDoes
  <2>5. \A k \in DOMAIN w.links : w.wire[k].back \in Seq(Answer)
    BY <1>1, WiredHas
  <2>6. \A k \in DOMAIN w.links : ToSet(w.wire[k].back) \subseteq ToSet(v.wire[k].back)
    BY <2>3, <2>4, <2>5, AppendSet DEF PutBack
  <2>7. Said(w, v)
    BY <2>4, <2>6 DEF PutBack, ButWire, Said
  <2>8. ~ w.links[m[1]].broken => x \in ToSet(v.wire[m[1]].back)
    BY <2>2, <2>3, <2>4, <2>5, AppendSet DEF PutBack
  <2>9. x.id = m[2] /\ x.answers = a
    BY DEF x
  <2>10. Replied(v, m, a)
    BY <2>4, <2>8, <2>9 DEF Replied, PutBack, ButWire
  <2> QED
    BY <1>3, <2>2, <2>4, <2>7, <2>10 DEF v, x
<1> QED
  BY <1>2, <1>3

LEMMA RecordsHave ==
  NoRecord \in Records /\ Nowhere \in Records /\ NoRecord # Nowhere
<1>1. -1 \in -1 .. MaxGames /\ 0 \in -1 .. MaxGames /\ <<>> \in Seq(Clients)
  BY BoundsAssumption
<1>2. NoRecord \in Records /\ Nowhere \in Records
  BY <1>1 DEF NoRecord, Nowhere, Records
<1>3. NoRecord.game = -1 /\ Nowhere.game = 0
  BY DEF NoRecord, Nowhere
<1> QED
  BY <1>2, <1>3

LEMMA GameRecordIs ==
  ASSUME NEW w \in Worlds, NEW g \in DOMAIN w.games
  PROVE  GameRecord(w, g) \in Records /\ GameRecord(w, g) # NoRecord /\ GameRecord(w, g).game = g
<1> DEFINE present == Only(w.games[g].players, DOMAIN w.conns)
           names == [i \in DOMAIN present |-> w.conns[present[i]].user]
<1>1. /\ w.games[g] \in Game /\ g \in 1 .. MaxGames
      /\ \A m \in DOMAIN w.conns : w.conns[m] \in Connection
  BY WorldHas
<1>2. w.games[g].players \in Seq(People) /\ w.games[g].host \in Clients
  BY <1>1 DEF Game
<1>3. present \in Seq(People) /\ ToSet(present) \subseteq DOMAIN w.conns
  BY <1>2, OnlyKeeps
<1>4. \A i \in DOMAIN present : present[i] \in DOMAIN w.conns
  BY <1>3 DEF ToSet
<1>5. names \in Seq(Clients)
  <2>1. \A i \in DOMAIN present : w.conns[present[i]].user \in Clients
    BY <1>1, <1>4 DEF Connection
  <2>2. DOMAIN present = 1 .. Len(present) /\ Len(present) \in Nat
    BY <1>3
  <2> HIDE DEF present
  <2> QED
    BY <2>1, <2>2
<1>6. GameRecord(w, g) = [game |-> g, host |-> w.games[g].host, players |-> names]
  BY DEF GameRecord
<1>7. g \in -1 .. MaxGames /\ g # -1
  BY <1>1, BoundsAssumption
<1>8. GameRecord(w, g) \in Records /\ GameRecord(w, g).game = g
  <2>1. PICK host, list : host = w.games[g].host /\ list = names
    OBVIOUS
  <2> HIDE DEF names
  <2>2. host \in Clients \cup {""} /\ list \in Seq(Clients) /\ g \in -1 .. MaxGames
    BY <1>2, <1>5, <1>7, <2>1
  <2>3. [game |-> g, host |-> host, players |-> list] \in Records
    BY <2>2 DEF Records
  <2> QED
    BY <1>6, <2>1, <2>3
<1>9. NoRecord.game = -1
  BY DEF NoRecord
<1> QED
  BY <1>7, <1>8, <1>9

\* One of a game's players is sent the game.
Tell(v, g, m) == IF m \in DOMAIN v.conns THEN Send(v, m, "push", GameRecord(v, g)) ELSE v

\* SendGame goes through the players, from world to world.
LEMMA SendGameGoes ==
  ASSUME NEW W, NEW w \in W, NEW g, NEW list \in Seq(People), w.games[g].players = list,
         \A v \in W, m \in ToSet(list) : Tell(v, g, m) \in W
  PROVE  \E f \in [0 .. Len(list) -> W] :
           /\ f[0] = w /\ SendGame(w, g) = f[Len(list)]
           /\ \A i \in 1 .. Len(list) : f[i] = Tell(f[i - 1], g, list[i])
<1> DEFINE X == DOMAIN list
           step == [i \in X |-> [v \in W |-> Tell(v, g, list[i])]]
           Defines(f) == f = [s \in SUBSET X |-> IF s = {} THEN w
                                                 ELSE Tell(f[s \ {Max(s)}], g, list[Max(s)])]
           F == CHOOSE f : Defines(f)
<1>1. X = 1 .. Len(list) /\ Len(list) \in Nat /\ \A i \in X : list[i] \in ToSet(list)
  BY DEF ToSet
<1>2. step \in [X -> [W -> W]]
  BY <1>1
<1>3. X \in SUBSET Nat /\ IsFiniteSet(X)
  BY <1>1, FS_Interval
<1>4. PICK G \in [SUBSET X -> W] : Folds(G, X, w, step)
  <2> HIDE DEF step
  <2> QED
    BY <1>2, <1>3, FoldExists
<1>5. \A s \in SUBSET X : s # {} => Max(s) \in s /\ \A y \in s : Max(s) >= y
  BY <1>3, FS_Subset, MaxOf
<1>6. ASSUME NEW s \in SUBSET X, s # {}
      PROVE  G[s] = Tell(G[s \ {Max(s)}], g, list[Max(s)])
  <2>1. Max(s) \in X /\ G[s \ {Max(s)}] \in W
    BY <1>4, <1>5, <1>6
  <2>2. step[Max(s)][G[s \ {Max(s)}]] = Tell(G[s \ {Max(s)}], g, list[Max(s)])
    BY <2>1
  <2> QED
    BY <1>4, <1>6, <2>2 DEF Folds
<1>7. G[{}] = w
  BY <1>4 DEF Folds
<1>8. Defines(G)
  <2>1. G = [s \in SUBSET X |-> G[s]]
    BY <1>4
  <2> HIDE DEF X
  <2> QED
    BY <1>6, <1>7, <2>1
<1>9. Defines(F)
  <2> HIDE DEF Defines
  <2> QED
    BY <1>8
<1>10. SendGame(w, g) = F[X]
  BY DEF SendGame, FoldLeft, MapThenFoldSet, Tell
<1> HIDE DEF F, step
<1> DEFINE f == [i \in 0 .. Len(list) |-> F[1 .. i]]
<1>11. F[1 .. 0] = w
  <2>1. 1 .. 0 = {} /\ {} \in SUBSET X
    OBVIOUS
  <2> HIDE DEF X
  <2> QED
    BY <1>9, <2>1
<1>12. ASSUME NEW i \in 1 .. Len(list)
       PROVE  F[1 .. i] = Tell(F[1 .. i - 1], g, list[i])
  <2>1. 1 .. i \in SUBSET X /\ 1 .. i # {} /\ i \in 1 .. i
    BY <1>1
  <2>2. Max(1 .. i) \in 1 .. i /\ Max(1 .. i) >= i
    BY <1>5, <2>1
  <2>3. Max(1 .. i) = i
    BY <2>2
  <2>4. (1 .. i) \ {i} = 1 .. i - 1
    OBVIOUS
  <2> HIDE DEF X
  <2> QED
    BY <1>9, <2>1, <2>3, <2>4
<1> DEFINE C == {i \in 0 .. Len(list) : F[1 .. i] \in W}
<1>13. 0 .. Len(list) \subseteq C
  <2>1. 0 \in C
    BY <1>1, <1>11
  <2>2. ASSUME NEW i \in 1 .. Len(list), i - 1 \in C PROVE i \in C
    BY <1>1, <1>12, <2>2
  <2> HIDE DEF C
  <2> QED
    BY <1>1, <2>1, <2>2, UpTo
<1>14. f \in [0 .. Len(list) -> W]
  BY <1>13
<1>15. /\ f[0] = w /\ SendGame(w, g) = f[Len(list)]
       /\ \A i \in 1 .. Len(list) : f[i] = Tell(f[i - 1], g, list[i])
  <2>1. 0 \in 0 .. Len(list) /\ Len(list) \in 0 .. Len(list)
    BY <1>1
  <2>2. \A i \in 1 .. Len(list) : i \in 0 .. Len(list) /\ i - 1 \in 0 .. Len(list)
    BY <1>1
  <2> HIDE DEF Tell
  <2> QED
    BY <1>1, <1>10, <1>11, <1>12, <2>1, <2>2
<1> HIDE DEF f
<1> QED
  BY <1>14, <1>15

LEMMA SendGameDoes ==
  ASSUME NEW w, Linked(w), NEW g \in DOMAIN w.games
  PROVE  Said(w, SendGame(w, g))
<1> DEFINE W == {v \in Worlds : Said(w, v)}
<1>1. PICK list \in Seq(People) : w.games[g].players = list
  BY WorldHas DEF Linked, Wired, Game
<1>2. w \in W
  BY SaidNothing DEF Linked, Wired
<1>3. ASSUME NEW v \in W, NEW m \in ToSet(list) PROVE Tell(v, g, m) \in W
  <2>1. CASE m \in DOMAIN v.conns
    <3>1. Said(w, v) /\ Linked(v)
      BY SaidLinked
    <3>2. v \in Worlds /\ g \in DOMAIN v.games
      BY <3>1 DEF Said
    <3>3. GameRecord(v, g) \in Records
      BY <3>2, GameRecordIs
    <3>4. PICK u : u = Send(v, m, "push", GameRecord(v, g))
      OBVIOUS
    <3>5. Said(v, u)
      BY <2>1, <3>1, <3>3, <3>4, SendDoes
    <3>6. Said(w, u) /\ u \in Worlds
      BY <3>1, <3>5, SaidTwice DEF Said, Wired
    <3> QED
      BY <2>1, <3>4, <3>6 DEF Tell
  <2>2. CASE m \notin DOMAIN v.conns
    BY <2>2 DEF Tell
  <2> QED
    BY <2>1, <2>2
<1> HIDE DEF W
<1>4. SendGame(w, g) \in W
  <2>1. PICK f \in [0 .. Len(list) -> W] : SendGame(w, g) = f[Len(list)]
    BY <1>1, <1>2, <1>3, SendGameGoes
  <2>2. Len(list) \in 0 .. Len(list)
    OBVIOUS
  <2> QED
    BY <2>1, <2>2
<1> QED
  BY <1>4 DEF W

\* u is w when m has left its game and nobody has been told yet.
Thinned(w, u, m) ==
  LET g == w.conns[m].game IN
  /\ Wired(u)
  /\ u.links = w.links /\ u.wire = w.wire /\ u.held = w.held /\ u.told = w.told /\ u.owed = w.owed
  /\ Placed(w, u, m, 0, w.conns[m].remote)
  /\ DOMAIN w.games \ {g} \subseteq DOMAIN u.games /\ DOMAIN u.games \subseteq DOMAIN w.games
  /\ \A i \in DOMAIN w.games \ {g} : u.games[i] = w.games[i]
  /\ g \in DOMAIN w.games \ DOMAIN u.games => ToSet(w.games[g].players) \subseteq {m}
  /\ g \in DOMAIN u.games => /\ u.games[g].players # <<>>
                             /\ ToSet(u.games[g].players) = ToSet(w.games[g].players) \ {m}
                             /\ IsInjective(w.games[g].players) => IsInjective(u.games[g].players)
                             /\ u.games[g].server = w.games[g].server

LEMMA LeaveGameIs ==
  ASSUME NEW w, Linked(w), NEW m \in DOMAIN w.conns
  PROVE  \E u : /\ Thinned(w, u, m)
                /\ LeaveGame(w, m) = IF w.conns[m].game \in DOMAIN u.games
                                       THEN SendGame(u, w.conns[m].game) ELSE u
<1> DEFINE g == w.conns[m].game
           k == w.games[g]
           out == InGame(w, m, 0)
           rest == Only(k.players, ToSet(k.players) \ {m})
           host == IF k.host = w.conns[m].user /\ Head(rest) \in DOMAIN w.conns
                   THEN w.conns[Head(rest)].user ELSE k.host
           n == Passed(k, rest, host)
<1>1. LeaveGame(w, m) =
        IF g \notin DOMAIN w.games THEN out
        ELSE IF rest = <<>> THEN Closed(out, g)
        ELSE SendGame([out EXCEPT !.games[g].players = rest, !.games[g].host = host], g)
  BY DEF LeaveGame, InGame, Closed
<1>2. w \in Worlds /\ Wired(w) /\ 0 \in 0 .. MaxGames
  BY ZeroIs DEF Linked, Wired
<1>3. ButConns(w, out) /\ Placed(w, out, m, 0, w.conns[m].remote)
  BY <1>2, InGameDoes
<1>4. out \in Worlds /\ Wired(out)
  BY <1>2, <1>3 DEF ButConns, Wired
<1> HIDE DEF out
<1>5. CASE g \notin DOMAIN w.games
  <2>1. LeaveGame(w, m) = out /\ g \notin DOMAIN out.games
    BY <1>1, <1>3, <1>5 DEF ButConns
  <2>2. Thinned(w, out, m)
    BY <1>3, <1>4, <1>5 DEF ButConns, Thinned
  <2> QED
    BY <2>1, <2>2
<1>6. ASSUME g \in DOMAIN w.games
      PROVE  /\ k \in Game /\ rest \in Seq(People) /\ ToSet(rest) = ToSet(k.players) \ {m}
             /\ IsInjective(k.players) => IsInjective(rest)
  <2>1. k \in Game
    BY <1>2, <1>6, WorldHas
  <2>2. k.players \in Seq(People)
    BY <2>1 DEF Game
  <2>3. PICK S : S = ToSet(k.players) \ {m}
    OBVIOUS
  <2>4. /\ Only(k.players, S) \in Seq(People)
        /\ ToSet(Only(k.players, S)) = ToSet(k.players) \cap S
        /\ IsInjective(k.players) => IsInjective(Only(k.players, S))
    BY <2>2, OnlyKeeps
  <2> QED
    BY <2>1, <2>3, <2>4
<1>7. CASE g \in DOMAIN w.games /\ rest = <<>>
  <2>1. PICK u : u = Closed(out, g)
    OBVIOUS
  <2>2. /\ ButGames(out, u) /\ DOMAIN u.games = DOMAIN out.games \ {g}
        /\ \A i \in DOMAIN u.games : u.games[i] = out.games[i]
    BY <1>4, <2>1, ClosedDoes
  <2>3. ToSet(k.players) \subseteq {m}
    <3>1. ToSet(<<>>) = {}
      BY DEF ToSet
    <3> QED
      BY <1>6, <1>7, <3>1
  <2> HIDE DEF k, rest
  <2>4. LeaveGame(w, m) = u
    BY <1>1, <1>7, <2>1
  <2>5. Wired(u)
    BY <1>4, <2>2 DEF ButGames, Wired
  <2>6. Thinned(w, u, m)
    BY <1>3, <1>7, <2>2, <2>3, <2>5 DEF ButConns, ButGames, Thinned, Placed, k
  <2> QED
    BY <2>2, <2>4, <2>6
<1>8. CASE g \in DOMAIN w.games /\ rest # <<>>
  <2>1. PICK u : u = PutGame(out, g, n)
    OBVIOUS
  <2>2. host \in Clients
    <3>1. k.host \in Clients
      BY <1>6, <1>8 DEF Game
    <3>2. \A x \in DOMAIN w.conns : w.conns[x].user \in Clients
      BY <1>2, WorldHas DEF Connection
    <3> HIDE DEF rest, k
    <3> QED
      BY <3>1, <3>2
  <2> HIDE DEF host
  <2>3. k \in Game /\ rest \in Seq(People)
    BY <1>6, <1>8
  <2> HIDE DEF rest
  <2>4. n \in Game /\ n.players = rest /\ n.server = k.server
    <3>1. PICK a, b, h, j : a = k /\ b = rest /\ h = host /\ j = Passed(a, b, h)
      OBVIOUS
    <3>2. j = n
      BY <3>1
    <3> HIDE DEF k, n
    <3>3. a \in Game /\ b \in Seq(People) /\ h \in Clients
      BY <2>2, <2>3, <3>1
    <3>4. j \in Game /\ j.players = b /\ j.server = a.server
      BY <3>1, <3>3, GamePassed
    <3> QED
      BY <3>1, <3>2, <3>4
  <2>5. out.games[g] = k /\ g \in DOMAIN out.games
    BY <1>3, <1>8 DEF ButConns
  <2>6. LeaveGame(w, m) = SendGame(u, g)
    <3>1. LeaveGame(w, m) = SendGame([out EXCEPT !.games[g].players = rest, !.games[g].host = host], g)
      BY <1>1, <1>8
    <3>2. [out EXCEPT !.games[g].players = rest, !.games[g].host = host] = PutGame(out, g, n)
      BY <2>5 DEF PutGame, Passed
    <3> QED
      BY <2>1, <3>1, <3>2
  <2> HIDE DEF n, k
  <2>7. /\ ButGames(out, u) /\ DOMAIN u.games = DOMAIN out.games /\ u.games[g] = n
        /\ \A i \in DOMAIN out.games \ {g} : u.games[i] = out.games[i]
    BY <1>4, <2>1, <2>4, <2>5, PutGameDoes
  <2>8. Wired(u)
    BY <1>4, <2>7 DEF ButGames, Wired
  <2>9. /\ ToSet(rest) = ToSet(w.games[g].players) \ {m} /\ n.server = w.games[g].server
        /\ IsInjective(w.games[g].players) => IsInjective(rest)
    BY <1>6, <1>8, <2>4 DEF k
  <2>10. Thinned(w, u, m)
    BY <1>3, <1>8, <2>4, <2>7, <2>8, <2>9 DEF ButConns, ButGames, Thinned, Placed
  <2> QED
    BY <1>8, <2>5, <2>6, <2>7, <2>10
<1> QED
  BY <1>5, <1>7, <1>8

-----------------------------------------------------------------------------
(* What every world keeps, whatever happens *)

\* A game's players are who says it is in it, and who plays elsewhere is in none.
Agree(w) ==
  /\ \A g \in DOMAIN w.games :
       /\ w.games[g].players # <<>>
       /\ IsInjective(w.games[g].players)
       /\ ToSet(w.games[g].players) = {m \in DOMAIN w.conns : w.conns[m].game = g}
  /\ \A m \in DOMAIN w.conns :
       /\ w.conns[m].game \in DOMAIN w.games \cup {0}
       /\ w.conns[m].remote # 0 => w.conns[m].game = 0

\* From w to v nobody came, went or changed links, no link changed, and nothing
\* was put on one to its host.
Stays(w, v) ==
  /\ Wired(v)
  /\ DOMAIN v.conns = DOMAIN w.conns
  /\ \A m \in DOMAIN w.conns : v.conns[m].user = w.conns[m].user /\ v.conns[m].remote = w.conns[m].remote
  /\ v.links = w.links /\ DOMAIN v.games \subseteq DOMAIN w.games /\ SameServers(w, v)
  /\ \A l \in DOMAIN w.links : /\ v.wire[l].out = w.wire[l].out
                               /\ ToSet(w.wire[l].back) \subseteq ToSet(v.wire[l].back)
  /\ \A c \in Clients : v.owed[c] \subseteq w.owed[c]

LEMMA StaysTwice ==
  ASSUME NEW w, NEW u, NEW v, Stays(w, u), Stays(u, v)
  PROVE  Stays(w, v)
  BY DEF Stays, SameServers

LEMMA StaysLinked ==
  ASSUME NEW w, NEW v, Linked(w), Stays(w, v)
  PROVE  Linked(v)
  BY DEF Stays, Linked

LEMMA SaidStays ==
  ASSUME NEW w, NEW v, Said(w, v)
  PROVE  Stays(w, v) /\ (Agree(w) => Agree(v))
<1>1. Stays(w, v)
  BY DEF Said, Stays, SameServers
<1>2. v.conns = w.conns /\ v.games = w.games
  BY DEF Said
<1>3. Agree(w) => Agree(v)
  BY <1>2 DEF Agree
<1> QED
  BY <1>1, <1>3

\* m left its game, and the others in it were told.
Left(w, v, m) ==
  LET g == w.conns[m].game IN
  /\ Stays(w, v)
  /\ v.held = w.held
  /\ v.conns[m].game = 0
  /\ \A x \in DOMAIN w.conns \ {m} : v.conns[x] = w.conns[x]
  /\ DOMAIN w.games \ {g} \subseteq DOMAIN v.games /\ DOMAIN v.games \subseteq DOMAIN w.games
  /\ \A i \in DOMAIN w.games \ {g} : v.games[i] = w.games[i]
  /\ g \in DOMAIN w.games \ DOMAIN v.games => ToSet(w.games[g].players) \subseteq {m}
  /\ g \in DOMAIN v.games => /\ v.games[g].players # <<>>
                             /\ ToSet(v.games[g].players) = ToSet(w.games[g].players) \ {m}
                             /\ IsInjective(w.games[g].players) => IsInjective(v.games[g].players)
                             /\ v.games[g].server = w.games[g].server

LEMMA LeaveGameDoes ==
  ASSUME NEW w, Linked(w), NEW m \in DOMAIN w.conns
  PROVE  Left(w, LeaveGame(w, m), m)
<1> DEFINE g == w.conns[m].game
<1>1. PICK u : /\ Thinned(w, u, m)
               /\ LeaveGame(w, m) = IF g \in DOMAIN u.games THEN SendGame(u, g) ELSE u
  BY LeaveGameIs
<1>2. PICK v : v = LeaveGame(w, m)
  OBVIOUS
<1>3. Linked(u)
  BY <1>1 DEF Thinned, Placed, Linked
<1>4. Said(u, v)
  <2>1. CASE g \in DOMAIN u.games
    BY <1>1, <1>2, <1>3, <2>1, SendGameDoes
  <2>2. CASE g \notin DOMAIN u.games
    BY <1>1, <1>2, <1>3, <2>2, SaidNothing DEF Linked
  <2> QED
    BY <2>1, <2>2
<1>5. Stays(w, v)
  BY <1>1, <1>4 DEF Thinned, Placed, Said, Stays, SameServers
<1>6. v.conns = u.conns /\ v.games = u.games /\ v.held = u.held
  BY <1>4 DEF Said
<1>7. Left(w, v, m)
  BY <1>1, <1>5, <1>6 DEF Thinned, Placed, Left
<1> QED
  BY <1>2, <1>7

LEMMA LeftAgrees ==
  ASSUME NEW w, NEW v, NEW m \in DOMAIN w.conns, Linked(w), Left(w, v, m), Agree(w)
  PROVE  Agree(v)
<1> DEFINE g == w.conns[m].game
<1>1. /\ DOMAIN v.conns = DOMAIN w.conns /\ v.conns[m].game = 0
      /\ v.conns[m].remote = w.conns[m].remote
      /\ \A x \in DOMAIN w.conns \ {m} : v.conns[x] = w.conns[x]
  BY DEF Left, Stays
<1>2. ASSUME NEW i \in DOMAIN v.games
      PROVE  /\ v.games[i].players # <<>>
             /\ IsInjective(v.games[i].players)
             /\ ToSet(v.games[i].players) = {x \in DOMAIN v.conns : v.conns[x].game = i}
  <2>1. i \in DOMAIN w.games
    BY DEF Left
  <2>2. /\ w.games[i].players # <<>> /\ IsInjective(w.games[i].players)
        /\ ToSet(w.games[i].players) = {x \in DOMAIN w.conns : w.conns[x].game = i}
    BY <2>1 DEF Agree
  <2>3. i # 0
    <3>1. i \in 1 .. MaxGames
      BY <2>1, WorldHas DEF Linked, Wired
    <3> QED
      BY <3>1
  <2>4. CASE i = g
    <3>1. /\ v.games[i].players # <<>> /\ IsInjective(v.games[i].players)
          /\ ToSet(v.games[i].players) = ToSet(w.games[i].players) \ {m}
      BY <2>1, <2>2, <2>4 DEF Left
    <3> QED
      BY <1>1, <2>2, <2>3, <3>1
  <2>5. CASE i # g
    <3>1. v.games[i] = w.games[i]
      BY <2>1, <2>5 DEF Left
    <3> QED
      BY <1>1, <2>2, <2>3, <2>5, <3>1
  <2> QED
    BY <2>4, <2>5
<1>3. ASSUME NEW x \in DOMAIN v.conns
      PROVE  /\ v.conns[x].game \in DOMAIN v.games \cup {0}
             /\ v.conns[x].remote # 0 => v.conns[x].game = 0
  <2>1. CASE x = m
    BY <1>1, <2>1
  <2>2. CASE x # m
    <3>1. x \in DOMAIN w.conns /\ v.conns[x] = w.conns[x]
      BY <1>1, <2>2
    <3>2. /\ w.conns[x].game \in DOMAIN w.games \cup {0}
          /\ w.conns[x].remote # 0 => w.conns[x].game = 0
      BY <3>1 DEF Agree
    <3>3. w.conns[x].game = g /\ g \in DOMAIN w.games => x \in ToSet(w.games[g].players)
      BY <3>1 DEF Agree
    <3>4. g \in DOMAIN w.games \ DOMAIN v.games => x \notin ToSet(w.games[g].players)
      BY <2>2 DEF Left
    <3>5. DOMAIN w.games \ {g} \subseteq DOMAIN v.games
      BY DEF Left
    <3> QED
      BY <3>1, <3>2, <3>3, <3>4, <3>5
  <2> QED
    BY <2>1, <2>2
<1> QED
  BY <1>2, <1>3 DEF Agree

\* From w to v those in S went, and otherwise all stayed as it was.
Loses(w, v, S) ==
  /\ Wired(v)
  /\ DOMAIN v.conns = DOMAIN w.conns \ S
  /\ \A m \in DOMAIN v.conns : v.conns[m].user = w.conns[m].user /\ v.conns[m].remote = w.conns[m].remote
  /\ v.links = w.links /\ DOMAIN v.games \subseteq DOMAIN w.games /\ SameServers(w, v)
  /\ \A l \in DOMAIN w.links : /\ v.wire[l].out = w.wire[l].out
                               /\ ToSet(w.wire[l].back) \subseteq ToSet(v.wire[l].back)
  /\ \A c \in Clients : v.owed[c] \subseteq w.owed[c]

LEMMA LosesLinked ==
  ASSUME NEW w, NEW v, NEW S, Linked(w), Loses(w, v, S)
  PROVE  Linked(v)
  BY DEF Loses, Linked

LEMMA GoneAgrees ==
  ASSUME NEW w, NEW v, NEW m, Linked(w), Agree(w), v = Gone(w, m),
         m \in DOMAIN w.conns => w.conns[m].game = 0
  PROVE  Loses(w, v, {m}) /\ Linked(v) /\ Agree(v) /\ v.held = w.held
         /\ v.games = w.games /\ \A x \in DOMAIN v.conns : v.conns[x] = w.conns[x]
<1>1. w \in Worlds
  BY DEF Linked, Wired
<1>2. /\ ButConns(w, v) /\ DOMAIN v.conns = DOMAIN w.conns \ {m}
      /\ \A x \in DOMAIN v.conns : v.conns[x] = w.conns[x]
  BY <1>1, GoneDoes
<1>3. Loses(w, v, {m})
  BY <1>2 DEF Linked, Wired, ButConns, Loses, SameServers
<1>4. \A i \in DOMAIN w.games : i # 0
  BY <1>1, WorldHas
<1>5. Agree(v)
  BY <1>2, <1>4 DEF Agree, ButConns
<1> QED
  BY <1>2, <1>3, <1>5, LosesLinked DEF ButConns

LEMMA StaysLoses ==
  ASSUME NEW w, NEW u, NEW v, NEW S, Stays(w, u), Loses(u, v, S)
  PROVE  Loses(w, v, S)
  BY DEF Stays, Loses, SameServers

LEMMA RemovePlayerDoes ==
  ASSUME NEW w, NEW m, Linked(w), Agree(w)
  PROVE  LET v == RemovePlayer(w, m) IN Loses(w, v, {m}) /\ Linked(v) /\ Agree(v) /\ v.held = w.held
<1> SUFFICES ASSUME m \in DOMAIN w.conns
             PROVE  LET v == RemovePlayer(w, m) IN Loses(w, v, {m}) /\ Linked(v) /\ Agree(v) /\ v.held = w.held
  <2>1. CASE m \notin DOMAIN w.conns
    <3>1. RemovePlayer(w, m) = w
      BY <2>1 DEF RemovePlayer
    <3>2. Loses(w, w, {m})
      BY <2>1 DEF Loses, Linked, SameServers
    <3> QED
      BY <3>1, <3>2
  <2> QED
    BY <2>1
<1>1. PICK u, v : u = LeaveGame(w, m) /\ v = Gone(u, m)
  OBVIOUS
<1>2. v = RemovePlayer(w, m)
  BY <1>1 DEF RemovePlayer, Gone
<1>3. Left(w, u, m)
  BY <1>1, LeaveGameDoes
<1>4. Agree(u) /\ Linked(u) /\ Stays(w, u) /\ u.conns[m].game = 0 /\ u.held = w.held
  BY <1>3, LeftAgrees, StaysLinked DEF Left
<1>5. Loses(u, v, {m}) /\ Linked(v) /\ Agree(v) /\ v.held = u.held
  BY <1>1, <1>4, GoneAgrees
<1> QED
  BY <1>2, <1>4, <1>5, StaysLoses

-----------------------------------------------------------------------------
(* The client's end of a link *)

\* x was put on link l to its host, unless l is none or broken.
Puts(w, v, l, x) ==
  \A k \in DOMAIN w.links :
    v.wire[k].out = IF k = l /\ ~ w.links[k].broken THEN Append(w.wire[k].out, x) ELSE w.wire[k].out

\* What a handler at the client's end leaves alone, m's own link and debts apart.
OwnEnd(w, v, m) ==
  /\ v.games = w.games /\ v.links = w.links /\ v.held = w.held /\ v.told = w.told
  /\ \A k \in DOMAIN w.links : v.wire[k].back = w.wire[k].back
  /\ \A c \in Clients \ {m} : v.owed[c] = w.owed[c]

Xlea(w, m) ==
  [kind |-> "xlea", id |-> IdOf(m), user |-> w.conns[m].user, req |-> [kind |-> "", arg |-> 0]]
Xfwd(w, m, req) == [kind |-> "xfwd", id |-> IdOf(m), user |-> w.conns[m].user, req |-> req]
Xjoi(w, m, req) == [kind |-> "xjoi", id |-> IdOf(m), user |-> w.conns[m].user, req |-> req]

LEMMA MessagesAre ==
  ASSUME NEW w \in Worlds, NEW m \in DOMAIN w.conns
  PROVE  /\ Xlea(w, m) \in Message
         /\ \A req \in Requests : Xfwd(w, m, req) \in Message /\ Xjoi(w, m, req) \in Message
<1>1. IdOf(m) \in Ids /\ w.conns[m].user \in Clients
  BY WorldHas, PeopleAre DEF Connection
<1>2. [kind |-> "", arg |-> 0] \in Requests
  BY ZeroIs DEF Requests
<1> QED
  BY <1>1, <1>2 DEF Xlea, Xfwd, Xjoi, Message

LEMMA OwesDoes ==
  ASSUME NEW w \in Worlds, NEW m, NEW D, m \in Clients => D \in Owed
  PROVE  LET v == Owes(w, m, D) IN
         /\ ButOwed(w, v)
         /\ \A c \in Clients : v.owed[c] = IF c = m THEN D ELSE w.owed[c]
<1>1. CASE m \in Clients
  <2> DEFINE o == [w.owed EXCEPT ![m] = D]
  <2>1. w.owed \in [Clients -> Owed]
    BY WorldHas
  <2>2. /\ o \in [Clients -> Owed]
        /\ \A c \in Clients : o[c] = IF c = m THEN D ELSE w.owed[c]
    BY <1>1, <2>1
  <2>3. Owes(w, m, D) = [w EXCEPT !.owed = o]
    BY <1>1 DEF Owes
  <2> HIDE DEF o
  <2> QED
    BY <2>2, <2>3, SetOwed
<1>2. CASE m \notin Clients
  BY <1>2 DEF Owes, ButOwed
<1> QED
  BY <1>1, <1>2

LEMMA DropRemoteDoes ==
  ASSUME NEW w, NEW m \in DOMAIN w.conns, Linked(w)
  PROVE  LET v == DropRemote(w, m) IN
         /\ Linked(v) /\ OwnEnd(w, v, m)
         /\ Placed(w, v, m, w.conns[m].game, 0)
         /\ Puts(w, v, w.conns[m].remote, Xlea(w, m))
         /\ m \in Clients => v.owed[m] = {}
<1> DEFINE l == w.conns[m].remote
           left == IF l = 0 THEN w ELSE Put(w, l, "out", Xlea(w, m))
           off == OnLink(left, m, 0)
           v == Owes(off, m, {})
<1>1. DropRemote(w, m) = v
  BY DEF DropRemote, Xlea, OnLink
<1>2. w \in Worlds /\ Wired(w) /\ l \in DOMAIN w.links \cup {0}
  BY DEF Linked, Wired
<1>3. ButWire(w, left) /\ Wired(left) /\ Puts(w, left, l, Xlea(w, m))
      /\ \A k \in DOMAIN w.links : left.wire[k].back = w.wire[k].back
  <2>1. CASE l = 0
    <3>1. 0 \notin DOMAIN w.links
      BY <1>2, WiredHas
    <3>2. left = w
      BY <2>1
    <3> HIDE DEF left
    <3> QED
      BY <1>2, <2>1, <3>1, <3>2 DEF ButWire, Puts
  <2>2. CASE l # 0
    <3>1. Xlea(w, m) \in Message
      BY <1>2, MessagesAre
    <3>2. PICK x : x = Xlea(w, m)
      OBVIOUS
    <3>3. left = Put(w, l, "out", x) /\ l \in DOMAIN w.links
      BY <1>2, <2>2, <3>2
    <3> HIDE DEF left, l
    <3>4. PutOut(w, left, l, x)
      BY <1>2, <3>1, <3>2, <3>3, PutDoes
    <3> QED
      BY <3>2, <3>4 DEF PutOut, Puts
  <2> QED
    BY <2>1, <2>2
<1> HIDE DEF left
<1>4. ButConns(left, off) /\ Placed(left, off, m, left.conns[m].game, 0)
  BY <1>3, OnLinkDoes, ZeroIs DEF ButWire
<1> HIDE DEF off
<1>5. ButOwed(off, v) /\ \A c \in Clients : v.owed[c] = IF c = m THEN {} ELSE off.owed[c]
  <2>1. {} \in Owed /\ off \in Worlds
    BY <1>4 DEF Owed, ButConns
  <2> QED
    BY <2>1, OwesDoes
<1> HIDE DEF v
<1>6. Placed(w, v, m, w.conns[m].game, 0)
  BY <1>3, <1>4, <1>5 DEF ButWire, ButOwed, Placed
<1>7. Wired(v) /\ v.wire = left.wire /\ v.links = w.links
  BY <1>3, <1>4, <1>5 DEF ButWire, ButConns, ButOwed, Wired
<1>8. Linked(v)
  BY <1>6, <1>7 DEF Linked, Placed
<1>9. OwnEnd(w, v, m)
  BY <1>3, <1>4, <1>5, <1>7 DEF OwnEnd, ButWire, ButConns, ButOwed
<1>10. Puts(w, v, l, Xlea(w, m))
  BY <1>3, <1>7 DEF Puts
<1> QED
  BY <1>1, <1>5, <1>6, <1>8, <1>9, <1>10

LEMMA AnswersAre ==
  ASSUME NEW req
  PROVE  Answers(req) \in {"join", "play", "leave"}
  BY DEF Answers

LEMMA ForwardToHostDoes ==
  ASSUME NEW w, NEW m \in DOMAIN w.conns, Linked(w), w.conns[m].remote # 0, NEW req \in Requests
  PROVE  LET v == ForwardToHost(w, m, req) IN
         /\ Linked(v) /\ OwnEnd(w, v, m) /\ v.conns = w.conns
         /\ Puts(w, v, w.conns[m].remote, Xfwd(w, m, req))
         /\ m \in Clients => v.owed[m] = w.owed[m] \cup {Answers(req)}
<1> DEFINE l == w.conns[m].remote
           x == Xfwd(w, m, req)
           put == Put(w, l, "out", x)
           D == w.owed[m] \cup {Answers(req)}
           v == Owes(put, m, D)
<1>1. ForwardToHost(w, m, req) = v
  BY DEF ForwardToHost, Xfwd
<1>2. w \in Worlds /\ Wired(w) /\ l \in DOMAIN w.links
  BY DEF Linked, Wired
<1>3. x \in Message
  BY <1>2, MessagesAre
<1> HIDE DEF x
<1>4. PutOut(w, put, l, x)
  <2> HIDE DEF l
  <2> QED
    BY <1>2, <1>3, PutDoes
<1> HIDE DEF put
<1>5. m \in Clients => D \in Owed
  BY <1>2, AnswersAre, WorldHas DEF Owed
<1>6. ButOwed(put, v) /\ \A c \in Clients : v.owed[c] = IF c = m THEN D ELSE put.owed[c]
  <2> HIDE DEF D
  <2> QED
    BY <1>4, <1>5, OwesDoes DEF PutOut, ButWire
<1> HIDE DEF v
<1>7. v.conns = w.conns /\ v.links = w.links /\ v.wire = put.wire /\ Wired(v)
  BY <1>4, <1>6 DEF PutOut, ButWire, ButOwed, Wired
<1>8. Linked(v)
  BY <1>7 DEF Linked
<1>9. OwnEnd(w, v, m)
  BY <1>4, <1>6, <1>7 DEF PutOut, ButWire, ButOwed, OwnEnd
<1>10. Puts(w, v, l, x)
  BY <1>4, <1>7 DEF PutOut, Puts
<1> QED
  BY <1>1, <1>6, <1>7, <1>8, <1>9, <1>10 DEF x

NewLink(s, t) == [from |-> s, to |-> t, ends |-> [e \in {s, t} |-> "up"], broken |-> FALSE]

\* v is w with, it may be, another link from s to t.
Grown(w, v, s, t) ==
  /\ Wired(v)
  /\ v.conns = w.conns /\ v.games = w.games /\ v.held = w.held /\ v.told = w.told /\ v.owed = w.owed
  /\ DOMAIN w.links \subseteq DOMAIN v.links
  /\ \A l \in DOMAIN w.links : v.links[l] = w.links[l] /\ v.wire[l] = w.wire[l]
  /\ \A l \in DOMAIN v.links \ DOMAIN w.links :
       v.links[l] = NewLink(s, t) /\ v.wire[l] = [out |-> <<>>, back |-> <<>>]

LEMMA LinkToDoes ==
  ASSUME NEW w, Wired(w), NEW s \in Servers, NEW t \in Servers, NEW reachable,
         CanLink(w, s, t, reachable)
  PROVE  LET v == LinkTo(w, s, t) IN
         /\ Grown(w, v, s, t)
         /\ LinksTo(v, s, t) # {}
         /\ v = w \/ s # t
<1> DEFINE v == LinkTo(w, s, t)
           new == NewLink(s, t)
           none == [out |-> <<>>, back |-> <<>>]
           u == [w EXCEPT !.links = Append(@, new)]
           x == [u EXCEPT !.wire = Append(@, none)]
<1>1. CASE LinksTo(w, s, t) # {}
  <2>1. v = w
    BY <1>1 DEF LinkTo
  <2>2. Grown(w, w, s, t)
    BY DEF Grown
  <2> QED
    BY <1>1, <2>1, <2>2
<1>2. CASE LinksTo(w, s, t) = {}
  <2>1. s # t /\ Len(w.links) < MaxLinks
    BY <1>2 DEF CanLink
  <2>2. v = x
    BY <1>2 DEF LinkTo, NewLink
  <2>3. w \in Worlds /\ w.links \in Seq(Link) /\ w.wire \in Seq(Wire) /\ Len(w.wire) = Len(w.links) /\ MaxLinks \in Nat
    BY WorldHas, BoundsAssumption DEF Wired
  <2>4. new \in Link
    <3>1. PICK e : e = [y \in {s, t} |-> "up"]
      OBVIOUS
    <3>2. e \in [{s, t} -> {"up", "closed", "gone"}] /\ {s, t} \in SUBSET Servers /\ DOMAIN e = {s, t}
      BY <3>1
    <3>3. e \in Ends
      BY <3>2 DEF Ends
    <3>4. new = [from |-> s, to |-> t, ends |-> e, broken |-> FALSE]
      BY <3>1 DEF NewLink
    <3> QED
      BY <3>2, <3>3, <3>4 DEF Link
  <2>5. none \in Wire
    BY DEF Wire
  <2>6. PICK k : k = Append(w.links, new)
    OBVIOUS
  <2> HIDE DEF none, new
  <2>7. /\ k \in Seq(Link) /\ Len(k) = Len(w.links) + 1 /\ k[Len(k)] = new
        /\ \A l \in DOMAIN w.links : k[l] = w.links[l]
    BY <2>3, <2>4, <2>6
  <2>8. ButLinks(w, u) /\ u.links = k
    BY <2>3, <2>6, <2>7, SetLinks
  <2>9. PICK r : r = Append(w.wire, none)
    OBVIOUS
  <2>10. /\ r \in Seq(Wire) /\ Len(r) = Len(w.wire) + 1 /\ r[Len(r)] = none
         /\ \A l \in DOMAIN w.wire : r[l] = w.wire[l]
    BY <2>3, <2>5, <2>9
  <2>11. u \in Worlds /\ u.wire = w.wire
    BY <2>8 DEF ButLinks
  <2> HIDE DEF u
  <2>12. ButWire(u, x) /\ x.wire = r
    <3>1. x = [u EXCEPT !.wire = r]
      BY <2>9, <2>11
    <3> HIDE DEF x
    <3> QED
      BY <2>10, <2>11, <3>1, SetWire
  <2> HIDE DEF x
  <2>13. Wired(x) /\ x.links = k /\ x.wire = r
    BY <2>1, <2>3, <2>7, <2>8, <2>10, <2>12 DEF ButWire, Wired
  <2>14. DOMAIN w.links = 1 .. Len(w.links) /\ DOMAIN k = 1 .. Len(w.links) + 1 /\ DOMAIN w.wire = DOMAIN w.links
    BY <2>3, <2>7
  <2>15. \A l \in DOMAIN k \ DOMAIN w.links : l = Len(k) /\ l = Len(r)
    BY <2>3, <2>7, <2>10, <2>14
  <2>16. Grown(w, x, s, t)
    BY <2>7, <2>8, <2>10, <2>12, <2>13, <2>14, <2>15 DEF ButLinks, ButWire, Grown, none, new
  <2>17. LinksTo(x, s, t) # {}
    <3>1. Len(k) \in DOMAIN x.links /\ x.links[Len(k)] = NewLink(s, t)
      BY <2>3, <2>7, <2>13, <2>14 DEF new
    <3>2. x.links[Len(k)].from = s /\ x.links[Len(k)].to = t /\ x.links[Len(k)].ends[s] = "up"
      BY <3>1 DEF NewLink
    <3> QED
      BY <3>1, <3>2 DEF LinksTo
  <2> QED
    BY <2>1, <2>2, <2>16, <2>17
<1> QED
  BY <1>1, <1>2

\* What is on its way on link l, to the host; on one there is none of yet, nothing.
OutOf(w, l) == IF l \in DOMAIN w.links THEN w.wire[l].out ELSE <<>>

\* m joined the game of t through link l, which is there or was opened.
Joined(w, v, m, t, l, req) ==
  LET s == ServerOf(w, m) IN
  /\ Wired(v)
  /\ DOMAIN v.conns = DOMAIN w.conns
  /\ \A x \in DOMAIN w.conns : v.conns[x].user = w.conns[x].user
  /\ \A x \in DOMAIN w.conns \ {m} : v.conns[x].remote = w.conns[x].remote
  /\ v.conns[m].remote = l /\ v.conns[m].game = 0
  /\ DOMAIN v.games \subseteq DOMAIN w.games /\ SameServers(w, v)
  /\ DOMAIN w.links \subseteq DOMAIN v.links
  /\ \A k \in DOMAIN w.links : /\ v.links[k] = w.links[k]
                               /\ ToSet(w.wire[k].back) \subseteq ToSet(v.wire[k].back)
  /\ \A k \in DOMAIN v.links \ DOMAIN w.links : v.links[k] = NewLink(s, t) /\ s # t
  /\ l \in DOMAIN v.links /\ v.links[l].from = s /\ v.links[l].to = t /\ v.links[l].ends[s] = "up"
  /\ \A k \in DOMAIN v.links :
       v.wire[k].out = IF k = l /\ ~ v.links[k].broken THEN Append(OutOf(w, k), Xjoi(w, m, req))
                                                       ELSE OutOf(w, k)
  /\ \A c \in Clients : v.owed[c] \subseteq IF c = m THEN {"join"} ELSE w.owed[c]

LEMMA JoinRemoteDoes ==
  ASSUME NEW w, NEW m \in DOMAIN w.conns, Linked(w), Agree(w), w.conns[m].remote = 0,
         ServerOf(w, m) \in Servers, NEW t \in Servers, NEW reachable,
         CanLink(w, ServerOf(w, m), t, reachable), NEW req \in Requests
  PROVE  LET v == JoinRemote(w, m, t, req) IN
         /\ Linked(v) /\ Agree(v) /\ v.held = w.held
         /\ \E l : Joined(w, v, m, t, l, req)
<1> DEFINE s == ServerOf(w, m)
           linked == LinkTo(w, s, t)
           l == CHOOSE k \in LinksTo(linked, s, t) : TRUE
           dropped == DropRemote(linked, m)
           out == LeaveGame(dropped, m)
           left == OnLink(out, m, l)
           x == Xjoi(w, m, req)
           asked == Put(left, l, "out", x)
           v == Owes(asked, m, {"join"})
<1>1. JoinRemote(w, m, t, req) = v
  BY DEF JoinRemote, Xjoi, OnLink
<1>2. Grown(w, linked, s, t) /\ LinksTo(linked, s, t) # {} /\ (linked = w \/ s # t)
  <2>1. s \in Servers /\ CanLink(w, s, t, reachable) /\ Wired(w)
    BY DEF Linked
  <2> HIDE DEF s
  <2> QED
    BY <2>1, LinkToDoes
<1>3. Linked(linked) /\ Agree(linked)
  BY <1>2 DEF Grown, Linked, Agree
<1>4. /\ l \in DOMAIN linked.links /\ linked.links[l].from = s /\ linked.links[l].to = t
      /\ linked.links[l].ends[s] = "up"
  <2>1. l \in LinksTo(linked, s, t)
    BY <1>2
  <2> HIDE DEF l
  <2> QED
    BY <2>1 DEF LinksTo
<1>5. \A k \in DOMAIN linked.links : /\ linked.wire[k].out = OutOf(w, k)
                                     /\ k \in DOMAIN w.links => linked.links[k] = w.links[k] /\ linked.wire[k] = w.wire[k]
                                     /\ k \notin DOMAIN w.links => linked.links[k] = NewLink(s, t) /\ s # t
  BY <1>2 DEF Grown, OutOf
<1>6. linked.conns = w.conns /\ linked.owed = w.owed /\ linked.held = w.held /\ DOMAIN w.links \subseteq DOMAIN linked.links
  BY <1>2 DEF Grown
<1> HIDE DEF linked, s, l
<1>7. /\ Linked(dropped) /\ OwnEnd(linked, dropped, m)
      /\ Placed(linked, dropped, m, linked.conns[m].game, 0)
      /\ Puts(linked, dropped, 0, Xlea(linked, m))
      /\ m \in Clients => dropped.owed[m] = {}
  <2>1. m \in DOMAIN linked.conns /\ linked.conns[m].remote = 0
    BY <1>6
  <2> QED
    BY <1>3, <2>1, DropRemoteDoes
<1> HIDE DEF dropped
<1>8. \A k \in DOMAIN linked.links : k # 0
  BY <1>3, WiredHas DEF Linked
<1>9. \A k \in DOMAIN linked.links : dropped.wire[k].out = linked.wire[k].out /\ dropped.wire[k].back = linked.wire[k].back
  BY <1>7, <1>8 DEF Puts, OwnEnd
<1>10. Agree(dropped)
  BY <1>3, <1>6, <1>7 DEF Agree, Placed, OwnEnd
<1>11. Left(dropped, out, m)
  BY <1>6, <1>7, LeaveGameDoes DEF Placed
<1>12. Agree(out) /\ Linked(out) /\ Stays(dropped, out) /\ out.conns[m].game = 0 /\ out.held = dropped.held
  <2>1. m \in DOMAIN dropped.conns
    BY <1>6, <1>7 DEF Placed
  <2> QED
    BY <1>7, <1>10, <1>11, <2>1, LeftAgrees, StaysLinked DEF Left
<1> HIDE DEF out
<1>13. out.links = linked.links /\ m \in DOMAIN out.conns /\ out \in Worlds
  BY <1>6, <1>7, <1>12 DEF OwnEnd, Placed, Stays, Linked, Wired
<1>14. ButConns(out, left) /\ Placed(out, left, m, 0, l)
  <2>1. l \in 0 .. MaxLinks
    <3>1. l \in 1 .. MaxLinks
      BY <1>3, <1>4, WiredHas DEF Linked
    <3> QED
      BY <3>1
  <2> QED
    BY <1>12, <1>13, <2>1, OnLinkDoes
<1> HIDE DEF left
<1>15. Wired(left) /\ l \in DOMAIN left.links
  BY <1>4, <1>12, <1>13, <1>14 DEF ButConns, Linked, Wired
<1>16. PutOut(left, asked, l, x)
  <2>1. x \in Message
    BY MessagesAre DEF Linked, Wired
  <2> HIDE DEF x
  <2> QED
    BY <1>15, <2>1, PutDoes
<1> HIDE DEF asked, x
<1>17. ButOwed(asked, v) /\ \A c \in Clients : v.owed[c] = IF c = m THEN {"join"} ELSE asked.owed[c]
  BY <1>16, OwesDoes DEF PutOut, ButWire, Owed
<1> HIDE DEF v
<1>18. v.conns = left.conns /\ v.links = linked.links /\ v.games = out.games /\ v.wire = asked.wire /\ v.held = w.held
       /\ left.wire = out.wire /\ left.links = linked.links /\ left.owed = out.owed /\ asked.owed = out.owed
  BY <1>6, <1>7, <1>12, <1>13, <1>14, <1>16, <1>17 DEF ButConns, PutOut, ButWire, ButOwed, OwnEnd
<1>19. Wired(v)
  BY <1>16, <1>17 DEF PutOut, ButOwed, Wired
<1>20. DOMAIN v.conns = DOMAIN w.conns
  BY <1>6, <1>7, <1>12, <1>14, <1>18 DEF Placed, Stays
<1>21. /\ \A y \in DOMAIN w.conns : v.conns[y].user = w.conns[y].user
       /\ \A y \in DOMAIN w.conns \ {m} : v.conns[y].remote = w.conns[y].remote
       /\ v.conns[m].remote = l /\ v.conns[m].game = 0
  BY <1>6, <1>7, <1>12, <1>14, <1>18 DEF Placed, Stays
<1>22. \A k \in DOMAIN v.links :
         v.wire[k].out = IF k = l /\ ~ v.links[k].broken THEN Append(OutOf(w, k), x) ELSE OutOf(w, k)
  <2>1. DOMAIN dropped.links = DOMAIN linked.links
    BY <1>7 DEF OwnEnd
  <2>2. \A k \in DOMAIN linked.links : left.wire[k].out = OutOf(w, k)
    BY <1>5, <1>9, <1>12, <1>18, <2>1 DEF Stays
  <2> QED
    BY <1>16, <1>18, <2>2 DEF PutOut
<1>23. \A k \in DOMAIN w.links : ToSet(w.wire[k].back) \subseteq ToSet(v.wire[k].back)
  <2>1. ASSUME NEW k \in DOMAIN w.links PROVE ToSet(w.wire[k].back) \subseteq ToSet(v.wire[k].back)
    <3>1. k \in DOMAIN linked.links /\ k \in DOMAIN dropped.links /\ k \in DOMAIN left.links
      BY <1>6, <1>7, <1>18 DEF OwnEnd
    <3>2. v.wire[k].back = left.wire[k].back
      BY <1>16, <1>18, <3>1 DEF PutOut
    <3>3. dropped.wire[k].back = w.wire[k].back
      BY <1>5, <1>9, <3>1
    <3> QED
      BY <1>12, <1>18, <3>1, <3>2, <3>3 DEF Stays
  <2> QED
    BY <2>1
<1>24. \A c \in Clients : v.owed[c] \subseteq IF c = m THEN {"join"} ELSE w.owed[c]
  BY <1>6, <1>7, <1>12, <1>17, <1>18 DEF OwnEnd, Stays
<1>25. Joined(w, v, m, t, l, req)
  <2>1. DOMAIN w.links \subseteq DOMAIN v.links /\ \A k \in DOMAIN w.links : v.links[k] = w.links[k]
    BY <1>5, <1>6, <1>18
  <2>2. \A k \in DOMAIN v.links \ DOMAIN w.links : v.links[k] = NewLink(s, t) /\ s # t
    BY <1>5, <1>18
  <2>3. l \in DOMAIN v.links /\ v.links[l].from = s /\ v.links[l].to = t /\ v.links[l].ends[s] = "up"
    BY <1>4, <1>18
  <2>4. s = ServerOf(w, m) /\ x = Xjoi(w, m, req)
    BY DEF s, x
  <2>5. DOMAIN v.games \subseteq DOMAIN w.games /\ SameServers(w, v)
    BY <1>2, <1>7, <1>12, <1>18 DEF Grown, OwnEnd, Stays, SameServers
  <2> QED
    BY <1>19, <1>20, <1>21, <1>22, <1>23, <1>24, <2>1, <2>2, <2>3, <2>4, <2>5 DEF Joined
<1>26. Linked(v)
  <2>1. \A y \in DOMAIN w.conns : w.conns[y].remote \in DOMAIN w.links \cup {0}
    BY DEF Linked
  <2>2. \A y \in DOMAIN w.conns \ Clients : y[1] \in DOMAIN w.links
    BY DEF Linked
  <2> QED
    BY <1>4, <1>6, <1>18, <1>19, <1>20, <1>21, <2>1, <2>2 DEF Linked
<1>27. Agree(v)
  BY <1>12, <1>14, <1>18 DEF Agree, Placed
<1> QED
  BY <1>1, <1>18, <1>25, <1>26, <1>27

-----------------------------------------------------------------------------
(* What a player does where it plays *)

\* A handler that leaves everyone where they were.
AtHome(w, v) == Stays(w, v) /\ Linked(v) /\ Agree(v)

LEMMA AtHomeTwice ==
  ASSUME NEW w, NEW u, NEW v, AtHome(w, u), AtHome(u, v)
  PROVE  AtHome(w, v)
  BY StaysTwice DEF AtHome

LEMMA SaidIsAtHome ==
  ASSUME NEW w, NEW v, Linked(w), Agree(w), Said(w, v)
  PROVE  AtHome(w, v)
  BY SaidStays, SaidLinked DEF AtHome

\* Such a handler that has answered m.
Serves(w, v, m, a) == AtHome(w, v) /\ Replied(v, m, a)

LEMMA ServesStill ==
  ASSUME NEW w, NEW u, NEW v, NEW m \in DOMAIN w.conns, NEW a, Linked(w), Serves(w, u, m, a), AtHome(u, v)
  PROVE  Serves(w, v, m, a)
<1>1. AtHome(w, v)
  BY AtHomeTwice DEF Serves
<1>2. m \notin Clients => m[1] \in DOMAIN u.links
  BY DEF Serves, AtHome, Stays, Linked
<1>3. Replied(v, m, a)
  BY <1>2 DEF Serves, Replied, AtHome, Stays
<1> QED
  BY <1>1, <1>3 DEF Serves

LEMMA ServesLater ==
  ASSUME NEW w, NEW u, NEW v, NEW m, NEW a, AtHome(w, u), Serves(u, v, m, a)
  PROVE  Serves(w, v, m, a)
  BY AtHomeTwice DEF Serves

LEMMA SendIsAtHome ==
  ASSUME NEW w, Linked(w), Agree(w), NEW m \in DOMAIN w.conns,
         NEW a \in {"join", "play", "leave", "push"}, NEW r \in Records
  PROVE  AtHome(w, Send(w, m, a, r)) /\ Said(w, Send(w, m, a, r)) /\ Serves(w, Send(w, m, a, r), m, a)
<1>1. PICK v : v = Send(w, m, a, r)
  OBVIOUS
<1>2. Said(w, v) /\ Replied(v, m, a)
  BY <1>1, SendDoes
<1> QED
  BY <1>1, <1>2, SaidIsAtHome DEF Serves

LEMMA LeaveIsAtHome ==
  ASSUME NEW w, Linked(w), Agree(w), NEW m \in DOMAIN w.conns
  PROVE  AtHome(w, LeaveGame(w, m)) /\ Left(w, LeaveGame(w, m), m)
<1>1. PICK v : v = LeaveGame(w, m)
  OBVIOUS
<1>2. Left(w, v, m)
  BY <1>1, LeaveGameDoes
<1> QED
  BY <1>1, <1>2, LeftAgrees, StaysLinked DEF Left, AtHome

LEMMA AppendOnce ==
  ASSUME NEW T, NEW list \in Seq(T), NEW x \in T, x \notin ToSet(list), IsInjective(list)
  PROVE  IsInjective(Append(list, x))
<1>1. DOMAIN Append(list, x) = DOMAIN list \cup {Len(list) + 1}
  OBVIOUS
<1>2. /\ \A i \in DOMAIN list : Append(list, x)[i] = list[i] /\ list[i] # x
      /\ Append(list, x)[Len(list) + 1] = x
  BY DEF ToSet
<1> QED
  BY <1>1, <1>2 DEF IsInjective

\* m takes a seat in g.
Seated(w, m, g) == [w EXCEPT !.games[g].players = Append(@, m), !.conns[m].game = g]

LEMMA SeatDoes ==
  ASSUME NEW w, Linked(w), Agree(w), NEW m \in DOMAIN w.conns, NEW g \in DOMAIN w.games,
         w.conns[m].game = 0, w.conns[m].remote = 0
  PROVE  AtHome(w, Seated(w, m, g)) /\ Seated(w, m, g).conns[m].game = g /\ g \in DOMAIN Seated(w, m, g).games
         /\ Seated(w, m, g).held = w.held
<1> DEFINE v == Seated(w, m, g)
           list == w.games[g].players
           k == [w.games[g] EXCEPT !.players = Append(list, m)]
           u == PutGame(w, g, k)
<1>1. v = InGame(u, m, g)
  BY DEF InGame, Seated, PutGame
<1> HIDE DEF v
<1>2. w \in Worlds /\ m \in People /\ w.games[g] \in Game /\ g \in 1 .. MaxGames
  BY WorldHas DEF Linked, Wired
<1>3. list \in Seq(People) /\ w.games[g].host \in Clients
  BY <1>2 DEF Game
<1>4. k \in Game /\ k.players = Append(list, m) /\ k.server = w.games[g].server
  <2>1. PICK n, h : n = Append(list, m) /\ h = w.games[g].host
    OBVIOUS
  <2>2. n \in Seq(People) /\ h \in Clients
    BY <1>2, <1>3, <2>1
  <2> QED
    BY <1>2, <2>1, <2>2, GamesOf
<1> HIDE DEF k
<1>5. /\ ButGames(w, u) /\ DOMAIN u.games = DOMAIN w.games /\ u.games[g] = k
      /\ \A i \in DOMAIN w.games \ {g} : u.games[i] = w.games[i]
  BY <1>2, <1>4, PutGameDoes
<1> HIDE DEF u
<1>6. ButConns(u, v) /\ Placed(u, v, m, g, u.conns[m].remote)
  <2>1. g \in 0 .. MaxGames /\ u \in Worlds /\ m \in DOMAIN u.conns
    BY <1>2, <1>5 DEF ButGames
  <2> QED
    BY <1>1, <2>1, InGameDoes
<1>7. v.games = u.games /\ v.links = w.links /\ v.wire = w.wire /\ v.owed = w.owed /\ v.held = w.held /\ v \in Worlds
  BY <1>5, <1>6 DEF ButGames, ButConns
<1>8. Placed(w, v, m, g, 0)
  BY <1>5, <1>6 DEF ButGames, Placed
<1>9. Stays(w, v)
  BY <1>4, <1>5, <1>7, <1>8 DEF Placed, Stays, Linked, Wired, SameServers
<1>10. Linked(v)
  BY <1>9, StaysLinked
<1>11. /\ list # <<>> /\ IsInjective(list) /\ ToSet(list) = {x \in DOMAIN w.conns : w.conns[x].game = g}
  BY DEF Agree
<1>12. m \notin ToSet(list)
  BY <1>2, <1>11
<1>13. /\ k.players # <<>> /\ IsInjective(k.players) /\ ToSet(k.players) = ToSet(list) \cup {m}
  BY <1>2, <1>3, <1>4, <1>11, <1>12, AppendSet, AppendOnce
<1> HIDE DEF list
<1>14. ASSUME NEW i \in DOMAIN v.games
       PROVE  /\ v.games[i].players # <<>>
              /\ IsInjective(v.games[i].players)
              /\ ToSet(v.games[i].players) = {x \in DOMAIN v.conns : v.conns[x].game = i}
  <2>1. CASE i = g
    BY <1>5, <1>7, <1>8, <1>11, <1>13, <2>1 DEF Placed
  <2>2. CASE i # g
    <3>1. i \in DOMAIN w.games /\ v.games[i] = w.games[i]
      BY <1>5, <1>7, <2>2
    <3>2. i # 0
      <4>1. i \in 1 .. MaxGames
        BY <1>2, <3>1, WorldHas
      <4> QED
        BY <4>1
    <3> QED
      BY <1>8, <2>2, <3>1, <3>2 DEF Agree, Placed
  <2> QED
    BY <2>1, <2>2
<1>15. \A x \in DOMAIN v.conns : /\ v.conns[x].game \in DOMAIN v.games \cup {0}
                                 /\ v.conns[x].remote # 0 => v.conns[x].game = 0
  BY <1>5, <1>7, <1>8 DEF Agree, Placed
<1>16. Agree(v)
  BY <1>14, <1>15 DEF Agree
<1> QED
  BY <1>5, <1>7, <1>8, <1>9, <1>10, <1>16 DEF AtHome, Placed, v

LEMMA HoldIs ==
  ASSUME NEW w, Linked(w), Agree(w), NEW h \in Seq(1 .. MaxGames)
  PROVE  LET v == [w EXCEPT !.held = h] IN AtHome(w, v) /\ ButHeld(w, v) /\ v.held = h
<1> DEFINE v == [w EXCEPT !.held = h]
<1>1. ButHeld(w, v) /\ v.held = h
  BY SetHeld DEF Linked, Wired
<1> HIDE DEF v
<1>2. Stays(w, v)
  BY <1>1 DEF ButHeld, Linked, Wired, Stays, SameServers
<1>3. Linked(v)
  BY <1>2, StaysLinked
<1>4. Agree(v)
  BY <1>1 DEF ButHeld, Agree
<1> QED
  BY <1>1, <1>2, <1>3, <1>4 DEF AtHome, v

LEMMA SendGameIsAtHome ==
  ASSUME NEW w, Linked(w), Agree(w), NEW g \in DOMAIN w.games
  PROVE  AtHome(w, SendGame(w, g)) /\ Said(w, SendGame(w, g))
  BY SendGameDoes, SaidIsAtHome

LEMMA SendAfterIsAtHome ==
  ASSUME NEW w, Linked(w), Agree(w), NEW m \in DOMAIN w.conns, NEW g \in DOMAIN w.games
  PROVE  AtHome(w, SendGameAfterRemoteJoin(w, g, m))
<1>1. CASE m \in Clients
  BY <1>1, SendGameIsAtHome DEF SendGameAfterRemoteJoin
<1>2. CASE m \notin Clients
  <2>1. PICK r : r = GameRecord(w, g)
    OBVIOUS
  <2>2. PICK u : u = Send(w, m, "push", r)
    OBVIOUS
  <2>3. w \in Worlds /\ g \in 1 .. MaxGames
    BY WorldHas DEF Linked, Wired
  <2>4. r \in Records
    BY <2>1, <2>3, GameRecordIs
  <2>5. AtHome(w, u)
    BY <2>2, <2>4, SendIsAtHome
  <2>6. Append(u.held, g) \in Seq(1 .. MaxGames) /\ Linked(u) /\ Agree(u)
    BY <2>3, <2>5, WorldHas DEF AtHome, Linked, Wired
  <2>7. PICK v : v = [u EXCEPT !.held = Append(@, g)]
    OBVIOUS
  <2>8. AtHome(u, v)
    BY <2>6, <2>7, HoldIs
  <2>9. SendGameAfterRemoteJoin(w, g, m) = v
    BY <1>2, <2>1, <2>2, <2>7 DEF SendGameAfterRemoteJoin
  <2> QED
    BY <2>5, <2>8, <2>9, AtHomeTwice
<1> QED
  BY <1>1, <1>2

LEMMA TakeSeatIsAtHome ==
  ASSUME NEW w, Linked(w), Agree(w), NEW m \in DOMAIN w.conns, NEW g \in DOMAIN w.games,
         w.conns[m].remote = 0
  PROVE  Serves(w, TakeSeat(w, m, g), m, "join")
<1>1. PICK seated : seated = IF w.conns[m].game = g THEN w ELSE Seated(LeaveGame(w, m), m, g)
  OBVIOUS
<1>2. TakeSeat(w, m, g) = SendGameAfterRemoteJoin(Send(seated, m, "join", GameRecord(seated, g)), g, m)
  BY <1>1 DEF TakeSeat, Seated
<1>3. AtHome(w, seated) /\ g \in DOMAIN seated.games
  <2>1. CASE w.conns[m].game = g
    <3>1. seated = w
      BY <1>1, <2>1
    <3>2. Said(w, w)
      BY SaidNothing DEF Linked
    <3> QED
      BY <3>1, <3>2, SaidIsAtHome
  <2>2. CASE w.conns[m].game # g
    <3>1. PICK u : u = LeaveGame(w, m)
      OBVIOUS
    <3>2. AtHome(w, u) /\ Left(w, u, m)
      BY <3>1, LeaveIsAtHome
    <3>3. u.conns[m].game = 0 /\ g \in DOMAIN u.games /\ m \in DOMAIN u.conns /\ u.conns[m].remote = 0
      BY <2>2, <3>2 DEF Left, Stays
    <3>4. PICK v : v = Seated(u, m, g)
      OBVIOUS
    <3>5. AtHome(u, v) /\ g \in DOMAIN v.games
      BY <3>2, <3>3, <3>4, SeatDoes DEF AtHome
    <3> QED
      BY <1>1, <2>2, <3>1, <3>2, <3>4, <3>5, AtHomeTwice
  <2> QED
    BY <2>1, <2>2
<1>4. PICK r : r = GameRecord(seated, g)
  OBVIOUS
<1>5. PICK u : u = Send(seated, m, "join", r)
  OBVIOUS
<1>6. r \in Records /\ m \in DOMAIN seated.conns
  BY <1>3, <1>4, GameRecordIs DEF AtHome, Linked, Wired, Stays
<1>7. Serves(seated, u, m, "join") /\ Said(seated, u)
  BY <1>3, <1>5, <1>6, SendIsAtHome DEF AtHome
<1>8. m \in DOMAIN u.conns /\ g \in DOMAIN u.games /\ Linked(u) /\ Agree(u)
  BY <1>3, <1>6, <1>7 DEF Said, Serves, AtHome
<1>9. PICK v : v = SendGameAfterRemoteJoin(u, g, m)
  OBVIOUS
<1>10. AtHome(u, v)
  BY <1>8, <1>9, SendAfterIsAtHome
<1>11. Serves(w, u, m, "join")
  BY <1>3, <1>7, ServesLater
<1> QED
  BY <1>2, <1>4, <1>5, <1>9, <1>10, <1>11, ServesStill

\* The servers whose games s heard of, and when known is in order.
Heard(s) == {known[s][g].server : g \in DOMAIN known[s]}
KnownOK == \A s \in Servers : DOMAIN known[s] \subseteq 1 .. MaxGames /\ Heard(s) \subseteq Servers

\* m's server passed its request on.
JoinsOut(w, v, m, req) ==
  /\ Linked(v) /\ Agree(v) /\ v.held = w.held
  /\ \E t \in Heard(ServerOf(w, m)) : \E l : Joined(w, v, m, t, l, req)

LEMMA ServerIs ==
  ASSUME NEW w, Linked(w), NEW m \in DOMAIN w.conns
  PROVE  ServerOf(w, m) \in Servers
<1>1. CASE m \in Clients
  BY <1>1, ClientsAssumption DEF ServerOf
<1>2. CASE m \notin Clients
  <2>1. m[1] \in DOMAIN w.links
    BY <1>2 DEF Linked
  <2>2. w.links[m[1]] \in Link
    BY <2>1, WiredHas DEF Linked
  <2> QED
    BY <1>2, <2>2 DEF ServerOf, Link
<1> QED
  BY <1>1, <1>2

LEMMA PassedOn ==
  ASSUME NEW w, Linked(w), Agree(w), NEW m \in DOMAIN w.conns, w.conns[m].remote = 0,
         KnownOK, NEW t \in Heard(ServerOf(w, m)), NEW reachable,
         CanLink(w, ServerOf(w, m), t, reachable), NEW req \in Requests
  PROVE  JoinsOut(w, JoinRemote(w, m, t, req), m, req)
<1>1. PICK s : s = ServerOf(w, m)
  OBVIOUS
<1>2. s \in Servers /\ t \in Servers
  BY <1>1, ServerIs DEF KnownOK
<1> QED
  BY <1>1, <1>2, JoinRemoteDoes DEF JoinsOut

LEMMA GjoiDoes ==
  ASSUME NEW w, Linked(w), Agree(w), NEW m \in DOMAIN w.conns, w.conns[m].remote = 0,
         KnownOK, NEW req \in Requests, NEW reachable
  PROVE  LET v == Gjoi(w, m, req, reachable) IN Serves(w, v, m, "join") \/ JoinsOut(w, v, m, req)
<1> DEFINE s == ServerOf(w, m)
           g == req.arg
           v == Gjoi(w, m, req, reachable)
<1>1. Serves(w, Send(w, m, "join", NoRecord), m, "join")
  BY SendIsAtHome, RecordsHave
<1>2. CASE g \in OwnGames(w, s)
  <2>1. g \in DOMAIN w.games
    BY <1>2 DEF OwnGames
  <2>2. Serves(w, TakeSeat(w, m, g), m, "join")
    <3> HIDE DEF g
    <3> QED
      BY <2>1, TakeSeatIsAtHome
  <2>3. v = Send(w, m, "join", NoRecord) \/ v = TakeSeat(w, m, g)
    BY <1>2 DEF Gjoi
  <2> QED
    BY <1>1, <2>2, <2>3
<1>3. CASE g \notin OwnGames(w, s) /\ g \in DOMAIN known[s] /\ CanLink(w, s, known[s][g].server, reachable)
  <2>1. PICK t : t = known[s][g].server
    OBVIOUS
  <2>2. v = JoinRemote(w, m, t, req)
    BY <1>3, <2>1 DEF Gjoi
  <2>3. t \in Heard(s) /\ CanLink(w, s, t, reachable)
    BY <1>3, <2>1 DEF Heard
  <2>4. JoinsOut(w, JoinRemote(w, m, t, req), m, req)
    BY <2>3, PassedOn
  <2> HIDE DEF v
  <2> QED
    BY <2>2, <2>4 DEF v
<1>4. CASE g \notin OwnGames(w, s) /\ ~ (g \in DOMAIN known[s] /\ CanLink(w, s, known[s][g].server, reachable))
  <2>1. v = Send(w, m, "join", NoRecord)
    BY <1>4 DEF Gjoi
  <2> QED
    BY <1>1, <2>1
<1> QED
  BY <1>2, <1>3, <1>4

LEMMA GqwkDoes ==
  ASSUME NEW w, Linked(w), Agree(w), NEW m \in DOMAIN w.conns, w.conns[m].remote = 0,
         KnownOK, NEW req \in Requests, NEW reachable
  PROVE  LET v == Gqwk(w, m, req, reachable) IN Serves(w, v, m, "join") \/ JoinsOut(w, v, m, req)
<1> DEFINE s == ServerOf(w, m)
           v == Gqwk(w, m, req, reachable)
           open == {g \in OwnGames(w, s) \ {w.conns[m].game} :
                      ~w.games[g].locked /\ Len(w.games[g].players) < MaxSize}
           elsewhere == {g \in DOMAIN known[s] : known[s][g].open /\ CanLink(w, s, known[s][g].server, reachable)}
<1>1. v = IF open # {} THEN TakeSeat(w, m, Min(open))
          ELSE IF elsewhere # {} THEN JoinRemote(w, m, known[s][Min(elsewhere)].server, req)
          ELSE Send(w, m, "join", NoRecord)
  BY DEF Gqwk
<1>2. open \subseteq DOMAIN w.games /\ DOMAIN w.games \subseteq Nat
  <2>1. DOMAIN w.games \subseteq 1 .. MaxGames
    BY WorldHas DEF Linked, Wired
  <2> QED
    BY <2>1 DEF OwnGames
<1>3. \A g \in elsewhere : g \in DOMAIN known[s] /\ CanLink(w, s, known[s][g].server, reachable)
  OBVIOUS
<1>4. elsewhere \subseteq Nat
  <2>1. s \in Servers
    BY ServerIs
  <2>2. DOMAIN known[s] \subseteq Nat
    <3> HIDE DEF s
    <3> QED
      BY <2>1 DEF KnownOK
  <2> QED
    BY <2>2
<1> HIDE DEF open, elsewhere, v
<1>5. CASE open # {}
  <2>1. PICK g : g = Min(open)
    OBVIOUS
  <2>2. g \in DOMAIN w.games
    BY <1>2, <1>5, <2>1, MinOf
  <2> QED
    BY <1>1, <1>5, <2>1, <2>2, TakeSeatIsAtHome DEF v
<1>6. CASE open = {} /\ elsewhere # {}
  <2>1. PICK g, t : g = Min(elsewhere) /\ t = known[s][g].server
    OBVIOUS
  <2>2. g \in elsewhere
    BY <1>4, <1>6, <2>1, MinOf
  <2>3. t \in Heard(s) /\ CanLink(w, s, t, reachable)
    BY <1>3, <2>1, <2>2 DEF Heard
  <2>4. v = JoinRemote(w, m, t, req)
    BY <1>1, <1>6, <2>1
  <2> QED
    BY <2>3, <2>4, PassedOn DEF v
<1>7. CASE open = {} /\ elsewhere = {}
  <2>1. v = Send(w, m, "join", NoRecord)
    BY <1>1, <1>7
  <2> QED
    BY <2>1, SendIsAtHome, RecordsHave DEF v
<1> QED
  BY <1>5, <1>6, <1>7

\* A player is taken out of the game that its host deletes.
Dismiss(v, p) == Send([v EXCEPT !.conns[p].game = 0], p, "push", Nowhere)
DismissAll(w, list) == FoldLeft(LAMBDA v, p : Send([v EXCEPT !.conns[p].game = 0], p, "push", Nowhere), w, list)

\* The players are taken out one by one.
LEMMA DismissGoes ==
  ASSUME NEW W, NEW w \in W, NEW T, NEW list \in Seq(T),
         \A v \in W, m \in ToSet(list) : Dismiss(v, m) \in W
  PROVE  \E f \in [0 .. Len(list) -> W] :
           /\ f[0] = w /\ DismissAll(w, list) = f[Len(list)]
           /\ \A i \in 1 .. Len(list) : f[i] = Dismiss(f[i - 1], list[i])
<1> DEFINE X == DOMAIN list
           step == [i \in X |-> [v \in W |-> Dismiss(v, list[i])]]
           Defines(f) == f = [s \in SUBSET X |-> IF s = {} THEN w
                                                 ELSE Dismiss(f[s \ {Max(s)}], list[Max(s)])]
           F == CHOOSE f : Defines(f)
<1>1. X = 1 .. Len(list) /\ Len(list) \in Nat /\ \A i \in X : list[i] \in ToSet(list)
  BY DEF ToSet
<1>2. step \in [X -> [W -> W]]
  BY <1>1
<1>3. X \in SUBSET Nat /\ IsFiniteSet(X)
  BY <1>1, FS_Interval
<1>4. PICK G \in [SUBSET X -> W] : Folds(G, X, w, step)
  <2> HIDE DEF step
  <2> QED
    BY <1>2, <1>3, FoldExists
<1>5. \A s \in SUBSET X : s # {} => Max(s) \in s /\ \A y \in s : Max(s) >= y
  BY <1>3, FS_Subset, MaxOf
<1>6. ASSUME NEW s \in SUBSET X, s # {}
      PROVE  G[s] = Dismiss(G[s \ {Max(s)}], list[Max(s)])
  <2>1. Max(s) \in X /\ G[s \ {Max(s)}] \in W
    BY <1>4, <1>5, <1>6
  <2>2. step[Max(s)][G[s \ {Max(s)}]] = Dismiss(G[s \ {Max(s)}], list[Max(s)])
    BY <2>1
  <2> QED
    BY <1>4, <1>6, <2>2 DEF Folds
<1>7. G[{}] = w
  BY <1>4 DEF Folds
<1>8. Defines(G)
  <2>1. G = [s \in SUBSET X |-> G[s]]
    BY <1>4
  <2> HIDE DEF X
  <2> QED
    BY <1>6, <1>7, <2>1
<1>9. Defines(F)
  <2> HIDE DEF Defines
  <2> QED
    BY <1>8
<1>10. DismissAll(w, list) = F[X]
  BY DEF DismissAll, FoldLeft, MapThenFoldSet, Dismiss
<1> HIDE DEF F, step
<1> DEFINE f == [i \in 0 .. Len(list) |-> F[1 .. i]]
<1>11. F[1 .. 0] = w
  <2>1. 1 .. 0 = {} /\ {} \in SUBSET X
    OBVIOUS
  <2> HIDE DEF X
  <2> QED
    BY <1>9, <2>1
<1>12. ASSUME NEW i \in 1 .. Len(list)
       PROVE  F[1 .. i] = Dismiss(F[1 .. i - 1], list[i])
  <2>1. 1 .. i \in SUBSET X /\ 1 .. i # {} /\ i \in 1 .. i
    BY <1>1
  <2>2. Max(1 .. i) \in 1 .. i /\ Max(1 .. i) >= i
    BY <1>5, <2>1
  <2>3. Max(1 .. i) = i
    BY <2>2
  <2>4. (1 .. i) \ {i} = 1 .. i - 1
    OBVIOUS
  <2> HIDE DEF X
  <2> QED
    BY <1>9, <2>1, <2>3, <2>4
<1> DEFINE C == {i \in 0 .. Len(list) : F[1 .. i] \in W}
<1>13. 0 .. Len(list) \subseteq C
  <2>1. 0 \in C
    BY <1>1, <1>11
  <2>2. ASSUME NEW i \in 1 .. Len(list), i - 1 \in C PROVE i \in C
    BY <1>1, <1>12, <2>2
  <2> HIDE DEF C
  <2> QED
    BY <1>1, <2>1, <2>2, UpTo
<1>14. f \in [0 .. Len(list) -> W]
  BY <1>13
<1>15. /\ f[0] = w /\ DismissAll(w, list) = f[Len(list)]
       /\ \A i \in 1 .. Len(list) : f[i] = Dismiss(f[i - 1], list[i])
  <2>1. 0 \in 0 .. Len(list) /\ Len(list) \in 0 .. Len(list)
    BY <1>1
  <2>2. \A i \in 1 .. Len(list) : i \in 0 .. Len(list) /\ i - 1 \in 0 .. Len(list)
    BY <1>1
  <2> QED
    BY <1>1, <1>10, <1>11, <1>12, <2>1, <2>2
<1> HIDE DEF f
<1> QED
  BY <1>14, <1>15

LEMMA DismissDoes ==
  ASSUME NEW w, Linked(w), NEW p \in DOMAIN w.conns
  PROVE  LET v == Dismiss(w, p) IN
         /\ Stays(w, v) /\ Linked(v) /\ v.games = w.games /\ v.held = w.held
         /\ \A x \in DOMAIN w.conns : v.conns[x].game = IF x = p THEN 0 ELSE w.conns[x].game
<1>1. PICK u, v : u = InGame(w, p, 0) /\ v = Send(u, p, "push", Nowhere)
  OBVIOUS
<1>2. Dismiss(w, p) = v
  BY <1>1 DEF Dismiss, InGame
<1>3. ButConns(w, u) /\ Placed(w, u, p, 0, w.conns[p].remote)
  BY <1>1, ZeroIs, InGameDoes DEF Linked, Wired
<1>4. Stays(w, u)
  BY <1>3 DEF ButConns, Placed, Stays, Linked, Wired, SameServers
<1>5. Linked(u) /\ p \in DOMAIN u.conns
  BY <1>4, StaysLinked DEF Stays
<1>6. Said(u, v)
  BY <1>1, <1>5, RecordsHave, SendDoes
<1>7. Stays(w, v) /\ Linked(v)
  BY <1>4, <1>5, <1>6, SaidStays, StaysTwice, SaidLinked
<1> QED
  BY <1>2, <1>3, <1>6, <1>7 DEF ButConns, Placed, Said

\* All in the list are out of the game, and all else is as it was.
Dismissed(w, v, S) ==
  /\ Stays(w, v) /\ Linked(v) /\ v.games = w.games /\ v.held = w.held
  /\ \A x \in DOMAIN w.conns : v.conns[x].game = IF x \in S THEN 0 ELSE w.conns[x].game

LEMMA DismissAllDoes ==
  ASSUME NEW w, Linked(w), NEW list \in Seq(People), ToSet(list) \subseteq DOMAIN w.conns
  PROVE  Dismissed(w, DismissAll(w, list), ToSet(list))
<1> DEFINE W == {v \in Worlds : Linked(v) /\ Stays(w, v)}
           First(i) == {list[j] : j \in 1 .. i}
<1>1. w \in W
  BY SaidNothing, SaidStays DEF Linked, Wired
<1>2. ASSUME NEW v \in W, NEW p \in ToSet(list) PROVE Dismiss(v, p) \in W
  <2>1. p \in DOMAIN v.conns
    BY DEF Stays, SameServers
  <2>2. PICK u : u = Dismiss(v, p)
    OBVIOUS
  <2>3. Stays(v, u) /\ Linked(u)
    BY <2>1, <2>2, DismissDoes
  <2> QED
    BY <2>2, <2>3, StaysTwice DEF Linked, Wired
<1>3. \A v \in W : Linked(v) /\ Stays(w, v)
  OBVIOUS
<1> HIDE DEF W
<1>4. PICK f \in [0 .. Len(list) -> W] :
        /\ f[0] = w /\ DismissAll(w, list) = f[Len(list)]
        /\ \A i \in 1 .. Len(list) : f[i] = Dismiss(f[i - 1], list[i])
  BY <1>1, <1>2, DismissGoes
<1> DEFINE C == {i \in 0 .. Len(list) : Dismissed(w, f[i], First(i))}
<1>5. 0 \in C
  <2>1. First(0) = {}
    OBVIOUS
  <2>2. Stays(w, w)
    BY <1>1, <1>3
  <2> HIDE DEF First
  <2> QED
    BY <1>4, <2>1, <2>2 DEF Dismissed
<1>6. ASSUME NEW i \in 1 .. Len(list), i - 1 \in C PROVE i \in C
  <2>1. i \in 0 .. Len(list) /\ i - 1 \in 0 .. Len(list)
    OBVIOUS
  <2>2. PICK u, v, p : u = f[i - 1] /\ v = f[i] /\ p = list[i]
    OBVIOUS
  <2>3. v = Dismiss(u, p) /\ u \in W /\ v \in W
    BY <1>4, <2>1, <2>2
  <2>4. First(i) = First(i - 1) \cup {p}
    <3>1. 1 .. i = (1 .. i - 1) \cup {i}
      OBVIOUS
    <3> QED
      BY <2>2, <3>1
  <2>5. Dismissed(w, u, First(i - 1))
    BY <1>6, <2>2
  <2> HIDE DEF First
  <2>6. p \in DOMAIN w.conns
    BY <2>2 DEF ToSet
  <2>7. p \in DOMAIN u.conns /\ Linked(u) /\ Linked(v) /\ Stays(w, v)
    BY <1>3, <2>3, <2>6 DEF Stays
  <2>8. /\ Stays(u, v) /\ v.games = u.games /\ v.held = u.held
        /\ \A x \in DOMAIN u.conns : v.conns[x].game = IF x = p THEN 0 ELSE u.conns[x].game
    BY <2>3, <2>7, DismissDoes
  <2>9. Dismissed(w, v, First(i))
    BY <2>4, <2>5, <2>7, <2>8 DEF Dismissed, Stays
  <2> QED
    BY <2>1, <2>2, <2>9
<1> HIDE DEF C
<1>7. Len(list) \in C
  <2>1. Len(list) \in Nat /\ Len(list) \in 0 .. Len(list)
    OBVIOUS
  <2> QED
    BY <1>5, <1>6, <2>1, UpTo
<1>8. First(Len(list)) = ToSet(list)
  <2>1. DOMAIN list = 1 .. Len(list)
    OBVIOUS
  <2> QED
    BY <2>1 DEF ToSet
<1> HIDE DEF First
<1> QED
  BY <1>4, <1>7, <1>8 DEF C

\* A game is left to m alone.
LeftTo(w, g, m) == [w EXCEPT !.games[g].players = <<m>>]

\* So it is once all the others are out of it.
LEMMA LeftToDoes ==
  ASSUME NEW w, Linked(w), Agree(w), NEW m \in DOMAIN w.conns, NEW g \in DOMAIN w.games,
         w.conns[m].game = g, NEW u, Dismissed(w, u, ToSet(w.games[g].players) \ {m})
  PROVE  AtHome(w, LeftTo(u, g, m))
<1> DEFINE k == [u.games[g] EXCEPT !.players = <<m>>]
           v == LeftTo(u, g, m)
<1>1. v = PutGame(u, g, k)
  BY DEF LeftTo, PutGame
<1> HIDE DEF v
<1>2. u \in Worlds /\ u.games = w.games /\ m \in People /\ w.games[g] \in Game /\ DOMAIN w.games \subseteq 1 .. MaxGames
  BY WorldHas DEF Linked, Wired, Dismissed
<1>3. k \in Game /\ k.players = <<m>> /\ k.server = w.games[g].server
  <2>1. PICK n : n = <<m>>
    OBVIOUS
  <2>2. n \in Seq(People) /\ u.games[g] \in Game
    BY <1>2, <2>1
  <2>3. u.games[g].host \in Clients
    BY <2>2 DEF Game
  <2>4. k \in Game /\ k.players = <<m>> /\ k.server = u.games[g].server
    BY <2>1, <2>2, <2>3, GamesOf
  <2> HIDE DEF k
  <2> QED
    BY <1>2, <2>4
<1> HIDE DEF k
<1>4. /\ ButGames(u, v) /\ DOMAIN v.games = DOMAIN w.games /\ v.games[g] = k
      /\ \A i \in DOMAIN w.games \ {g} : v.games[i] = w.games[i]
  BY <1>1, <1>2, <1>3, PutGameDoes
<1>5. Stays(u, v)
  BY <1>2, <1>3, <1>4 DEF ButGames, Stays, Dismissed, Linked, Wired, SameServers
<1>6. Stays(w, v) /\ Linked(v)
  BY <1>5, StaysTwice, StaysLinked DEF Dismissed
<1> DEFINE P == ToSet(w.games[g].players)
<1>7. P = {x \in DOMAIN w.conns : w.conns[x].game = g}
  BY DEF Agree
<1> HIDE DEF P
<1>8. /\ v.conns = u.conns /\ DOMAIN v.conns = DOMAIN w.conns
      /\ \A x \in DOMAIN w.conns : v.conns[x].game = (IF x \in P \ {m} THEN 0 ELSE w.conns[x].game)
  BY <1>4, <1>6 DEF ButGames, Dismissed, Stays, P
<1>9. IsInjective(<<m>>) /\ ToSet(<<m>>) = {m} /\ <<m>> # <<>>
  BY DEF IsInjective, ToSet
<1>10. \A i \in DOMAIN w.games : i # 0
  BY <1>2
<1>11. {x \in DOMAIN v.conns : v.conns[x].game = g} = {m}
  BY <1>7, <1>8, <1>10
<1>12. ASSUME NEW i \in DOMAIN v.games
       PROVE  /\ v.games[i].players # <<>>
              /\ IsInjective(v.games[i].players)
              /\ ToSet(v.games[i].players) = {x \in DOMAIN v.conns : v.conns[x].game = i}
  <2>1. CASE i = g
    BY <1>3, <1>4, <1>9, <1>11, <2>1
  <2>2. CASE i # g
    <3>1. i \in DOMAIN w.games /\ v.games[i] = w.games[i] /\ i # 0
      BY <1>4, <1>10, <2>2
    <3>2. {x \in DOMAIN v.conns : v.conns[x].game = i} = {x \in DOMAIN w.conns : w.conns[x].game = i}
      BY <1>7, <1>8, <2>2, <3>1
    <3> QED
      BY <3>1, <3>2 DEF Agree
  <2> QED
    BY <2>1, <2>2
<1>13. \A x \in DOMAIN v.conns : /\ v.conns[x].game \in DOMAIN v.games \cup {0}
                                 /\ v.conns[x].remote # 0 => v.conns[x].game = 0
  BY <1>4, <1>6, <1>8 DEF Agree, Stays
<1>14. Agree(v)
  BY <1>12, <1>13 DEF Agree
<1> QED
  BY <1>6, <1>14 DEF AtHome, v

LEMMA LeaveDoes ==
  ASSUME NEW w, Linked(w), Agree(w), NEW m \in DOMAIN w.conns, NEW req
  PROVE  Serves(w, Leave(w, m, req), m, "leave") /\ Leave(w, m, req).conns[m].game = 0
<1> DEFINE g == w.conns[m].game
           others == Only(w.games[g].players, DOMAIN w.conns \ {m})
<1>1. PICK answered : answered = Send(w, m, "leave", NoRecord)
  OBVIOUS
<1>2. Serves(w, answered, m, "leave") /\ Said(w, answered) /\ AtHome(w, answered)
  BY <1>1, RecordsHave, SendIsAtHome
<1>3. PICK u : u = DismissAll(answered, others)
  OBVIOUS
<1>4. PICK last : last = IF req.kind = "gdel" /\ g \in DOMAIN w.games /\ w.games[g].host = w.conns[m].user
                         THEN LeftTo(u, g, m) ELSE answered
  OBVIOUS
<1>5. Leave(w, m, req) = Send(LeaveGame(last, m), m, "push", Nowhere)
  BY <1>1, <1>3, <1>4 DEF Leave, DismissAll, LeftTo
<1>6. Serves(w, last, m, "leave")
  <2>1. CASE req.kind = "gdel" /\ g \in DOMAIN w.games /\ w.games[g].host = w.conns[m].user
    <3>1. w.games[g].players \in Seq(People)
      BY <2>1, WorldHas DEF Linked, Wired, Game
    <3>2. others \in Seq(People) /\ ToSet(others) = ToSet(w.games[g].players) \cap (DOMAIN w.conns \ {m})
      BY <3>1, OnlyKeeps
    <3>3. ToSet(w.games[g].players) \subseteq DOMAIN w.conns
      BY <2>1 DEF Agree
    <3>4. ToSet(others) = ToSet(w.games[g].players) \ {m}
      BY <3>2, <3>3
    <3>5. answered.conns = w.conns /\ answered.games = w.games
      BY <1>2 DEF Said
    <3>6. ToSet(others) \subseteq DOMAIN answered.conns
      BY <3>2, <3>5
    <3>7. Linked(answered) /\ Agree(answered)
      BY <1>2 DEF AtHome
    <3> HIDE DEF others
    <3>8. Dismissed(answered, u, ToSet(others))
      BY <1>3, <3>2, <3>6, <3>7, DismissAllDoes
    <3>9. Dismissed(answered, u, ToSet(answered.games[g].players) \ {m})
      BY <3>4, <3>5, <3>8
    <3>10. m \in DOMAIN answered.conns /\ g \in DOMAIN answered.games /\ answered.conns[m].game = g
      BY <2>1, <3>5
    <3> HIDE DEF g
    <3>11. AtHome(answered, LeftTo(u, g, m))
      BY <3>7, <3>9, <3>10, LeftToDoes
    <3> QED
      BY <1>2, <1>4, <2>1, <3>11, ServesStill
  <2>2. CASE ~ (req.kind = "gdel" /\ g \in DOMAIN w.games /\ w.games[g].host = w.conns[m].user)
    <3>1. last = answered
      BY <1>4, <2>2
    <3> QED
      BY <1>2, <3>1
  <2> HIDE DEF g
  <2> QED
    BY <2>1, <2>2
<1>7. PICK left, v : left = LeaveGame(last, m) /\ v = Send(left, m, "push", Nowhere)
  OBVIOUS
<1>8. m \in DOMAIN last.conns /\ Linked(last) /\ Agree(last)
  BY <1>6 DEF Serves, AtHome, Stays
<1>9. AtHome(last, left) /\ left.conns[m].game = 0
  BY <1>7, <1>8, LeaveIsAtHome DEF Left
<1>10. m \in DOMAIN left.conns /\ Linked(left) /\ Agree(left)
  BY <1>8, <1>9 DEF AtHome, Stays
<1>11. AtHome(left, v) /\ Said(left, v)
  BY <1>7, <1>10, RecordsHave, SendIsAtHome
<1>12. v.conns[m].game = 0
  BY <1>9, <1>11 DEF Said
<1>13. Serves(w, v, m, "leave")
  BY <1>6, <1>9, <1>11, ServesStill
<1> QED
  BY <1>5, <1>7, <1>12, <1>13

\* A game is locked.
Lock(w, g) == [w EXCEPT !.games[g].locked = TRUE]

LEMMA LockDoes ==
  ASSUME NEW w, Linked(w), Agree(w), NEW g \in DOMAIN w.games
  PROVE  AtHome(w, Lock(w, g)) /\ DOMAIN Lock(w, g).games = DOMAIN w.games
<1> DEFINE k == [w.games[g] EXCEPT !.locked = TRUE]
           v == Lock(w, g)
<1>1. v = PutGame(w, g, k)
  BY DEF Lock, PutGame
<1> HIDE DEF v
<1>2. w \in Worlds /\ w.games[g] \in Game
  BY WorldHas DEF Linked, Wired
<1>3. k \in Game /\ k.players = w.games[g].players /\ k.server = w.games[g].server
  <2>1. w.games[g].players \in Seq(People) /\ w.games[g].host \in Clients
    BY <1>2 DEF Game
  <2> QED
    BY <1>2, <2>1, GamesOf
<1> HIDE DEF k
<1>4. /\ ButGames(w, v) /\ DOMAIN v.games = DOMAIN w.games /\ v.games[g] = k
      /\ \A i \in DOMAIN w.games \ {g} : v.games[i] = w.games[i]
  BY <1>1, <1>2, <1>3, PutGameDoes
<1>5. Stays(w, v)
  BY <1>3, <1>4 DEF ButGames, Stays, Linked, Wired, SameServers
<1>6. \A i \in DOMAIN w.games : v.games[i].players = w.games[i].players
  BY <1>3, <1>4
<1>7. Agree(v)
  BY <1>4, <1>6 DEF Agree, ButGames
<1> QED
  BY <1>4, <1>5, <1>7, StaysLinked DEF AtHome, v

\* A player is sent an answer, then those in the game how it is.
SaidOfGame(w, m, g) == Send(w, m, "play", GameRecord(w, g))

LEMMA SaidOfGameDoes ==
  ASSUME NEW w, Linked(w), Agree(w), NEW m \in DOMAIN w.conns, NEW g \in DOMAIN w.games
  PROVE  /\ Serves(w, SaidOfGame(w, m, g), m, "play")
         /\ Serves(w, SendGame(SaidOfGame(w, m, g), g), m, "play")
<1>1. PICK r : r = GameRecord(w, g)
  OBVIOUS
<1>2. r \in Records
  BY <1>1, GameRecordIs DEF Linked, Wired
<1>3. PICK u : u = Send(w, m, "play", r)
  OBVIOUS
<1>4. Serves(w, u, m, "play") /\ Said(w, u)
  BY <1>2, <1>3, SendIsAtHome
<1>5. g \in DOMAIN u.games /\ Linked(u) /\ Agree(u)
  BY <1>4 DEF Serves, AtHome, Said
<1>6. AtHome(u, SendGame(u, g))
  BY <1>5, SendGameIsAtHome
<1>7. u = SaidOfGame(w, m, g)
  BY <1>1, <1>3 DEF SaidOfGame
<1> QED
  BY <1>4, <1>6, <1>7, ServesStill

LEMMA GsetDoes ==
  ASSUME NEW w, Linked(w), Agree(w), NEW m \in DOMAIN w.conns, NEW req
  PROVE  Serves(w, Gset(w, m, req), m, "play")
<1> DEFINE g == w.conns[m].game
           hosts == g \in DOMAIN w.games /\ Head(w.games[g].players) = m
           kicked == Only(w.games[g].players, {p \in DOMAIN w.conns \ {m} : w.conns[p].user = req.arg})
<1>1. PICK away, locked :
        /\ away = IF kicked = <<>> THEN w ELSE Send(LeaveGame(w, Head(kicked)), Head(kicked), "push", Nowhere)
        /\ locked = Lock(w, g)
  OBVIOUS
<1>2. Gset(w, m, req) =
        IF g \notin DOMAIN w.games THEN Send(w, m, "play", NoRecord)
        ELSE IF hosts /\ req.kind = "kick" THEN SaidOfGame(away, m, g)
        ELSE IF hosts /\ req.kind = "lock" THEN SendGame(SaidOfGame(locked, m, g), g)
        ELSE SendGame(SaidOfGame(w, m, g), g)
  BY <1>1 DEF Gset, Lock, SaidOfGame
<1>3. CASE g \notin DOMAIN w.games
  BY <1>2, <1>3, RecordsHave, SendIsAtHome
<1>4. CASE g \in DOMAIN w.games /\ hosts /\ req.kind = "kick"
  <2>1. AtHome(w, away) /\ g \in DOMAIN away.games /\ m \in DOMAIN away.conns
    <3>1. CASE kicked = <<>>
      <4>1. Said(w, w) /\ away = w
        BY <1>1, <3>1, SaidNothing DEF Linked
      <4> QED
        BY <1>4, <4>1, SaidIsAtHome
    <3>2. CASE kicked # <<>>
      <4>1. w.games[g].players \in Seq(People)
        BY <1>4, WorldHas DEF Linked, Wired, Game
      <4> DEFINE S == {p \in DOMAIN w.conns \ {m} : w.conns[p].user = req.arg}
      <4>2. kicked \in Seq(People) /\ ToSet(kicked) = ToSet(w.games[g].players) \cap S
        <5> HIDE DEF S
        <5>1. kicked = Only(w.games[g].players, S)
          BY DEF S
        <5> HIDE DEF kicked
        <5> QED
          BY <4>1, <5>1, OnlyKeeps
      <4>3. PICK p : p = Head(kicked)
        OBVIOUS
      <4>4. p \in ToSet(kicked)
        <5> HIDE DEF kicked
        <5>1. Len(kicked) \in Nat /\ Len(kicked) # 0 /\ p = kicked[1]
          BY <3>2, <4>2, <4>3
        <5> QED
          BY <4>2, <5>1 DEF ToSet
      <4>5. p \in DOMAIN w.conns /\ p # m /\ p \in ToSet(w.games[g].players)
        BY <4>2, <4>4
      <4>6. m \in ToSet(w.games[g].players)
        BY <1>4 DEF Agree
      <4>7. w.conns[p].game = g
        BY <1>4, <4>5 DEF Agree
      <4>8. PICK left, v : left = LeaveGame(w, p) /\ v = Send(left, p, "push", Nowhere)
        OBVIOUS
      <4>9. away = v
        BY <1>1, <3>2, <4>3, <4>8
      <4>10. AtHome(w, left) /\ Left(w, left, p)
        BY <4>5, <4>8, LeaveIsAtHome
      <4>11. g \in DOMAIN left.games
        BY <1>4, <4>5, <4>6, <4>7, <4>10 DEF Left
      <4>12. p \in DOMAIN left.conns /\ Linked(left) /\ Agree(left) /\ m \in DOMAIN left.conns
        BY <4>5, <4>10 DEF AtHome, Stays
      <4>13. AtHome(left, v) /\ Said(left, v)
        BY <4>8, <4>12, RecordsHave, SendIsAtHome
      <4>14. g \in DOMAIN v.games /\ m \in DOMAIN v.conns
        BY <4>11, <4>12, <4>13 DEF Said
      <4> QED
        BY <4>9, <4>10, <4>13, <4>14, AtHomeTwice
    <3> QED
      BY <3>1, <3>2
  <2>2. Serves(away, SaidOfGame(away, m, g), m, "play")
    BY <2>1, SaidOfGameDoes DEF AtHome
  <2> HIDE DEF g
  <2>3. Serves(w, SaidOfGame(away, m, g), m, "play")
    BY <2>1, <2>2, ServesLater
  <2> QED
    BY <1>2, <1>4, <2>3
<1>5. CASE g \in DOMAIN w.games /\ ~ (hosts /\ req.kind = "kick") /\ hosts /\ req.kind = "lock"
  <2>1. AtHome(w, locked) /\ g \in DOMAIN locked.games /\ m \in DOMAIN locked.conns
    <3>1. AtHome(w, locked) /\ DOMAIN locked.games = DOMAIN w.games
      BY <1>1, <1>5, LockDoes
    <3> QED
      BY <1>5, <3>1 DEF AtHome, Stays
  <2>2. Serves(locked, SendGame(SaidOfGame(locked, m, g), g), m, "play")
    BY <2>1, SaidOfGameDoes DEF AtHome
  <2>3. Serves(w, SendGame(SaidOfGame(locked, m, g), g), m, "play")
    BY <2>1, <2>2, ServesLater
  <2> QED
    BY <1>2, <1>5, <2>3
<1>6. CASE g \in DOMAIN w.games /\ ~ (hosts /\ req.kind = "kick") /\ ~ (hosts /\ req.kind = "lock")
  <2>1. Serves(w, SendGame(SaidOfGame(w, m, g), g), m, "play")
    BY <1>6, SaidOfGameDoes
  <2> QED
    BY <1>2, <1>6, <2>1
<1> QED
  BY <1>3, <1>4, <1>5, <1>6

-----------------------------------------------------------------------------
(* A request *)

\* What m asked for was passed on to its host, and m left that if it left the game.
Forwarded(w, v, m, req) ==
  /\ Linked(v) /\ Agree(v) /\ OwnEnd(w, v, m)
  /\ w.conns[m].remote # 0 /\ Answers(req) # "join"
  /\ Placed(w, v, m, w.conns[m].game, IF Answers(req) = "leave" THEN 0 ELSE w.conns[m].remote)
  /\ Puts(w, v, w.conns[m].remote, Xfwd(w, m, req))
  /\ m \in Clients => v.owed[m] = w.owed[m] \cup {Answers(req)}

\* m is not elsewhere, or it is no more: it joins another game.
Here(w, u, m, req) ==
  /\ Linked(u) /\ Agree(u) /\ m \in DOMAIN u.conns /\ u.conns[m].remote = 0
  /\ \/ u = w
     \/ /\ w.conns[m].remote # 0 /\ Answers(req) = "join"
        /\ OwnEnd(w, u, m)
        /\ Placed(w, u, m, w.conns[m].game, 0)
        /\ Puts(w, u, w.conns[m].remote, Xlea(w, m))

\* The request was handled here, or passed on to a host that m joins.
Ran(w, v, m, req) ==
  \/ Forwarded(w, v, m, req)
  \/ \E u : /\ Here(w, u, m, req)
            /\ Serves(u, v, m, Answers(req)) \/ (Answers(req) = "join" /\ JoinsOut(u, v, m, req))

LEMMA ForwardedIs ==
  ASSUME NEW w, NEW m \in DOMAIN w.conns, Linked(w), Agree(w), w.conns[m].remote # 0,
         NEW req \in Requests, Answers(req) # "join", NEW reachable
  PROVE  LET v == HandleLobby(w, m, req, reachable) IN Forwarded(w, v, m, req) /\ v.conns[m].game = 0
<1>1. PICK sent, off : sent = ForwardToHost(w, m, req) /\ off = OnLink(sent, m, 0)
  OBVIOUS
<1>2. PICK v : v = IF Answers(req) = "leave" THEN off ELSE sent
  OBVIOUS
<1>3. req.kind \notin {"gjoi", "gqwk"}
  BY DEF Answers
<1>4. HandleLobby(w, m, req, reachable) = v
  BY <1>1, <1>2, <1>3 DEF HandleLobby, OnLink
<1>5. /\ Linked(sent) /\ OwnEnd(w, sent, m) /\ sent.conns = w.conns /\ Puts(w, sent, w.conns[m].remote, Xfwd(w, m, req))
      /\ m \in Clients => sent.owed[m] = w.owed[m] \cup {Answers(req)}
  BY <1>1, ForwardToHostDoes
<1>6. sent \in Worlds /\ w.conns[m].game = 0
  BY <1>5 DEF Linked, Wired, Agree
<1>7. ButConns(sent, off) /\ Placed(sent, off, m, sent.conns[m].game, 0)
  BY <1>1, <1>5, <1>6, ZeroIs, OnLinkDoes
<1>8. Placed(w, v, m, w.conns[m].game, IF Answers(req) = "leave" THEN 0 ELSE w.conns[m].remote)
  BY <1>2, <1>5, <1>7 DEF Placed
<1>9. v \in Worlds /\ v.games = w.games /\ v.links = w.links /\ v.wire = sent.wire /\ v.held = w.held /\ v.told = w.told
      /\ v.owed = sent.owed
  BY <1>2, <1>5, <1>6, <1>7 DEF ButConns, OwnEnd
<1>10. OwnEnd(w, v, m) /\ Puts(w, v, w.conns[m].remote, Xfwd(w, m, req))
  BY <1>5, <1>9 DEF OwnEnd, Puts
<1>11. Linked(v)
  <2>1. Wired(v)
    BY <1>5, <1>9 DEF Linked, Wired, OwnEnd
  <2>2. \A x \in DOMAIN w.conns : v.conns[x].remote \in {w.conns[x].remote, 0}
    BY <1>8 DEF Placed
  <2> QED
    BY <1>8, <1>9, <2>1, <2>2 DEF Linked, Placed
<1>12. Agree(v)
  BY <1>6, <1>8, <1>9 DEF Agree, Placed
<1>13. v.conns[m].game = 0
  BY <1>6, <1>8 DEF Placed
<1> QED
  BY <1>4, <1>5, <1>8, <1>9, <1>10, <1>11, <1>12, <1>13 DEF Forwarded

LEMMA HandleLobbyDoes ==
  ASSUME NEW w, Linked(w), Agree(w), NEW m \in DOMAIN w.conns, KnownOK, NEW req \in Requests, NEW reachable
  PROVE  LET v == HandleLobby(w, m, req, reachable) IN
         /\ Ran(w, v, m, req)
         /\ Answers(req) = "leave" => v.conns[m].game = 0
<1> DEFINE away == w.conns[m].remote # 0
           joins == req.kind \in {"gjoi", "gqwk"}
<1>1. PICK here : here = IF away /\ joins THEN DropRemote(w, m) ELSE w
  OBVIOUS
<1>2. joins <=> Answers(req) = "join"
  BY DEF Answers
<1>3. CASE away /\ ~ joins
  BY <1>2, <1>3, ForwardedIs DEF Ran
<1>4. CASE ~ (away /\ ~ joins)
  <2>1. PICK v : v = HandleLobby(w, m, req, reachable)
    OBVIOUS
  <2>2. v = IF req.kind = "gjoi" THEN Gjoi(here, m, req, reachable)
            ELSE IF req.kind = "gqwk" THEN Gqwk(here, m, req, reachable)
            ELSE IF Answers(req) = "leave" THEN Leave(here, m, req) ELSE Gset(here, m, req)
    BY <1>1, <1>4, <2>1 DEF HandleLobby
  <2>3. Here(w, here, m, req)
    <3>1. CASE away
      <4>1. here = DropRemote(w, m)
        BY <1>1, <1>4, <3>1
      <4>2. /\ Linked(here) /\ OwnEnd(w, here, m)
            /\ Placed(w, here, m, w.conns[m].game, 0)
            /\ Puts(w, here, w.conns[m].remote, Xlea(w, m))
        BY <4>1, DropRemoteDoes
      <4>3. Agree(here)
        BY <4>2 DEF Agree, Placed, OwnEnd
      <4> QED
        BY <1>2, <1>4, <3>1, <4>2, <4>3 DEF Here, Placed
    <3>2. CASE ~ away
      BY <1>1, <3>2 DEF Here
    <3> QED
      BY <3>1, <3>2
  <2>4. Linked(here) /\ Agree(here) /\ m \in DOMAIN here.conns /\ here.conns[m].remote = 0
    BY <2>3 DEF Here
  <2>5. CASE joins
    <3>1. v = Gjoi(here, m, req, reachable) \/ v = Gqwk(here, m, req, reachable)
      BY <2>2, <2>5
    <3>3. Serves(here, v, m, "join") \/ JoinsOut(here, v, m, req)
      <4>1. PICK x, y : x = Gjoi(here, m, req, reachable) /\ y = Gqwk(here, m, req, reachable)
        OBVIOUS
      <4>2. Serves(here, x, m, "join") \/ JoinsOut(here, x, m, req)
        BY <2>4, <4>1, GjoiDoes
      <4>3. Serves(here, y, m, "join") \/ JoinsOut(here, y, m, req)
        BY <2>4, <4>1, GqwkDoes
      <4> QED
        BY <3>1, <4>1, <4>2, <4>3
    <3>2. Answers(req) = "join"
      BY <1>2, <2>5
    <3> QED
      BY <2>1, <2>3, <3>2, <3>3 DEF Ran
  <2>6. CASE ~ joins
    <3>1. v = IF Answers(req) = "leave" THEN Leave(here, m, req) ELSE Gset(here, m, req)
      BY <2>2, <2>6
    <3>2. Serves(here, v, m, Answers(req)) /\ (Answers(req) = "leave" => v.conns[m].game = 0)
      <4>1. Answers(req) \in {"play", "leave"}
        BY <1>2, <2>6 DEF Answers
      <4> QED
        BY <2>4, <3>1, <4>1, LeaveDoes, GsetDoes
    <3> QED
      BY <2>1, <2>3, <3>2 DEF Ran
  <2> QED
    BY <2>5, <2>6
<1> QED
  BY <1>3, <1>4

\* An end that has closed its socket has nobody on the link any more.
LeftLinks(w) ==
  \A l \in DOMAIN w.links : \A s \in DOMAIN w.links[l].ends : w.links[l].ends[s] = "gone" =>
    /\ \A m \in DOMAIN w.conns \ Clients : m[1] = l => w.links[l].to # s
    /\ \A c \in Clients \cap DOMAIN w.conns : w.conns[c].remote = l => At[c] # s

Well(w) == Linked(w) /\ Agree(w) /\ LeftLinks(w)

LEMMA StaysWell ==
  ASSUME NEW w, NEW v, Well(w), AtHome(w, v)
  PROVE  Well(v) /\ DOMAIN v.conns = DOMAIN w.conns /\ DOMAIN v.games \subseteq DOMAIN w.games
<1>1. /\ v.links = w.links /\ DOMAIN v.conns = DOMAIN w.conns
      /\ \A m \in DOMAIN w.conns : v.conns[m].remote = w.conns[m].remote
  BY DEF AtHome, Stays
<1>2. LeftLinks(v)
  BY <1>1 DEF Well, LeftLinks
<1> QED
  BY <1>1, <1>2 DEF AtHome, Stays, Well

LEMMA LosesWell ==
  ASSUME NEW w, NEW v, NEW S, Well(w), Loses(w, v, S), Agree(v)
  PROVE  Well(v)
<1>1. /\ v.links = w.links /\ DOMAIN v.conns \subseteq DOMAIN w.conns
      /\ \A m \in DOMAIN v.conns : v.conns[m].remote = w.conns[m].remote
  BY DEF Loses
<1>2. LeftLinks(v)
  BY <1>1 DEF Well, LeftLinks
<1> QED
  BY <1>2, LosesLinked DEF Well

\* m's link may be none now.
LEMMA PlacedWell ==
  ASSUME NEW w, NEW v, NEW m \in DOMAIN w.conns, Well(w), Linked(v), Agree(v), v.links = w.links,
         NEW g, NEW l \in {w.conns[m].remote, 0}, Placed(w, v, m, g, l)
  PROVE  Well(v)
<1>1. /\ DOMAIN v.conns = DOMAIN w.conns
      /\ \A x \in DOMAIN w.conns : v.conns[x].remote \in {w.conns[x].remote, 0}
  BY DEF Placed
<1>2. \A k \in DOMAIN w.links : k # 0
  BY WiredHas DEF Well, Linked
<1>3. LeftLinks(v)
  BY <1>1, <1>2 DEF Well, LeftLinks
<1> QED
  BY <1>3 DEF Well

LEMMA JoinedWell ==
  ASSUME NEW w, NEW v, NEW m \in DOMAIN w.conns, Well(w), NEW req, JoinsOut(w, v, m, req)
  PROVE  Well(v) /\ DOMAIN v.conns = DOMAIN w.conns /\ DOMAIN v.games \subseteq DOMAIN w.games
<1>1. PICK t \in Heard(ServerOf(w, m)) : \E l : Joined(w, v, m, t, l, req)
  BY DEF JoinsOut
<1>2. PICK l : Joined(w, v, m, t, l, req)
  BY <1>1
<1> DEFINE s == ServerOf(w, m)
<1>3. /\ DOMAIN v.conns = DOMAIN w.conns /\ DOMAIN v.games \subseteq DOMAIN w.games
      /\ \A x \in DOMAIN w.conns \ {m} : v.conns[x].remote = w.conns[x].remote
      /\ v.conns[m].remote = l
      /\ \A k \in DOMAIN w.links : v.links[k] = w.links[k]
      /\ \A k \in DOMAIN v.links \ DOMAIN w.links : v.links[k] = NewLink(s, t)
      /\ l \in DOMAIN v.links /\ v.links[l].ends[s] = "up"
  BY <1>2 DEF Joined
<1>4. \A k \in DOMAIN v.links : \A e \in DOMAIN v.links[k].ends :
        v.links[k].ends[e] = "gone" => k \in DOMAIN w.links
  BY <1>3 DEF NewLink
<1>5. m \in Clients => s = At[m]
  BY DEF ServerOf
<1>6. \A c \in Clients \cap DOMAIN w.conns : c # m => v.conns[c].remote = w.conns[c].remote
  BY <1>3
<1> HIDE DEF s
<1>7. LeftLinks(v)
  BY <1>3, <1>4, <1>5, <1>6 DEF Well, LeftLinks
<1> QED
  BY <1>3, <1>7 DEF JoinsOut, Well

LEMMA HereWell ==
  ASSUME NEW w, NEW u, NEW m \in DOMAIN w.conns, Well(w), NEW req, Here(w, u, m, req)
  PROVE  Well(u) /\ DOMAIN u.conns = DOMAIN w.conns /\ u.games = w.games
<1>1. CASE u = w
  BY <1>1
<1>2. CASE u # w
  BY <1>2, PlacedWell DEF Here, OwnEnd, Placed
<1> QED
  BY <1>1, <1>2

LEMMA RanWell ==
  ASSUME NEW w, NEW v, NEW m \in DOMAIN w.conns, Well(w), NEW req, Ran(w, v, m, req)
  PROVE  Well(v) /\ DOMAIN v.conns = DOMAIN w.conns /\ DOMAIN v.games \subseteq DOMAIN w.games
<1>1. CASE Forwarded(w, v, m, req)
  <2>1. PICK l \in {w.conns[m].remote, 0} : Placed(w, v, m, w.conns[m].game, l)
    BY <1>1 DEF Forwarded
  <2>2. Linked(v) /\ Agree(v) /\ v.links = w.links /\ v.games = w.games
    BY <1>1 DEF Forwarded, OwnEnd
  <2> QED
    BY <2>1, <2>2, PlacedWell DEF Placed
<1>2. CASE \E u : /\ Here(w, u, m, req)
                  /\ Serves(u, v, m, Answers(req)) \/ (Answers(req) = "join" /\ JoinsOut(u, v, m, req))
  <2>1. PICK u : /\ Here(w, u, m, req)
                 /\ Serves(u, v, m, Answers(req)) \/ (Answers(req) = "join" /\ JoinsOut(u, v, m, req))
    BY <1>2
  <2>2. Well(u) /\ DOMAIN u.conns = DOMAIN w.conns /\ u.games = w.games
    BY <2>1, HereWell
  <2>3. Well(v) /\ DOMAIN v.conns = DOMAIN u.conns /\ DOMAIN v.games \subseteq DOMAIN u.games
    BY <2>1, <2>2, StaysWell, JoinedWell DEF Serves
  <2> QED
    BY <2>2, <2>3
<1> QED
  BY <1>1, <1>2 DEF Ran

LEMMA RunDoes ==
  ASSUME NEW w, NEW m \in DOMAIN w.conns, Well(w), KnownOK, NEW req \in Requests, NEW reachable
  PROVE  LET v == Run(w, m, req, reachable) IN
         /\ Well(v) /\ DOMAIN v.games \subseteq DOMAIN w.games
         /\ \E u : /\ Ran(w, u, m, req) /\ Well(u)
                   /\ IF Answers(req) = "leave" THEN Loses(u, v, {m}) ELSE v = u
<1>1. PICK u, v : /\ u = HandleLobby(w, m, req, reachable)
                  /\ v = IF Answers(req) = "leave" THEN Gone(u, m) ELSE u
  OBVIOUS
<1>2. Run(w, m, req, reachable) = v
  BY <1>1 DEF Run, Gone
<1>3. Ran(w, u, m, req) /\ (Answers(req) = "leave" => u.conns[m].game = 0)
  BY <1>1, HandleLobbyDoes DEF Well
<1>4. Well(u) /\ DOMAIN u.games \subseteq DOMAIN w.games
  BY <1>3, RanWell
<1>5. CASE Answers(req) = "leave"
  <2>1. Loses(u, v, {m}) /\ Linked(v) /\ Agree(v) /\ v.games = u.games
    BY <1>1, <1>3, <1>4, <1>5, GoneAgrees DEF Well
  <2> QED
    BY <1>2, <1>3, <1>4, <1>5, <2>1, LosesWell
<1>6. CASE Answers(req) # "leave"
  BY <1>1, <1>2, <1>3, <1>4, <1>6
<1> QED
  BY <1>5, <1>6

-----------------------------------------------------------------------------
(* The links *)

\* What was said to players is on its way no more, or what was asked for.
TakenOut(w, l) == [w EXCEPT !.wire[l].out = Tail(@)]
TakenBack(w, l) == [w EXCEPT !.wire[l].back = Tail(@)]

LEMMA WireWell ==
  ASSUME NEW w, NEW v, Well(w), ButWire(w, v), Wired(v)
  PROVE  Well(v)
<1>1. Linked(v)
  BY DEF Well, Linked, ButWire
<1>2. Agree(v)
  BY DEF Well, Agree, ButWire
<1>3. LeftLinks(v)
  BY DEF Well, LeftLinks, ButWire
<1> QED
  BY <1>1, <1>2, <1>3 DEF Well

LEMMA TakenOutDoes ==
  ASSUME NEW w, Well(w), NEW l \in DOMAIN w.links, w.wire[l].out # <<>>
  PROVE  LET v == TakenOut(w, l) IN
         /\ Well(v) /\ ButWire(w, v)
         /\ \A k \in DOMAIN w.links \ {l} : v.wire[k] = w.wire[k]
         /\ v.wire[l].out = Tail(w.wire[l].out) /\ v.wire[l].back = w.wire[l].back
<1> DEFINE u == Tail(w.wire[l].out)
           k == [w.wire[l] EXCEPT !.out = u]
           v == TakenOut(w, l)
<1>1. v = PutWire(w, l, k)
  BY DEF TakenOut, PutWire
<1> HIDE DEF v
<1>2. w.wire[l] \in Wire /\ w.wire[l].out \in Seq(Message)
  BY WiredHas DEF Well, Linked
<1>3. u \in Seq(Message)
  BY <1>2
<1>4. k \in Wire /\ k.out = u /\ k.back = w.wire[l].back
  <2> HIDE DEF u
  <2> QED
    BY <1>2, <1>3, WireOf
<1> HIDE DEF k
<1>5. /\ ButWire(w, v) /\ Wired(v) /\ v.wire[l] = k
      /\ \A i \in DOMAIN w.links \ {l} : v.wire[i] = w.wire[i]
  BY <1>1, <1>4, PutWireDoes DEF Well, Linked
<1>6. Well(v)
  BY <1>5, WireWell
<1> QED
  BY <1>4, <1>5, <1>6 DEF v

LEMMA TakenBackDoes ==
  ASSUME NEW w, Well(w), NEW l \in DOMAIN w.links, w.wire[l].back # <<>>
  PROVE  LET v == TakenBack(w, l) IN
         /\ Well(v) /\ ButWire(w, v)
         /\ \A k \in DOMAIN w.links \ {l} : v.wire[k] = w.wire[k]
         /\ v.wire[l].back = Tail(w.wire[l].back) /\ v.wire[l].out = w.wire[l].out
<1> DEFINE u == Tail(w.wire[l].back)
           k == [w.wire[l] EXCEPT !.back = u]
           v == TakenBack(w, l)
<1>1. v = PutWire(w, l, k)
  BY DEF TakenBack, PutWire
<1> HIDE DEF v
<1>2. w.wire[l] \in Wire /\ w.wire[l].back \in Seq(Answer)
  BY WiredHas DEF Well, Linked
<1>3. u \in Seq(Answer)
  BY <1>2
<1>4. k \in Wire /\ k.back = u /\ k.out = w.wire[l].out
  <2> HIDE DEF u
  <2> QED
    BY <1>2, <1>3, WireOf
<1> HIDE DEF k
<1>5. /\ ButWire(w, v) /\ Wired(v) /\ v.wire[l] = k
      /\ \A i \in DOMAIN w.links \ {l} : v.wire[i] = w.wire[i]
  BY <1>1, <1>4, PutWireDoes DEF Well, Linked
<1>6. Well(v)
  BY <1>5, WireWell
<1> QED
  BY <1>4, <1>5, <1>6 DEF v

\* m came by its link, in place of who was m before.
Taken(w, v, m, user) ==
  /\ Wired(v)
  /\ DOMAIN v.conns = DOMAIN w.conns \cup {m}
  /\ \A x \in DOMAIN w.conns \ {m} : v.conns[x].user = w.conns[x].user /\ v.conns[x].remote = w.conns[x].remote
  /\ v.conns[m] = [user |-> user, game |-> 0, remote |-> 0]
  /\ v.links = w.links /\ DOMAIN v.games \subseteq DOMAIN w.games /\ SameServers(w, v)
  /\ \A l \in DOMAIN w.links : /\ v.wire[l].out = w.wire[l].out
                               /\ ToSet(w.wire[l].back) \subseteq ToSet(v.wire[l].back)
  /\ \A c \in Clients : v.owed[c] \subseteq w.owed[c]

LEMMA TakePlayerDoes ==
  ASSUME NEW w, Well(w), NEW m \in People \ Clients, m[1] \in DOMAIN w.links,
         w.links[m[1]].ends[w.links[m[1]].to] # "gone", NEW user \in Clients
  PROVE  LET v == TakePlayer(w, m, user) IN Well(v) /\ Taken(w, v, m, user)
<1>1. PICK u, c : u = RemovePlayer(w, m) /\ c = [user |-> user, game |-> 0, remote |-> 0]
  OBVIOUS
<1>2. PICK v : v = Came(u, m, c)
  OBVIOUS
<1>3. v = TakePlayer(w, m, user)
  BY <1>1, <1>2 DEF TakePlayer, Came
<1>4. Loses(w, u, {m}) /\ Linked(u) /\ Agree(u)
  BY <1>1, RemovePlayerDoes DEF Well
<1>5. Well(u)
  BY <1>4, LosesWell
<1>6. c \in Connection
  BY <1>1, ZeroIs DEF Connection
<1>7. u \in Worlds
  BY <1>4 DEF Linked, Wired
<1>8. /\ ButConns(u, v)
      /\ DOMAIN v.conns = DOMAIN u.conns \cup {m}
      /\ \A x \in DOMAIN u.conns \ {m} : v.conns[x] = u.conns[x]
      /\ v.conns[m] = c
  BY <1>2, <1>6, <1>7, CameDoes
<1>9. DOMAIN u.conns = DOMAIN w.conns \ {m} /\ u.links = w.links
  BY <1>4 DEF Loses
<1>10. Wired(v)
  BY <1>4, <1>8 DEF ButConns, Linked, Wired
<1>11. Taken(w, v, m, user)
  <2>1. \A x \in DOMAIN w.conns \ {m} : x \in DOMAIN u.conns /\ v.conns[x] = u.conns[x]
    BY <1>8, <1>9
  <2>2. DOMAIN v.conns = DOMAIN w.conns \cup {m}
    BY <1>8, <1>9
  <2>3. v.links = w.links /\ v.wire = u.wire /\ v.owed = u.owed /\ v.games = u.games
    BY <1>8, <1>9 DEF ButConns
  <2>4. \A x \in DOMAIN w.conns \ {m} : v.conns[x].user = w.conns[x].user /\ v.conns[x].remote = w.conns[x].remote
    BY <1>4, <2>1 DEF Loses
  <2>5. DOMAIN v.games \subseteq DOMAIN w.games /\ SameServers(w, v)
    BY <1>4, <2>3 DEF Loses, SameServers
  <2>6. \A l \in DOMAIN w.links : /\ v.wire[l].out = w.wire[l].out
                                 /\ ToSet(w.wire[l].back) \subseteq ToSet(v.wire[l].back)
    BY <1>4, <2>3 DEF Loses
  <2>7. \A x \in Clients : v.owed[x] \subseteq w.owed[x]
    BY <1>4, <2>3 DEF Loses
  <2>8. v.conns[m] = [user |-> user, game |-> 0, remote |-> 0]
    BY <1>1, <1>8
  <2> QED
    BY <1>10, <2>2, <2>3, <2>4, <2>5, <2>6, <2>7, <2>8 DEF Taken
<1>12. c.game = 0 /\ c.remote = 0
  BY <1>1
<1>13. v.links = u.links /\ v.games = u.games
  BY <1>8 DEF ButConns
<1>14. Linked(v)
  BY <1>4, <1>8, <1>9, <1>10, <1>12, <1>13 DEF Linked
<1>15. Agree(v)
  <2>1. \A g \in DOMAIN v.games : g # 0
    BY <1>7, <1>13, WorldHas
  <2>2. \A g \in DOMAIN v.games : {x \in DOMAIN v.conns : v.conns[x].game = g} = {x \in DOMAIN u.conns : u.conns[x].game = g}
    BY <1>8, <1>9, <1>12, <2>1
  <2>3. \A g \in DOMAIN v.games :
          /\ v.games[g].players # <<>>
          /\ IsInjective(v.games[g].players)
          /\ ToSet(v.games[g].players) = {x \in DOMAIN v.conns : v.conns[x].game = g}
    BY <1>4, <1>13, <2>2 DEF Agree
  <2>4. \A x \in DOMAIN v.conns : /\ v.conns[x].game \in DOMAIN v.games \cup {0}
                                  /\ v.conns[x].remote # 0 => v.conns[x].game = 0
    BY <1>4, <1>8, <1>9, <1>12, <1>13 DEF Agree
  <2> QED
    BY <2>3, <2>4 DEF Agree
<1>16. LeftLinks(v)
  <2>1. \A c2 \in Clients \cap DOMAIN v.conns : c2 \in DOMAIN u.conns /\ v.conns[c2] = u.conns[c2]
    BY <1>8, <1>9
  <2>2. \A x \in DOMAIN v.conns \ Clients : x = m \/ x \in DOMAIN u.conns \ Clients
    BY <1>8
  <2> QED
    BY <1>5, <1>9, <1>13, <2>1, <2>2 DEF Well, LeftLinks
<1> QED
  BY <1>3, <1>11, <1>14, <1>15, <1>16 DEF Well

RemoveAll(w, list) == FoldLeft(RemovePlayer, w, list)

\* The players go one by one.
LEMMA RemoveGoes ==
  ASSUME NEW W, NEW w \in W, NEW T, NEW list \in Seq(T),
         \A v \in W, m \in ToSet(list) : RemovePlayer(v, m) \in W
  PROVE  \E f \in [0 .. Len(list) -> W] :
           /\ f[0] = w /\ RemoveAll(w, list) = f[Len(list)]
           /\ \A i \in 1 .. Len(list) : f[i] = RemovePlayer(f[i - 1], list[i])
<1> DEFINE X == DOMAIN list
           step == [i \in X |-> [v \in W |-> RemovePlayer(v, list[i])]]
           Defines(f) == f = [s \in SUBSET X |-> IF s = {} THEN w
                                                 ELSE RemovePlayer(f[s \ {Max(s)}], list[Max(s)])]
           F == CHOOSE f : Defines(f)
<1>1. X = 1 .. Len(list) /\ Len(list) \in Nat /\ \A i \in X : list[i] \in ToSet(list)
  BY DEF ToSet
<1>2. step \in [X -> [W -> W]]
  BY <1>1
<1>3. X \in SUBSET Nat /\ IsFiniteSet(X)
  BY <1>1, FS_Interval
<1>4. PICK G \in [SUBSET X -> W] : Folds(G, X, w, step)
  <2> HIDE DEF step
  <2> QED
    BY <1>2, <1>3, FoldExists
<1>5. \A s \in SUBSET X : s # {} => Max(s) \in s /\ \A y \in s : Max(s) >= y
  BY <1>3, FS_Subset, MaxOf
<1>6. ASSUME NEW s \in SUBSET X, s # {}
      PROVE  G[s] = RemovePlayer(G[s \ {Max(s)}], list[Max(s)])
  <2>1. Max(s) \in X /\ G[s \ {Max(s)}] \in W
    BY <1>4, <1>5, <1>6
  <2>2. step[Max(s)][G[s \ {Max(s)}]] = RemovePlayer(G[s \ {Max(s)}], list[Max(s)])
    BY <2>1
  <2> QED
    BY <1>4, <1>6, <2>2 DEF Folds
<1>7. G[{}] = w
  BY <1>4 DEF Folds
<1>8. Defines(G)
  <2>1. G = [s \in SUBSET X |-> G[s]]
    BY <1>4
  <2> HIDE DEF X
  <2> QED
    BY <1>6, <1>7, <2>1
<1>9. Defines(F)
  <2> HIDE DEF Defines
  <2> QED
    BY <1>8
<1>10. RemoveAll(w, list) = F[X]
  BY DEF RemoveAll, FoldLeft, MapThenFoldSet
<1> HIDE DEF F, step
<1> DEFINE f == [i \in 0 .. Len(list) |-> F[1 .. i]]
<1>11. F[1 .. 0] = w
  <2>1. 1 .. 0 = {} /\ {} \in SUBSET X
    OBVIOUS
  <2> HIDE DEF X
  <2> QED
    BY <1>9, <2>1
<1>12. ASSUME NEW i \in 1 .. Len(list)
       PROVE  F[1 .. i] = RemovePlayer(F[1 .. i - 1], list[i])
  <2>1. 1 .. i \in SUBSET X /\ 1 .. i # {} /\ i \in 1 .. i
    BY <1>1
  <2>2. Max(1 .. i) \in 1 .. i /\ Max(1 .. i) >= i
    BY <1>5, <2>1
  <2>3. Max(1 .. i) = i
    BY <2>2
  <2>4. (1 .. i) \ {i} = 1 .. i - 1
    OBVIOUS
  <2> HIDE DEF X
  <2> QED
    BY <1>9, <2>1, <2>3, <2>4
<1> DEFINE C == {i \in 0 .. Len(list) : F[1 .. i] \in W}
<1>13. 0 .. Len(list) \subseteq C
  <2>1. 0 \in C
    BY <1>1, <1>11
  <2>2. ASSUME NEW i \in 1 .. Len(list), i - 1 \in C PROVE i \in C
    BY <1>1, <1>12, <2>2
  <2> HIDE DEF C
  <2> QED
    BY <1>1, <2>1, <2>2, UpTo
<1>14. f \in [0 .. Len(list) -> W]
  BY <1>13
<1>15. /\ f[0] = w /\ RemoveAll(w, list) = f[Len(list)]
       /\ \A i \in 1 .. Len(list) : f[i] = RemovePlayer(f[i - 1], list[i])
  <2>1. 0 \in 0 .. Len(list) /\ Len(list) \in 0 .. Len(list)
    BY <1>1
  <2>2. \A i \in 1 .. Len(list) : i \in 0 .. Len(list) /\ i - 1 \in 0 .. Len(list)
    BY <1>1
  <2> QED
    BY <1>1, <1>10, <1>11, <1>12, <2>1, <2>2
<1> HIDE DEF f
<1> QED
  BY <1>14, <1>15

LEMMA LosesTwice ==
  ASSUME NEW w, NEW u, NEW v, NEW S, NEW T, Loses(w, u, S), Loses(u, v, T)
  PROVE  Loses(w, v, S \cup T)
<1>1. DOMAIN v.conns = DOMAIN w.conns \ (S \cup T) /\ DOMAIN v.conns \subseteq DOMAIN u.conns
  BY DEF Loses
<1> QED
  BY <1>1 DEF Loses, SameServers

\* All in the list are gone.
LEMMA RemoveAllDoes ==
  ASSUME NEW w, Linked(w), Agree(w), NEW list \in Seq(People)
  PROVE  LET v == RemoveAll(w, list) IN Linked(v) /\ Agree(v) /\ Loses(w, v, ToSet(list))
<1> DEFINE W == {v \in Worlds : Linked(v) /\ Agree(v)}
           First(i) == {list[j] : j \in 1 .. i}
<1>1. w \in W
  BY DEF Linked, Wired
<1>2. ASSUME NEW v \in W, NEW p \in ToSet(list) PROVE RemovePlayer(v, p) \in W
  <2>1. PICK u : u = RemovePlayer(v, p)
    OBVIOUS
  <2>2. Linked(u) /\ Agree(u)
    BY <2>1, RemovePlayerDoes
  <2> QED
    BY <2>1, <2>2 DEF Linked, Wired
<1>3. \A v \in W : Linked(v) /\ Agree(v)
  OBVIOUS
<1> HIDE DEF W
<1>4. PICK f \in [0 .. Len(list) -> W] :
        /\ f[0] = w /\ RemoveAll(w, list) = f[Len(list)]
        /\ \A i \in 1 .. Len(list) : f[i] = RemovePlayer(f[i - 1], list[i])
  BY <1>1, <1>2, RemoveGoes
<1> DEFINE C == {i \in 0 .. Len(list) : Loses(w, f[i], First(i))}
<1>5. 0 \in C
  <2>1. First(0) = {}
    OBVIOUS
  <2>2. Loses(w, w, {})
    BY DEF Loses, Linked, SameServers
  <2>3. 0 \in 0 .. Len(list)
    OBVIOUS
  <2> HIDE DEF First
  <2>4. Loses(w, f[0], First(0))
    BY <1>4, <2>1, <2>2
  <2> QED
    BY <2>3, <2>4
<1>6. ASSUME NEW i \in 1 .. Len(list), i - 1 \in C PROVE i \in C
  <2>1. i \in 0 .. Len(list) /\ i - 1 \in 0 .. Len(list)
    OBVIOUS
  <2>2. PICK u, v, p : u = f[i - 1] /\ v = f[i] /\ p = list[i]
    OBVIOUS
  <2>3. v = RemovePlayer(u, p) /\ u \in W
    BY <1>4, <2>1, <2>2
  <2>4. First(i) = First(i - 1) \cup {p}
    <3>1. 1 .. i = (1 .. i - 1) \cup {i}
      OBVIOUS
    <3> QED
      BY <2>2, <3>1
  <2>5. Loses(w, u, First(i - 1))
    BY <1>6, <2>2
  <2> HIDE DEF First
  <2>6. Loses(u, v, {p})
    BY <1>3, <2>3, RemovePlayerDoes
  <2>7. Loses(w, v, First(i))
    BY <2>4, <2>5, <2>6, LosesTwice
  <2> QED
    BY <2>1, <2>2, <2>7
<1> HIDE DEF C
<1>7. Len(list) \in C /\ f[Len(list)] \in W
  <2>1. Len(list) \in Nat /\ Len(list) \in 0 .. Len(list)
    OBVIOUS
  <2> QED
    BY <1>4, <1>5, <1>6, <2>1, UpTo
<1>8. First(Len(list)) = ToSet(list)
  <2>1. DOMAIN list = 1 .. Len(list)
    OBVIOUS
  <2> QED
    BY <2>1 DEF ToSet
<1> HIDE DEF First
<1> QED
  BY <1>3, <1>4, <1>7, <1>8 DEF C

GoneAll(w, list) == FoldLeft(GameIsGone, w, list)

\* The clients whose game was at the other end are told one by one.
LEMMA TellsGoes ==
  ASSUME NEW W, NEW w \in W, NEW T, NEW list \in Seq(T),
         \A v \in W, m \in ToSet(list) : GameIsGone(v, m) \in W
  PROVE  \E f \in [0 .. Len(list) -> W] :
           /\ f[0] = w /\ GoneAll(w, list) = f[Len(list)]
           /\ \A i \in 1 .. Len(list) : f[i] = GameIsGone(f[i - 1], list[i])
<1> DEFINE X == DOMAIN list
           step == [i \in X |-> [v \in W |-> GameIsGone(v, list[i])]]
           Defines(f) == f = [s \in SUBSET X |-> IF s = {} THEN w
                                                 ELSE GameIsGone(f[s \ {Max(s)}], list[Max(s)])]
           F == CHOOSE f : Defines(f)
<1>1. X = 1 .. Len(list) /\ Len(list) \in Nat /\ \A i \in X : list[i] \in ToSet(list)
  BY DEF ToSet
<1>2. step \in [X -> [W -> W]]
  BY <1>1
<1>3. X \in SUBSET Nat /\ IsFiniteSet(X)
  BY <1>1, FS_Interval
<1>4. PICK G \in [SUBSET X -> W] : Folds(G, X, w, step)
  <2> HIDE DEF step
  <2> QED
    BY <1>2, <1>3, FoldExists
<1>5. \A s \in SUBSET X : s # {} => Max(s) \in s /\ \A y \in s : Max(s) >= y
  BY <1>3, FS_Subset, MaxOf
<1>6. ASSUME NEW s \in SUBSET X, s # {}
      PROVE  G[s] = GameIsGone(G[s \ {Max(s)}], list[Max(s)])
  <2>1. Max(s) \in X /\ G[s \ {Max(s)}] \in W
    BY <1>4, <1>5, <1>6
  <2>2. step[Max(s)][G[s \ {Max(s)}]] = GameIsGone(G[s \ {Max(s)}], list[Max(s)])
    BY <2>1
  <2> QED
    BY <1>4, <1>6, <2>2 DEF Folds
<1>7. G[{}] = w
  BY <1>4 DEF Folds
<1>8. Defines(G)
  <2>1. G = [s \in SUBSET X |-> G[s]]
    BY <1>4
  <2> HIDE DEF X
  <2> QED
    BY <1>6, <1>7, <2>1
<1>9. Defines(F)
  <2> HIDE DEF Defines
  <2> QED
    BY <1>8
<1>10. GoneAll(w, list) = F[X]
  BY DEF GoneAll, FoldLeft, MapThenFoldSet
<1> HIDE DEF F, step
<1> DEFINE f == [i \in 0 .. Len(list) |-> F[1 .. i]]
<1>11. F[1 .. 0] = w
  <2>1. 1 .. 0 = {} /\ {} \in SUBSET X
    OBVIOUS
  <2> HIDE DEF X
  <2> QED
    BY <1>9, <2>1
<1>12. ASSUME NEW i \in 1 .. Len(list)
       PROVE  F[1 .. i] = GameIsGone(F[1 .. i - 1], list[i])
  <2>1. 1 .. i \in SUBSET X /\ 1 .. i # {} /\ i \in 1 .. i
    BY <1>1
  <2>2. Max(1 .. i) \in 1 .. i /\ Max(1 .. i) >= i
    BY <1>5, <2>1
  <2>3. Max(1 .. i) = i
    BY <2>2
  <2>4. (1 .. i) \ {i} = 1 .. i - 1
    OBVIOUS
  <2> HIDE DEF X
  <2> QED
    BY <1>9, <2>1, <2>3, <2>4
<1> DEFINE C == {i \in 0 .. Len(list) : F[1 .. i] \in W}
<1>13. 0 .. Len(list) \subseteq C
  <2>1. 0 \in C
    BY <1>1, <1>11
  <2>2. ASSUME NEW i \in 1 .. Len(list), i - 1 \in C PROVE i \in C
    BY <1>1, <1>12, <2>2
  <2> HIDE DEF C
  <2> QED
    BY <1>1, <2>1, <2>2, UpTo
<1>14. f \in [0 .. Len(list) -> W]
  BY <1>13
<1>15. /\ f[0] = w /\ GoneAll(w, list) = f[Len(list)]
       /\ \A i \in 1 .. Len(list) : f[i] = GameIsGone(f[i - 1], list[i])
  <2>1. 0 \in 0 .. Len(list) /\ Len(list) \in 0 .. Len(list)
    BY <1>1
  <2>2. \A i \in 1 .. Len(list) : i \in 0 .. Len(list) /\ i - 1 \in 0 .. Len(list)
    BY <1>1
  <2> QED
    BY <1>1, <1>10, <1>11, <1>12, <2>1, <2>2
<1> HIDE DEF f
<1> QED
  BY <1>14, <1>15

\* Those in S play nowhere, and wait for nothing.
Freed(w, v, S) ==
  /\ v.games = w.games /\ v.links = w.links /\ v.wire = w.wire /\ v.held = w.held
  /\ DOMAIN v.conns = DOMAIN w.conns
  /\ \A x \in DOMAIN w.conns : /\ v.conns[x].user = w.conns[x].user
                               /\ v.conns[x].game = w.conns[x].game
                               /\ v.conns[x].remote = IF x \in S THEN 0 ELSE w.conns[x].remote
  /\ \A c \in Clients : v.owed[c] = IF c \in S THEN {} ELSE w.owed[c]

LEMMA GameIsGoneDoes ==
  ASSUME NEW w, Linked(w), Agree(w), NEW c \in Clients \cap DOMAIN w.conns, w.conns[c].game = 0
  PROVE  LET v == GameIsGone(w, c) IN Linked(v) /\ Agree(v) /\ Freed(w, v, {c})
<1> DEFINE u == Deliver(w, c, "push", Nowhere)
           x == OnLink(u, c, 0)
           y == InGame(x, c, 0)
           v == Owes(y, c, {})
<1>1. GameIsGone(w, c) = v
  BY DEF GameIsGone, OnLink, InGame, Owes
<1>2. Delivered(w, u, c, "push", Nowhere)
  BY RecordsHave, DeliverDoes DEF Linked, Wired
<1>3. w.owed[c] \in Owed
  BY WorldHas DEF Linked, Wired
<1> HIDE DEF u
<1>4. ButConns(u, x) /\ Placed(u, x, c, u.conns[c].game, 0)
  BY <1>2, ZeroIs, OnLinkDoes DEF Delivered
<1> HIDE DEF x
<1>5. ButConns(x, y) /\ Placed(x, y, c, 0, x.conns[c].remote)
  <2>1. x \in Worlds /\ c \in DOMAIN x.conns
    BY <1>2, <1>4 DEF Delivered, ButConns, Placed
  <2> QED
    BY <2>1, ZeroIs, InGameDoes
<1> HIDE DEF y
<1>6. ButOwed(y, v) /\ \A d \in Clients : v.owed[d] = IF d = c THEN {} ELSE y.owed[d]
  <2>1. y \in Worlds
    BY <1>5 DEF ButConns
  <2>2. {} \in Owed
    BY DEF Owed
  <2> QED
    BY <2>1, <2>2, OwesDoes
<1> HIDE DEF v
<1>7. Placed(w, v, c, 0, 0)
  BY <1>2, <1>4, <1>5, <1>6 DEF Delivered, Placed, ButOwed
<1>8. v \in Worlds /\ v.games = w.games /\ v.links = w.links /\ v.wire = w.wire /\ v.held = w.held
  BY <1>2, <1>4, <1>5, <1>6 DEF Delivered, ButConns, ButOwed
<1>9. \A d \in Clients \ {c} : v.owed[d] = w.owed[d]
  <2>1. y.owed = u.owed
    BY <1>4, <1>5 DEF ButConns
  <2>2. \A d \in Clients \ {c} : u.owed[d] = w.owed[d]
    BY <1>2 DEF Delivered
  <2> QED
    BY <1>6, <2>1, <2>2
<1>10. Freed(w, v, {c})
  BY <1>6, <1>7, <1>8, <1>9 DEF Freed, Placed
<1>11. Linked(v)
  <2>1. Wired(v)
    BY <1>8 DEF Linked, Wired
  <2> QED
    BY <1>8, <1>10, <2>1 DEF Linked, Freed
<1>12. Agree(v)
  BY <1>8, <1>10 DEF Agree, Freed
<1> QED
  BY <1>1, <1>10, <1>11, <1>12

LEMMA FreedTwice ==
  ASSUME NEW w, NEW u, NEW v, NEW S, NEW T, Freed(w, u, S), Freed(u, v, T)
  PROVE  Freed(w, v, S \cup T)
BY DEF Freed

LEMMA GoneAllDoes ==
  ASSUME NEW w, Linked(w), Agree(w), NEW list \in Seq(Clients),
         \A c \in ToSet(list) : c \in DOMAIN w.conns /\ w.conns[c].game = 0
  PROVE  LET v == GoneAll(w, list) IN Linked(v) /\ Agree(v) /\ Freed(w, v, ToSet(list))
<1> DEFINE W == {v \in Worlds : /\ Linked(v) /\ Agree(v)
                                /\ \A c \in ToSet(list) : c \in DOMAIN v.conns /\ v.conns[c].game = 0}
           First(i) == {list[j] : j \in 1 .. i}
<1>1. w \in W
  BY DEF Linked, Wired
<1>2. ToSet(list) \subseteq Clients
  <2>1. DOMAIN list = 1 .. Len(list)
    OBVIOUS
  <2> QED
    BY <2>1 DEF ToSet
<1>3. ASSUME NEW v \in W, NEW p \in ToSet(list) PROVE GameIsGone(v, p) \in W
  <2>1. PICK u : u = GameIsGone(v, p)
    OBVIOUS
  <2>2. p \in Clients \cap DOMAIN v.conns /\ v.conns[p].game = 0
    BY <1>2
  <2>3. Linked(u) /\ Agree(u) /\ Freed(v, u, {p})
    BY <2>1, <2>2, GameIsGoneDoes
  <2>4. u \in Worlds
    BY <2>3 DEF Linked, Wired
  <2> QED
    BY <2>1, <2>3, <2>4 DEF Freed
<1>4. \A v \in W : Linked(v) /\ Agree(v) /\ \A c \in ToSet(list) : c \in DOMAIN v.conns /\ v.conns[c].game = 0
  OBVIOUS
<1> HIDE DEF W
<1>5. PICK f \in [0 .. Len(list) -> W] :
        /\ f[0] = w /\ GoneAll(w, list) = f[Len(list)]
        /\ \A i \in 1 .. Len(list) : f[i] = GameIsGone(f[i - 1], list[i])
  BY <1>1, <1>3, TellsGoes
<1> DEFINE C == {i \in 0 .. Len(list) : Freed(w, f[i], First(i))}
<1>6. 0 \in C
  <2>1. First(0) = {}
    OBVIOUS
  <2>2. Freed(w, w, {})
    BY DEF Freed
  <2>3. 0 \in 0 .. Len(list)
    OBVIOUS
  <2> HIDE DEF First
  <2>4. Freed(w, f[0], First(0))
    BY <1>5, <2>1, <2>2
  <2> QED
    BY <2>3, <2>4
<1>7. ASSUME NEW i \in 1 .. Len(list), i - 1 \in C PROVE i \in C
  <2>1. i \in 0 .. Len(list) /\ i - 1 \in 0 .. Len(list)
    OBVIOUS
  <2>2. PICK u, v, p : u = f[i - 1] /\ v = f[i] /\ p = list[i]
    OBVIOUS
  <2>3. v = GameIsGone(u, p) /\ u \in W /\ p \in ToSet(list)
    <3>1. p \in ToSet(list)
      BY <2>2 DEF ToSet
    <3> QED
      BY <1>5, <2>1, <2>2, <3>1
  <2>4. First(i) = First(i - 1) \cup {p}
    <3>1. 1 .. i = (1 .. i - 1) \cup {i}
      OBVIOUS
    <3> QED
      BY <2>2, <3>1
  <2>5. Freed(w, u, First(i - 1))
    BY <1>7, <2>2
  <2> HIDE DEF First
  <2>6. Freed(u, v, {p})
    <3>1. p \in Clients \cap DOMAIN u.conns /\ u.conns[p].game = 0
      BY <1>2, <1>4, <2>3
    <3> QED
      BY <1>4, <2>3, <3>1, GameIsGoneDoes
  <2>7. Freed(w, v, First(i))
    BY <2>4, <2>5, <2>6, FreedTwice
  <2> QED
    BY <2>1, <2>2, <2>7
<1> HIDE DEF C
<1>8. Len(list) \in C /\ f[Len(list)] \in W
  <2>1. Len(list) \in Nat /\ Len(list) \in 0 .. Len(list)
    OBVIOUS
  <2> QED
    BY <1>5, <1>6, <1>7, <2>1, UpTo
<1>9. First(Len(list)) = ToSet(list)
  <2>1. DOMAIN list = 1 .. Len(list)
    OBVIOUS
  <2> QED
    BY <2>1 DEF ToSet
<1> HIDE DEF First
<1> QED
  BY <1>4, <1>5, <1>8, <1>9 DEF C

\* A finite set as a list.
LEMMA ListOf ==
  ASSUME NEW S, IsFiniteSet(S)
  PROVE  SetToSeq(S) \in Seq(S) /\ ToSet(SetToSeq(S)) = S
<1> DEFINE n == Cardinality(S)
           D == 1 .. n
<1>1. n \in Nat /\ Bijection(D, S) # {}
  BY FS_CardinalityType DEF ExistsBijection
<1>2. PICK b : b \in Bijection(D, S)
  BY <1>1
<1>3. b \in [D -> S] /\ IsInjective(b)
  BY <1>2 DEF Bijection, Injection
<1>4. SetToSeq(S) = CHOOSE f \in [D -> S] : IsInjective(f)
  BY DEF SetToSeq
<1>5. PICK f : f = SetToSeq(S)
  OBVIOUS
<1>6. f \in [D -> S] /\ IsInjective(f)
  <2> HIDE DEF D
  <2> QED
    BY <1>3, <1>4, <1>5
<1>7. f \in Injection(D, S)
  BY <1>6 DEF Injection
<1>8. Cardinality(D) = n
  BY <1>1, FS_Interval
<1>9. f \in Surjection(D, S)
  <2> HIDE DEF D
  <2> QED
    BY <1>7, <1>8, FS_Injection
<1>10. f \in Seq(S)
  BY <1>1, <1>6
<1>11. ToSet(f) = S
  BY <1>6, <1>9 DEF Surjection, ToSet
<1> QED
  BY <1>5, <1>10, <1>11

LEMMA PeopleAreFinite ==
  ASSUME NEW S \in SUBSET People
  PROVE  IsFiniteSet(S)
<1>1. IsFiniteSet(Clients) /\ Id \in [Clients -> Nat \ {0}]
  BY ClientsAssumption
<1>2. Id \in [Clients -> Ids] /\ Id \in Surjection(Clients, Ids)
  BY <1>1 DEF Ids, Surjection
<1>3. IsFiniteSet(Ids)
  BY <1>1, <1>2, FS_Surjection
<1>4. MaxLinks \in Nat
  BY BoundsAssumption
<1>5. IsFiniteSet(1 .. MaxLinks)
  BY <1>4, FS_Interval
<1>6. IsFiniteSet((1 .. MaxLinks) \X Ids)
  BY <1>3, <1>5, FS_Product
<1>7. IsFiniteSet(People)
  BY <1>1, <1>6, FS_Union DEF People
<1> QED
  BY <1>7, FS_Subset

\* The end of link l at s is how it is now.
SetEnd(w, l, s, e) == [w EXCEPT !.links[l].ends[s] = e]

Ended(w, v, l, s, e) ==
  /\ ButLinks(w, v) /\ Linked(v) /\ Agree(v)
  /\ DOMAIN v.links = DOMAIN w.links
  /\ \A k \in DOMAIN w.links \ {l} : v.links[k] = w.links[k]
  /\ v.links[l].from = w.links[l].from /\ v.links[l].to = w.links[l].to
  /\ v.links[l].broken = w.links[l].broken
  /\ v.links[l].ends = [w.links[l].ends EXCEPT ![s] = e]

LEMMA SetEndDoes ==
  ASSUME NEW w, Linked(w), Agree(w), NEW l \in DOMAIN w.links, NEW s \in DOMAIN w.links[l].ends,
         NEW e \in {"up", "closed", "gone"}
  PROVE  Ended(w, SetEnd(w, l, s, e), l, s, e)
<1> DEFINE d == [w.links[l].ends EXCEPT ![s] = e]
           k == [w.links[l] EXCEPT !.ends = d]
           n == [w.links EXCEPT ![l] = k]
           v == SetEnd(w, l, s, e)
<1>1. w \in Worlds /\ w.links \in Seq(Link) /\ w.links[l] \in Link
  BY WiredHas, WorldHas DEF Linked, Wired
<1>2. v = [w EXCEPT !.links = n]
  BY DEF SetEnd
<1> HIDE DEF v
<1>3. k \in Link /\ k.ends = d /\ k.from = w.links[l].from /\ k.to = w.links[l].to /\ k.broken = w.links[l].broken
  <2>1. w.links[l].ends \in Ends /\ DOMAIN w.links[l].ends = {w.links[l].from, w.links[l].to}
    BY <1>1 DEF Link
  <2>2. PICK D \in SUBSET Servers : w.links[l].ends \in [D -> {"up", "closed", "gone"}]
    BY <2>1 DEF Ends
  <2>3. d \in [D -> {"up", "closed", "gone"}]
    BY <2>2
  <2>4. d \in Ends /\ DOMAIN d = DOMAIN w.links[l].ends
    BY <2>2, <2>3 DEF Ends
  <2> HIDE DEF d
  <2> QED
    BY <1>1, <2>1, <2>4 DEF Link
<1> HIDE DEF k
<1>4. n \in Seq(Link) /\ DOMAIN n = DOMAIN w.links /\ Len(n) = Len(w.links) /\ n[l] = k
      /\ \A i \in DOMAIN w.links \ {l} : n[i] = w.links[i]
  BY <1>1, <1>3
<1> HIDE DEF n
<1>5. ButLinks(w, v) /\ v.links = n
  BY <1>1, <1>2, <1>4, SetLinks
<1>6. Linked(v)
  BY <1>4, <1>5 DEF Linked, Wired, ButLinks
<1>7. Agree(v)
  BY <1>5 DEF Agree, ButLinks
<1> QED
  BY <1>3, <1>4, <1>5, <1>6, <1>7 DEF Ended, v

\* All who are at that end of the link are gone from it.
LinkLeft(w, l, s) ==
  LET came == SetToSeq({m \in DOMAIN w.conns \ Clients : m[1] = l /\ w.links[l].to = s})
      went == SetToSeq({c \in Clients \cap DOMAIN w.conns : At[c] = s /\ w.conns[c].remote = l})
  IN GoneAll(RemoveAll(SetEnd(w, l, s, "gone"), came), went)

Leaves(w, v, l, s) ==
  LET came == {m \in DOMAIN w.conns \ Clients : m[1] = l /\ w.links[l].to = s}
      went == {c \in Clients \cap DOMAIN w.conns : At[c] = s /\ w.conns[c].remote = l}
  IN \E u, x : u = SetEnd(w, l, s, "gone") /\ Loses(u, x, came) /\ Freed(x, v, went)

LEMMA LinkLeftDoes ==
  ASSUME NEW w, Well(w), NEW l \in DOMAIN w.links, NEW s \in DOMAIN w.links[l].ends
  PROVE  Well(LinkLeft(w, l, s)) /\ Leaves(w, LinkLeft(w, l, s), l, s)
<1> DEFINE came == {m \in DOMAIN w.conns \ Clients : m[1] = l /\ w.links[l].to = s}
           went == {c \in Clients \cap DOMAIN w.conns : At[c] = s /\ w.conns[c].remote = l}
<1>1. PICK u, x, v : /\ u = SetEnd(w, l, s, "gone")
                     /\ x = RemoveAll(u, SetToSeq(came))
                     /\ v = GoneAll(x, SetToSeq(went))
  OBVIOUS
<1>2. v = LinkLeft(w, l, s)
  BY <1>1 DEF LinkLeft
<1>3. /\ ButLinks(w, u) /\ Linked(u) /\ Agree(u)
      /\ DOMAIN u.links = DOMAIN w.links
      /\ \A k \in DOMAIN w.links \ {l} : u.links[k] = w.links[k]
      /\ u.links[l].from = w.links[l].from /\ u.links[l].to = w.links[l].to
      /\ u.links[l].ends = [w.links[l].ends EXCEPT ![s] = "gone"]
  <2>1. PICK e \in {"up", "closed", "gone"} : e = "gone"
    OBVIOUS
  <2>2. u = SetEnd(w, l, s, e) /\ Linked(w) /\ Agree(w)
    BY <1>1, <2>1 DEF Well
  <2>3. Ended(w, u, l, s, e)
    BY <2>2, SetEndDoes
  <2> QED
    BY <2>1, <2>3 DEF Ended
<1>4. DOMAIN w.conns \subseteq People
  BY WorldHas DEF Well, Linked, Wired
<1>5. /\ SetToSeq(came) \in Seq(came) /\ ToSet(SetToSeq(came)) = came
      /\ SetToSeq(went) \in Seq(went) /\ ToSet(SetToSeq(went)) = went
  <2>1. came \in SUBSET People /\ went \in SUBSET People
    BY <1>4
  <2> HIDE DEF came, went
  <2> QED
    BY <2>1, PeopleAreFinite, ListOf
<1>6. PICK a, b : a = SetToSeq(came) /\ b = SetToSeq(went)
  OBVIOUS
<1>7. a \in Seq(People) /\ ToSet(a) = came /\ b \in Seq(Clients) /\ ToSet(b) = went
  <2>1. came \subseteq People /\ went \subseteq Clients
    BY <1>4
  <2> HIDE DEF came, went
  <2> QED
    BY <1>5, <1>6, <2>1
<1>8. Linked(x) /\ Agree(x) /\ Loses(u, x, came)
  <2> HIDE DEF came
  <2> QED
    BY <1>1, <1>3, <1>6, <1>7, RemoveAllDoes
<1>9. \A c \in ToSet(b) : c \in DOMAIN x.conns /\ x.conns[c].game = 0
  <2>1. \A c \in went : c \in DOMAIN w.conns /\ c \notin came /\ w.conns[c].remote = l /\ l # 0
    BY WiredHas DEF Well, Linked
  <2>2. u.conns = w.conns
    BY <1>3 DEF ButLinks
  <2> HIDE DEF came, went
  <2>3. \A c \in went : c \in DOMAIN x.conns /\ x.conns[c].remote # 0
    BY <1>8, <2>1, <2>2 DEF Loses
  <2> QED
    BY <1>7, <1>8, <2>3 DEF Agree
<1>10. Linked(v) /\ Agree(v) /\ Freed(x, v, went)
  <2> HIDE DEF went
  <2> QED
    BY <1>1, <1>6, <1>7, <1>8, <1>9, GoneAllDoes
<1>11. /\ v.links = u.links /\ DOMAIN v.conns = DOMAIN w.conns \ came
       /\ \A y \in DOMAIN v.conns : v.conns[y].remote = IF y \in went THEN 0 ELSE w.conns[y].remote
  <2> HIDE DEF came, went
  <2> QED
    BY <1>3, <1>8, <1>10 DEF Loses, Freed, ButLinks
<1>12. \A k \in DOMAIN w.links : k # 0
  BY WiredHas DEF Well, Linked
<1>13. LeftLinks(v)
  <2>1. ASSUME NEW k \in DOMAIN v.links, NEW e \in DOMAIN v.links[k].ends, v.links[k].ends[e] = "gone"
        PROVE  /\ \A m \in DOMAIN v.conns \ Clients : m[1] = k => v.links[k].to # e
               /\ \A c \in Clients \cap DOMAIN v.conns : v.conns[c].remote = k => At[c] # e
    <3>1. k \in DOMAIN w.links /\ v.links[k].to = w.links[k].to
      BY <1>3, <1>11, <2>1
    <3>2. CASE k = l /\ e = s
      BY <1>11, <1>12, <3>1, <3>2
    <3>3. CASE ~ (k = l /\ e = s)
      <4>1. e \in DOMAIN w.links[k].ends /\ w.links[k].ends[e] = "gone"
        BY <1>3, <1>11, <2>1, <3>1, <3>3
      <4>2. /\ \A m \in DOMAIN w.conns \ Clients : m[1] = k => w.links[k].to # e
            /\ \A c \in Clients \cap DOMAIN w.conns : w.conns[c].remote = k => At[c] # e
        BY <3>1, <4>1 DEF Well, LeftLinks
      <4> HIDE DEF came, went
      <4> QED
        BY <1>11, <1>12, <3>1, <4>2
    <3> QED
      BY <3>2, <3>3
  <2> QED
    BY <2>1 DEF LeftLinks
<1> QED
  BY <1>1, <1>2, <1>8, <1>10, <1>13 DEF Well, Leaves

-----------------------------------------------------------------------------
(* What clients do of their own *)

\* A client is out of its game, wherever that was.
LEMMA DropRemoteWell ==
  ASSUME NEW w, Well(w), NEW m \in DOMAIN w.conns
  PROVE  Well(DropRemote(w, m))
<1>1. PICK v : v = DropRemote(w, m)
  OBVIOUS
<1>2. /\ Linked(v) /\ OwnEnd(w, v, m)
      /\ Placed(w, v, m, w.conns[m].game, 0)
  BY <1>1, DropRemoteDoes DEF Well
<1>3. Agree(v)
  BY <1>2 DEF Well, Agree, Placed, OwnEnd
<1>4. PICK l \in {w.conns[m].remote, 0} : l = 0
  OBVIOUS
<1>5. v.links = w.links
  BY <1>2 DEF OwnEnd
<1> QED
  BY <1>1, <1>2, <1>3, <1>4, <1>5, PlacedWell

LEMMA QuitWell ==
  ASSUME NEW w, Well(w), NEW m \in DOMAIN w.conns
  PROVE  LET u == DropRemote(w, m)
             v == LeaveGame(u, m)
         IN /\ Well(v) /\ AtHome(u, v) /\ v.conns[m].game = 0 /\ v.conns[m].remote = 0
            /\ DOMAIN v.conns = DOMAIN w.conns /\ DOMAIN v.games \subseteq DOMAIN w.games
<1>1. PICK u, v : u = DropRemote(w, m) /\ v = LeaveGame(u, m)
  OBVIOUS
<1>2. /\ Well(u) /\ OwnEnd(w, u, m)
      /\ Placed(w, u, m, w.conns[m].game, 0)
  BY <1>1, DropRemoteWell, DropRemoteDoes DEF Well
<1>3. m \in DOMAIN u.conns /\ DOMAIN u.conns = DOMAIN w.conns /\ u.games = w.games
  BY <1>2 DEF OwnEnd, Placed
<1>4. AtHome(u, v) /\ Left(u, v, m)
  BY <1>1, <1>2, <1>3, LeaveIsAtHome DEF Well
<1>5. Well(v) /\ DOMAIN v.conns = DOMAIN u.conns /\ DOMAIN v.games \subseteq DOMAIN u.games
  BY <1>2, <1>4, StaysWell
<1>6. v.conns[m].game = 0 /\ v.conns[m].remote = 0
  BY <1>2, <1>3, <1>4 DEF Left, Stays, Placed
<1> QED
  BY <1>1, <1>3, <1>4, <1>5, <1>6

\* c makes game n, which is its own.
NewGame(c) == [server |-> At[c], host |-> c, players |-> <<c>>, locked |-> FALSE]
Made(w, c, n) == [w EXCEPT !.games = With(@, n, NewGame(c)), !.conns[c].game = n]

Opens(w, v, c, n) ==
  /\ v.links = w.links /\ v.wire = w.wire /\ v.owed = w.owed /\ v.held = w.held
  /\ Placed(w, v, c, n, 0)
  /\ DOMAIN v.games = DOMAIN w.games \cup {n} /\ v.games[n].server = At[c]
  /\ \A i \in DOMAIN w.games \ {n} : v.games[i] = w.games[i]

LEMMA MadeDoes ==
  ASSUME NEW w, Well(w), NEW c \in Clients \cap DOMAIN w.conns, NEW n \in 1 .. MaxGames,
         n \notin DOMAIN w.games, w.conns[c].game = 0, w.conns[c].remote = 0
  PROVE  /\ Well(Made(w, c, n))
         /\ DOMAIN Made(w, c, n).games = DOMAIN w.games \cup {n}
         /\ DOMAIN Made(w, c, n).conns = DOMAIN w.conns
         /\ Opens(w, Made(w, c, n), c, n)
<1> DEFINE k == NewGame(c)
           u == Opened(w, n, k)
           v == Made(w, c, n)
<1>1. v = InGame(u, c, n)
  BY DEF Made, InGame, Opened
<1> HIDE DEF v
<1>2. w \in Worlds /\ c \in People
  BY WorldHas DEF Well, Linked, Wired
<1>3. k \in Game /\ k.players = <<c>> /\ k.server = At[c]
  <2>1. PICK list : list = <<c>>
    OBVIOUS
  <2>2. list \in Seq(People) /\ At[c] \in Servers
    BY <1>2, <2>1, ClientsAssumption
  <2>3. k = [server |-> At[c], host |-> c, players |-> list, locked |-> FALSE]
    BY <2>1 DEF NewGame
  <2> QED
    BY <2>1, <2>2, <2>3 DEF Game
<1> HIDE DEF k
<1>4. /\ ButGames(w, u) /\ DOMAIN u.games = DOMAIN w.games \cup {n} /\ u.games[n] = k
      /\ \A i \in DOMAIN w.games \ {n} : u.games[i] = w.games[i]
  BY <1>2, <1>3, OpenedDoes
<1> HIDE DEF u
<1>5. ButConns(u, v) /\ Placed(u, v, c, n, u.conns[c].remote)
  <2>1. n \in 0 .. MaxGames /\ u \in Worlds /\ c \in DOMAIN u.conns
    BY <1>4 DEF ButGames
  <2> QED
    BY <1>1, <2>1, InGameDoes
<1>6. v.games = u.games /\ v.links = w.links /\ v.wire = w.wire /\ v.owed = w.owed /\ v.held = w.held /\ v \in Worlds
  BY <1>4, <1>5 DEF ButGames, ButConns
<1>7. Placed(w, v, c, n, 0)
  BY <1>4, <1>5 DEF ButGames, Placed
<1>8. Linked(v)
  <2>1. Wired(v)
    BY <1>6 DEF Well, Linked, Wired
  <2>2. \A x \in DOMAIN w.conns : v.conns[x].remote = w.conns[x].remote
    BY <1>7 DEF Placed
  <2> QED
    BY <1>6, <1>7, <2>1, <2>2 DEF Well, Linked, Placed
<1>9. IsInjective(<<c>>) /\ ToSet(<<c>>) = {c} /\ <<c>> # <<>>
  BY DEF IsInjective, ToSet
<1>10. \A x \in DOMAIN w.conns : w.conns[x].game # n
  <2>1. n # 0
    OBVIOUS
  <2> QED
    BY <2>1 DEF Well, Agree
<1>11. ASSUME NEW i \in DOMAIN v.games
       PROVE  /\ v.games[i].players # <<>>
              /\ IsInjective(v.games[i].players)
              /\ ToSet(v.games[i].players) = {x \in DOMAIN v.conns : v.conns[x].game = i}
  <2>1. CASE i = n
    <3>1. {x \in DOMAIN v.conns : v.conns[x].game = n} = {c}
      BY <1>7, <1>10 DEF Placed
    <3> QED
      BY <1>3, <1>4, <1>6, <1>9, <2>1, <3>1
  <2>2. CASE i # n
    <3>1. i \in DOMAIN w.games /\ v.games[i] = w.games[i]
      BY <1>4, <1>6, <2>2
    <3>2. i # 0
      <4>1. i \in 1 .. MaxGames
        BY <1>2, <3>1, WorldHas
      <4> QED
        BY <4>1
    <3>3. {x \in DOMAIN v.conns : v.conns[x].game = i} = {x \in DOMAIN w.conns : w.conns[x].game = i}
      BY <1>7, <2>2, <3>2 DEF Placed
    <3> QED
      BY <3>1, <3>3 DEF Well, Agree
  <2> QED
    BY <2>1, <2>2
<1>12. \A x \in DOMAIN v.conns : /\ v.conns[x].game \in DOMAIN v.games \cup {0}
                                 /\ v.conns[x].remote # 0 => v.conns[x].game = 0
  BY <1>4, <1>6, <1>7 DEF Well, Agree, Placed
<1>13. Agree(v)
  BY <1>11, <1>12 DEF Agree
<1>14. Well(v)
  <2>1. PICK l \in {w.conns[c].remote, 0} : l = 0
    OBVIOUS
  <2> QED
    BY <1>6, <1>7, <1>8, <1>13, <2>1, PlacedWell
<1>15. DOMAIN v.conns = DOMAIN w.conns
  BY <1>7 DEF Placed
<1>16. Opens(w, v, c, n)
  BY <1>3, <1>4, <1>6, <1>7 DEF Opens
<1> QED
  BY <1>4, <1>6, <1>14, <1>15, <1>16 DEF v

-----------------------------------------------------------------------------
(* The invariant *)

\* The world is in order: whoever is in a game or on a link is in one there is, and
\* what a server heard of and has yet to make is typed.
Inv ==
  /\ Well(World)
  /\ KnownOK /\ DOMAIN known = Servers
  /\ nextGame \in 1 .. MaxGames + 1
  /\ \A g \in DOMAIN games : g < nextGame
  /\ events \in 0 .. MaxEvents

LEMMA StepIs ==
  ASSUME NEW v, Well(v), Becomes(v)
  PROVE  World' = v /\ Well(World)' /\ games' = v.games /\ conns' = v.conns
<1>1. v \in Worlds
  BY DEF Well, Linked, Wired
<1>2. World' = v
  BY <1>1, BecomesIs
<1> QED
  BY <1>2 DEF Becomes

\* What a step that makes no game and hears of none keeps.
LEMMA KeepsInv ==
  ASSUME Inv, Well(World)', DOMAIN games' \subseteq DOMAIN games,
         UNCHANGED <<nextGame, known>>, events' \in 0 .. MaxEvents
  PROVE  Inv'
<1>1. KnownOK' /\ DOMAIN known' = Servers
  BY DEF Inv, KnownOK, Heard
<1>2. \A g \in DOMAIN games' : g < nextGame'
  BY DEF Inv
<1> QED
  BY <1>1, <1>2 DEF Inv

LEMMA HappensIs ==
  ASSUME Inv, Happens
  PROVE  events' \in 0 .. MaxEvents
BY BoundsAssumption DEF Inv, Happens

\* A client's request is handled.
LEMMA RequestIs ==
  ASSUME NEW c \in Clients, Inv, Request(c)
  PROVE  /\ c \in DOMAIN conns /\ Inv'
         /\ \E req \in Requests : Ran(World, World', c, req)
<1>1. PICK reachable \in Reachable,
           req \in [kind : {"gqwk", "gset", "lock", "glea", "gdel"}, arg : {0}]
                   \cup [kind : {"gjoi"}, arg : 1 .. nextGame - 1]
                   \cup [kind : {"kick"}, arg : Clients \ {c}] :
             Becomes(HandleLobby(World, c, req, reachable))
  BY DEF Request
<1>2. c \in DOMAIN conns /\ Happens /\ UNCHANGED <<nextGame, known>>
  BY DEF Request
<1>3. req \in Requests
  <2>1. 0 \in 0 .. MaxGames /\ 1 .. nextGame - 1 \subseteq 0 .. MaxGames
    <3>1. MaxGames \in Nat /\ nextGame \in 1 .. MaxGames + 1
      BY BoundsAssumption DEF Inv
    <3> QED
      BY <3>1
  <2>2. req.kind \in {"gqwk", "gset", "lock", "glea", "gdel", "gjoi", "kick"} /\ req.arg \in (0 .. MaxGames) \cup Clients
    BY <2>1
  <2>3. req = [kind |-> req.kind, arg |-> req.arg]
    OBVIOUS
  <2> QED
    BY <2>2, <2>3 DEF Requests
<1>4. PICK w, v : w = World /\ v = HandleLobby(w, c, req, reachable)
  OBVIOUS
<1>5. Well(w) /\ c \in DOMAIN w.conns /\ KnownOK
  BY <1>2, <1>4, WorldIs DEF Inv
<1>6. Ran(w, v, c, req)
  BY <1>3, <1>4, <1>5, HandleLobbyDoes DEF Well
<1>7. Well(v) /\ DOMAIN v.games \subseteq DOMAIN w.games
  BY <1>5, <1>6, RanWell
<1>8. World' = v /\ Well(World)' /\ games' = v.games
  BY <1>1, <1>4, <1>7, StepIs
<1>9. Inv'
  BY <1>2, <1>4, <1>7, <1>8, WorldIs, HappensIs, KeepsInv
<1> QED
  BY <1>2, <1>3, <1>4, <1>6, <1>8, <1>9

\* A client makes a game: it is out of any other, and then in its own.
LEMMA GcreIs ==
  ASSUME NEW c \in Clients, Inv, Gcre(c)
  PROVE  /\ c \in DOMAIN conns \cap Hosts /\ Inv'
         /\ LET w == World
                left == LeaveGame(DropRemote(w, c), c)
                made == Made(left, c, nextGame)
            IN /\ Well(left) /\ Well(made) /\ World' = SendGame(made, nextGame)
               /\ nextGame \in DOMAIN made.games
               /\ Opens(left, made, c, nextGame) /\ AtHome(made, World')
<1>1. c \in DOMAIN conns \cap Hosts /\ nextGame <= MaxGames /\ nextGame' = nextGame + 1 /\ UNCHANGED <<known, events>>
  BY DEF Gcre
<1>2. PICK w, u, left, made, v :
        /\ w = World /\ u = DropRemote(w, c) /\ left = LeaveGame(u, c)
        /\ made = Made(left, c, nextGame) /\ v = SendGame(made, nextGame)
  OBVIOUS
<1>3. Becomes(v)
  BY <1>2 DEF Gcre, Made, NewGame
<1>4. Well(w) /\ c \in DOMAIN w.conns
  BY <1>1, <1>2, WorldIs DEF Inv
<1>5. /\ Well(left) /\ left.conns[c].game = 0 /\ left.conns[c].remote = 0
      /\ DOMAIN left.conns = DOMAIN w.conns /\ DOMAIN left.games \subseteq DOMAIN w.games
  BY <1>2, <1>4, QuitWell
<1>6. PICK n : n = nextGame
  OBVIOUS
<1>7. n \in 1 .. MaxGames /\ n \notin DOMAIN left.games
  BY <1>1, <1>2, <1>5, <1>6, WorldIs DEF Inv
<1>8. Well(made) /\ DOMAIN made.games = DOMAIN left.games \cup {n} /\ Opens(left, made, c, n)
  BY <1>2, <1>4, <1>5, <1>6, <1>7, MadeDoes
<1>9. AtHome(made, v)
  BY <1>2, <1>6, <1>8, SendGameIsAtHome DEF Well
<1>10. Well(v) /\ DOMAIN v.games \subseteq DOMAIN made.games
  BY <1>8, <1>9, StaysWell
<1>11. World' = v /\ Well(World)' /\ games' = v.games
  BY <1>3, <1>10, StepIs
<1>12. \A g \in DOMAIN games' : g < nextGame'
  <2>1. \A g \in DOMAIN games : g < nextGame /\ g \in Int
    BY <1>2, <1>4, WorldIs, WorldHas DEF Inv, Well, Linked, Wired
  <2>2. \A g \in DOMAIN v.games : g \in DOMAIN games \/ g = nextGame
    BY <1>2, <1>5, <1>6, <1>8, <1>10, WorldIs
  <2> QED
    BY <1>1, <1>11, <2>1, <2>2 DEF Inv
<1>13. Inv'
  <2>1. KnownOK' /\ DOMAIN known' = Servers
    BY <1>1 DEF Inv, KnownOK, Heard
  <2>2. nextGame' \in 1 .. MaxGames + 1
    BY <1>1, BoundsAssumption DEF Inv
  <2> QED
    BY <1>1, <1>11, <1>12, <2>1, <2>2 DEF Inv
<1> QED
  BY <1>1, <1>2, <1>5, <1>6, <1>8, <1>9, <1>11, <1>13

\* A client's connection ends.
LEMMA HangupIs ==
  ASSUME NEW c \in Clients, Inv, Hangup(c)
  PROVE  /\ c \in DOMAIN conns /\ Inv'
         /\ LET w == World
                left == LeaveGame(DropRemote(w, c), c)
            IN Well(left) /\ Loses(left, World', {c})
<1>1. c \in DOMAIN conns /\ Happens /\ UNCHANGED <<nextGame, known>>
  BY DEF Hangup
<1>2. PICK w, u, left, v :
        /\ w = World /\ u = DropRemote(w, c) /\ left = LeaveGame(u, c) /\ v = Gone(left, c)
  OBVIOUS
<1>3. Becomes(v)
  BY <1>2 DEF Hangup, Gone
<1>4. Well(w) /\ c \in DOMAIN w.conns
  BY <1>1, <1>2, WorldIs DEF Inv
<1>5. /\ Well(left) /\ left.conns[c].game = 0 /\ DOMAIN left.games \subseteq DOMAIN w.games
  BY <1>2, <1>4, QuitWell
<1>6. Loses(left, v, {c}) /\ Linked(v) /\ Agree(v) /\ v.games = left.games
  BY <1>2, <1>5, GoneAgrees DEF Well
<1>7. Well(v)
  BY <1>5, <1>6, LosesWell
<1>8. World' = v /\ Well(World)' /\ games' = v.games
  BY <1>3, <1>7, StepIs
<1>9. Inv'
  BY <1>1, <1>2, <1>5, <1>6, <1>8, WorldIs, HappensIs, KeepsInv
<1> QED
  BY <1>1, <1>2, <1>5, <1>6, <1>8, <1>9

LEMMA BeaconIs ==
  ASSUME NEW g \in 1 .. MaxGames, NEW t \in Servers, Inv, Beacon(g, t)
  PROVE  World' = World /\ Inv'
<1>1. g \in DOMAIN games /\ UNCHANGED <<conns, games, links, wire, held, told, owed, nextGame, events>>
  BY DEF Beacon, world
<1>2. PICK entry : /\ entry.server = games[g].server
                   /\ known' = [known EXCEPT ![t] = With(@, g, entry)]
  BY DEF Beacon
<1>3. World' = World
  BY <1>1 DEF World
<1>4. games[g].server \in Servers
  <2>1. games[g] \in Game
    BY <1>1, WorldIs, WorldHas DEF Inv, Well, Linked, Wired
  <2> QED
    BY <2>1 DEF Game
<1>5. DOMAIN known' = Servers /\ \A s \in Servers \ {t} : known'[s] = known[s]
  BY <1>2 DEF Inv
<1>6. DOMAIN known'[t] = DOMAIN known[t] \cup {g} /\ known'[t][g] = entry
      /\ \A i \in DOMAIN known[t] \ {g} : known'[t][i] = known[t][i]
  <2>1. known'[t] = With(known[t], g, entry)
    BY <1>2 DEF Inv
  <2> QED
    BY <2>1 DEF With
<1>7. KnownOK'
  <2>1. ASSUME NEW s \in Servers
        PROVE  DOMAIN known'[s] \subseteq 1 .. MaxGames /\ \A i \in DOMAIN known'[s] : known'[s][i].server \in Servers
    <3>1. DOMAIN known[s] \subseteq 1 .. MaxGames /\ \A i \in DOMAIN known[s] : known[s][i].server \in Servers
      BY DEF Inv, KnownOK, Heard
    <3> QED
      BY <1>2, <1>4, <1>5, <1>6, <3>1
  <2> QED
    BY <2>1 DEF KnownOK, Heard
<1>8. Inv'
  BY <1>1, <1>3, <1>5, <1>7 DEF Inv
<1> QED
  BY <1>3, <1>8

LEMMA ExpireIs ==
  ASSUME NEW g \in 1 .. MaxGames, NEW t \in Servers, Inv, Expire(g, t)
  PROVE  World' = World /\ Inv'
<1>1. UNCHANGED <<conns, games, links, wire, held, told, owed, nextGame, events>>
  BY DEF Expire, world
<1>2. known' = [known EXCEPT ![t] = Without(@, g)]
  BY DEF Expire
<1>3. World' = World
  BY <1>1 DEF World
<1>4. DOMAIN known' = Servers /\ \A s \in Servers \ {t} : known'[s] = known[s]
  BY <1>2 DEF Inv
<1>5. DOMAIN known'[t] \subseteq DOMAIN known[t] /\ \A i \in DOMAIN known'[t] : known'[t][i] = known[t][i]
  <2>1. known'[t] = Without(known[t], g)
    BY <1>2 DEF Inv
  <2> QED
    BY <2>1 DEF Without
<1>6. KnownOK'
  <2>1. ASSUME NEW s \in Servers
        PROVE  DOMAIN known'[s] \subseteq 1 .. MaxGames /\ \A i \in DOMAIN known'[s] : known'[s][i].server \in Servers
    <3>1. DOMAIN known[s] \subseteq 1 .. MaxGames /\ \A i \in DOMAIN known[s] : known[s][i].server \in Servers
      BY DEF Inv, KnownOK, Heard
    <3> QED
      BY <1>4, <1>5, <3>1
  <2> QED
    BY <2>1 DEF KnownOK, Heard
<1>7. Inv'
  BY <1>1, <1>3, <1>4, <1>6 DEF Inv
<1> QED
  BY <1>3, <1>7

\* Those in a game are told who joined it a while ago.
LEMMA SendHeldIs ==
  ASSUME Inv, SendHeld
  PROVE  Inv' /\ AtHome(World, World')
<1>1. held # <<>> /\ UNCHANGED <<nextGame, known, events>>
  BY DEF SendHeld
<1>2. PICK w, h, g : w = World /\ h = Tail(w.held) /\ g = Head(held)
  OBVIOUS
<1>3. PICK u : u = [w EXCEPT !.held = h]
  OBVIOUS
<1>4. PICK v : v = IF g \in DOMAIN games THEN SendGame(u, g) ELSE u
  OBVIOUS
<1>5. Becomes(v)
  BY <1>2, <1>3, <1>4 DEF SendHeld
<1>6. Well(w) /\ w.held = held /\ w.games = games
  BY <1>2, WorldIs DEF Inv
<1>7. h \in Seq(1 .. MaxGames)
  BY <1>1, <1>2, <1>6, WorldHas DEF Well, Linked, Wired
<1>8. AtHome(w, u) /\ u.games = w.games
  BY <1>3, <1>6, <1>7, HoldIs DEF Well, ButHeld
<1>9. AtHome(u, v)
  <2>1. CASE g \in DOMAIN games
    BY <1>4, <1>6, <1>8, <2>1, SendGameIsAtHome DEF AtHome
  <2>2. CASE g \notin DOMAIN games
    <3>1. Said(u, u) /\ v = u
      BY <1>4, <1>8, <2>2, SaidNothing DEF AtHome, Linked
    <3> QED
      BY <1>8, <3>1, SaidIsAtHome DEF AtHome
  <2> QED
    BY <2>1, <2>2
<1>10. AtHome(w, v)
  BY <1>8, <1>9, AtHomeTwice
<1>11. Well(v) /\ DOMAIN v.games \subseteq DOMAIN w.games
  BY <1>6, <1>10, StaysWell
<1>12. World' = v /\ Well(World)' /\ games' = v.games
  BY <1>5, <1>11, StepIs
<1>13. Inv'
  BY <1>1, <1>6, <1>11, <1>12, KeepsInv DEF Inv
<1> QED
  BY <1>2, <1>10, <1>12, <1>13

\* What the message m's end sent makes of u at its host, v being what is left:
\* the player is taken in and its request run, or only run, or it is forgotten.
HandlesOut(u, v, m, message) ==
  \/ /\ message.kind = "xjoi"
     /\ \E t : Taken(u, t, m, message.user) /\ Well(t)
               /\ \E x : /\ Ran(t, x, m, message.req) /\ Well(x)
                         /\ IF Answers(message.req) = "leave" THEN Loses(x, v, {m}) ELSE v = x
  \/ message.kind # "xjoi" /\ m \notin DOMAIN u.conns /\ v = u
  \/ message.kind = "xlea" /\ m \in DOMAIN u.conns /\ Loses(u, v, {m})
  \/ /\ message.kind = "xfwd" /\ m \in DOMAIN u.conns
     /\ \E x : /\ Ran(u, x, m, message.req) /\ Well(x)
               /\ IF Answers(message.req) = "leave" THEN Loses(x, v, {m}) ELSE v = x

\* A message from a client's server reaches its game's host.
LEMMA HandleOutIs ==
  ASSUME NEW l \in DOMAIN links, Inv, HandleOut(l)
  PROVE  /\ Inv'
         /\ wire[l].out # <<>> /\ links[l].ends[links[l].to] = "up"
         /\ LET w == World
                message == Head(wire[l].out)
                m == <<l, message.id>>
                u == TakenOut(w, l)
            IN /\ message \in Message /\ m \in People \ Clients /\ Well(u)
               /\ HandlesOut(u, World', m, message)
<1>1. wire[l].out # <<>> /\ links[l].ends[links[l].to] = "up" /\ UNCHANGED <<nextGame, known, events>>
  BY DEF HandleOut
<1>2. PICK w, message, m, u :
        /\ w = World /\ message = Head(wire[l].out) /\ m = <<l, message.id>> /\ u = TakenOut(w, l)
  OBVIOUS
<1>3. PICK reachable \in Reachable :
        Becomes(IF message.kind = "xjoi" THEN Run(TakePlayer(u, m, message.user), m, message.req, reachable)
                ELSE IF m \notin DOMAIN conns THEN u
                ELSE IF message.kind = "xlea" THEN RemovePlayer(u, m)
                ELSE Run(u, m, message.req, reachable))
  BY <1>2 DEF HandleOut, TakenOut
<1>4. Well(w) /\ w.conns = conns /\ w.wire = wire /\ w.links = links /\ w.games = games
  BY <1>2, WorldIs DEF Inv
<1>5. message \in Message
  <2>1. wire[l].out \in Seq(Message)
    BY <1>4, WiredHas DEF Well, Linked
  <2> QED
    BY <1>1, <1>2, <2>1
<1>6. m \in People \ Clients
  <2>1. l \in 1 .. MaxLinks /\ message.id \in Ids
    BY <1>4, <1>5, WiredHas DEF Well, Linked, Message
  <2> QED
    BY <1>2, <2>1, NamesAssumption DEF People
<1>7. Well(u) /\ ButWire(w, u)
  BY <1>1, <1>2, <1>4, TakenOutDoes
<1>8. u.links = links /\ u.conns = conns /\ u.games = games
  BY <1>4, <1>7 DEF ButWire
<1>9. message.user \in Clients /\ message.req \in Requests /\ message.kind \in {"xjoi", "xlea", "xfwd"} /\ m[1] = l
  BY <1>2, <1>5 DEF Message
<1>10. CASE message.kind = "xjoi"
  <2>1. PICK t, v : t = TakePlayer(u, m, message.user) /\ v = Run(t, m, message.req, reachable)
    OBVIOUS
  <2>2. Becomes(v)
    BY <1>3, <1>10, <2>1
  <2>3. "up" # "gone" /\ m[1] \in DOMAIN u.links /\ u.links[m[1]].ends[u.links[m[1]].to] # "gone"
    BY <1>1, <1>8, <1>9
  <2>4. Well(t) /\ Taken(u, t, m, message.user)
    BY <1>6, <1>7, <1>9, <2>1, <2>3, TakePlayerDoes
  <2>5. m \in DOMAIN t.conns /\ DOMAIN t.games \subseteq DOMAIN u.games
    BY <2>4 DEF Taken
  <2>6. KnownOK
    BY DEF Inv
  <2>7. /\ Well(v) /\ DOMAIN v.games \subseteq DOMAIN t.games
        /\ \E x : /\ Ran(t, x, m, message.req) /\ Well(x)
                  /\ IF Answers(message.req) = "leave" THEN Loses(x, v, {m}) ELSE v = x
    BY <1>9, <2>1, <2>4, <2>5, <2>6, RunDoes
  <2>8. World' = v /\ Well(World)' /\ games' = v.games
    BY <2>2, <2>7, StepIs
  <2>9. Inv'
    BY <1>1, <1>8, <2>5, <2>7, <2>8, KeepsInv DEF Inv
  <2> QED
    BY <1>1, <1>2, <1>5, <1>6, <1>7, <1>10, <2>4, <2>7, <2>8, <2>9 DEF HandlesOut
<1>11. CASE message.kind # "xjoi" /\ m \notin DOMAIN conns
  <2>1. Becomes(u)
    BY <1>3, <1>11
  <2>2. World' = u /\ Well(World)' /\ games' = u.games
    BY <1>7, <2>1, StepIs
  <2>3. Inv'
    BY <1>1, <1>8, <2>2, KeepsInv DEF Inv
  <2> QED
    BY <1>1, <1>2, <1>5, <1>6, <1>7, <1>8, <1>11, <2>2, <2>3 DEF HandlesOut
<1>12. CASE message.kind = "xlea" /\ m \in DOMAIN conns
  <2>1. PICK v : v = RemovePlayer(u, m)
    OBVIOUS
  <2>2. Becomes(v)
    BY <1>3, <1>12, <2>1
  <2>3. Loses(u, v, {m}) /\ Agree(v)
    BY <1>7, <2>1, RemovePlayerDoes DEF Well
  <2>4. Well(v) /\ DOMAIN v.games \subseteq DOMAIN u.games
    BY <1>7, <2>3, LosesWell DEF Loses
  <2>5. World' = v /\ Well(World)' /\ games' = v.games
    BY <2>2, <2>4, StepIs
  <2>6. Inv'
    BY <1>1, <1>8, <2>4, <2>5, KeepsInv DEF Inv
  <2> QED
    BY <1>1, <1>2, <1>5, <1>6, <1>7, <1>8, <1>12, <2>3, <2>5, <2>6 DEF HandlesOut
<1>13. CASE message.kind = "xfwd" /\ m \in DOMAIN conns
  <2>1. PICK v : v = Run(u, m, message.req, reachable)
    OBVIOUS
  <2>2. Becomes(v)
    BY <1>3, <1>13, <2>1
  <2>3. KnownOK /\ m \in DOMAIN u.conns
    BY <1>8, <1>13 DEF Inv
  <2>4. /\ Well(v) /\ DOMAIN v.games \subseteq DOMAIN u.games
        /\ \E x : /\ Ran(u, x, m, message.req) /\ Well(x)
                  /\ IF Answers(message.req) = "leave" THEN Loses(x, v, {m}) ELSE v = x
    BY <1>7, <1>9, <2>1, <2>3, RunDoes
  <2>5. World' = v /\ Well(World)' /\ games' = v.games
    BY <2>2, <2>4, StepIs
  <2>6. Inv'
    BY <1>1, <1>8, <2>4, <2>5, KeepsInv DEF Inv
  <2> QED
    BY <1>1, <1>2, <1>5, <1>6, <1>7, <1>8, <1>13, <2>4, <2>5, <2>6 DEF HandlesOut
<1> QED
  BY <1>9, <1>10, <1>11, <1>12, <1>13

\* What a host sent reaches the client it is for, if that is still there.
LEMMA HandleBackIs ==
  ASSUME NEW l \in DOMAIN links, Inv, HandleBack(l)
  PROVE  /\ Inv' /\ wire[l].back # <<>> /\ links[l].ends[links[l].from] = "up"
         /\ LET w == World
                message == Head(wire[l].back)
                u == TakenBack(w, l)
                clients == Addressees(l, message.id)
            IN /\ message \in Answer /\ Well(u)
               /\ IF clients = {} THEN World' = u
                  ELSE Delivered(u, World', CHOOSE c \in clients : TRUE, message.answers, message.record)
<1>1. wire[l].back # <<>> /\ links[l].ends[links[l].from] = "up" /\ UNCHANGED <<nextGame, known, events>>
  BY DEF HandleBack
<1>2. PICK w, message, clients, u, c :
        /\ w = World /\ message = Head(wire[l].back) /\ clients = Addressees(l, message.id) /\ u = TakenBack(w, l)
        /\ c = CHOOSE d \in clients : TRUE
  OBVIOUS
<1>3. PICK v : v = IF clients = {} THEN u ELSE Deliver(u, c, message.answers, message.record)
  OBVIOUS
<1>4. Becomes(v)
  BY <1>2, <1>3 DEF HandleBack, TakenBack
<1>5. Well(w) /\ w.wire = wire /\ w.links = links /\ w.games = games
  BY <1>2, WorldIs DEF Inv
<1>6. message \in Answer
  <2>1. wire[l].back \in Seq(Answer)
    BY <1>5, WiredHas DEF Well, Linked
  <2> QED
    BY <1>1, <1>2, <2>1
<1>7. Well(u) /\ ButWire(w, u)
  BY <1>1, <1>2, <1>5, TakenBackDoes
<1>8. clients # {} => c \in Clients
  BY <1>2 DEF Addressees
<1>9. message.record \in Records
  BY <1>6 DEF Answer
<1>10. Well(v) /\ v.games = u.games /\ (clients # {} => Delivered(u, v, c, message.answers, message.record))
  <2>1. CASE clients = {}
    BY <1>3, <1>7, <2>1
  <2>2. CASE clients # {}
    <3>1. PICK a, r : a = message.answers /\ r = message.record
      OBVIOUS
    <3>2. u \in Worlds
      BY <1>7 DEF ButWire
    <3>3. Delivered(u, v, c, a, r)
      BY <1>3, <1>8, <1>9, <2>2, <3>1, <3>2, DeliverDoes
    <3>4. v \in Worlds /\ v.conns = u.conns /\ v.games = u.games /\ v.links = u.links /\ v.wire = u.wire
      BY <3>3 DEF Delivered
    <3>5. Linked(v)
      BY <1>7, <3>4 DEF Well, Linked, Wired
    <3>6. Agree(v)
      BY <1>7, <3>4 DEF Well, Agree
    <3>7. LeftLinks(v)
      BY <1>7, <3>4 DEF Well, LeftLinks
    <3> QED
      BY <3>1, <3>3, <3>4, <3>5, <3>6, <3>7 DEF Well
  <2> QED
    BY <2>1, <2>2
<1>11. World' = v /\ Well(World)' /\ games' = v.games
  BY <1>4, <1>10, StepIs
<1>12. Inv'
  BY <1>1, <1>5, <1>7, <1>10, <1>11, KeepsInv DEF Inv, ButWire
<1> QED
  BY <1>1, <1>2, <1>3, <1>6, <1>7, <1>10, <1>11, <1>12

\* A world with links as they were but for what the ends know of them, and for
\* what was on its way.
Relinked(w, v, links_, wire_) ==
  /\ v \in Worlds /\ v.conns = w.conns /\ v.games = w.games /\ v.held = w.held /\ v.told = w.told /\ v.owed = w.owed
  /\ v.links = links_ /\ v.wire = wire_

LEMMA RelinkedIs ==
  ASSUME NEW w \in Worlds, NEW k \in Seq(Link), NEW r \in Seq(Wire)
  PROVE  Relinked(w, [w EXCEPT !.links = k, !.wire = r], k, r)
<1> DEFINE u == [w EXCEPT !.links = k]
           v == [u EXCEPT !.wire = r]
<1>1. ButLinks(w, u) /\ u.links = k
  BY SetLinks
<1> HIDE DEF u
<1>2. ButWire(u, v) /\ v.wire = r
  BY <1>1, SetWire DEF ButLinks
<1>3. v = [w EXCEPT !.links = k, !.wire = r]
  BY DEF u
<1> HIDE DEF v
<1> QED
  BY <1>1, <1>2, <1>3 DEF ButLinks, ButWire, Relinked

LEMMA RelinkedWell ==
  ASSUME NEW w, Well(w), NEW v, NEW k, NEW r, Relinked(w, v, k, r),
         Len(k) = Len(w.links), Len(r) = Len(w.links), DOMAIN k = DOMAIN w.links,
         \A l \in DOMAIN k : /\ k[l].to = w.links[l].to /\ DOMAIN k[l].ends = DOMAIN w.links[l].ends
                             /\ \A s \in DOMAIN k[l].ends : k[l].ends[s] = "gone" => w.links[l].ends[s] = "gone"
  PROVE  Well(v)
<1>1. Linked(v)
  BY DEF Well, Linked, Wired, Relinked
<1>2. Agree(v)
  BY DEF Well, Agree, Relinked
<1>3. LeftLinks(v)
  BY DEF Well, LeftLinks, Relinked
<1> QED
  BY <1>1, <1>2, <1>3 DEF Well

\* A link breaks: nothing is on its way.
LEMMA BreakIs ==
  ASSUME NEW l \in DOMAIN links, Inv, Break(l)
  PROVE  /\ Inv' /\ links' = [links EXCEPT ![l].broken = TRUE]
         /\ wire' = [wire EXCEPT ![l] = [out |-> <<>>, back |-> <<>>]]
         /\ UNCHANGED <<conns, games, held, told, owed>>
<1>1. /\ Happens /\ links' = [links EXCEPT ![l].broken = TRUE]
      /\ wire' = [wire EXCEPT ![l] = [out |-> <<>>, back |-> <<>>]]
      /\ UNCHANGED <<conns, games, held, told, owed, nextGame, known>>
  BY DEF Break
<1>2. PICK w, k, r, v : w = World /\ k = links' /\ r = wire' /\ v = [w EXCEPT !.links = k, !.wire = r]
  OBVIOUS
<1>3. v = World'
  BY <1>1, <1>2 DEF World
<1>4. Well(w) /\ w.links = links /\ w.wire = wire /\ w.games = games
  BY <1>2, WorldIs DEF Inv
<1>5. links \in Seq(Link) /\ wire \in Seq(Wire) /\ Len(wire) = Len(links) /\ w \in Worlds /\ DOMAIN wire = DOMAIN links
  BY <1>4, WorldHas, WiredHas DEF Well, Linked, Wired
<1>6. PICK b : b = [links[l] EXCEPT !.broken = TRUE]
  OBVIOUS
<1>7. b \in Link /\ b.to = links[l].to /\ b.ends = links[l].ends
  <2>1. links[l] \in Link
    BY <1>5
  <2> QED
    BY <1>6, <2>1 DEF Link
<1>8. /\ k \in Seq(Link) /\ Len(k) = Len(links) /\ DOMAIN k = DOMAIN links /\ k[l] = b
      /\ \A i \in DOMAIN links \ {l} : k[i] = links[i]
  BY <1>1, <1>2, <1>5, <1>6, <1>7
<1>9. PICK none : none = [out |-> <<>>, back |-> <<>>]
  OBVIOUS
<1>10. none \in Wire
  BY <1>9 DEF Wire
<1>11. r \in Seq(Wire) /\ Len(r) = Len(links)
  <2>1. r = [wire EXCEPT ![l] = none]
    BY <1>1, <1>2, <1>9
  <2> QED
    BY <1>5, <1>10, <2>1
<1>12. Relinked(w, v, k, r)
  BY <1>2, <1>5, <1>8, <1>11, RelinkedIs
<1>13. Well(v)
  <2>1. \A i \in DOMAIN k : /\ k[i].to = w.links[i].to /\ DOMAIN k[i].ends = DOMAIN w.links[i].ends
                            /\ \A s \in DOMAIN k[i].ends : k[i].ends[s] = "gone" => w.links[i].ends[s] = "gone"
    BY <1>4, <1>7, <1>8
  <2> QED
    BY <1>4, <1>8, <1>11, <1>12, <2>1, RelinkedWell
<1>14. Inv'
  BY <1>1, <1>3, <1>13, HappensIs, KeepsInv
<1> QED
  BY <1>1, <1>14

\* An end finds out.
LEMMA NoticeIs ==
  ASSUME NEW l \in DOMAIN links, NEW s, Inv, Notice(l, s)
  PROVE  /\ Inv' /\ links[l].broken /\ s \in DOMAIN links[l].ends /\ links[l].ends[s] = "up"
         /\ links' = [links EXCEPT ![l].ends[s] = "closed"]
         /\ UNCHANGED <<conns, games, wire, held, told, owed>>
<1>1. /\ links[l].broken /\ s \in DOMAIN links[l].ends /\ links[l].ends[s] = "up"
      /\ links' = [links EXCEPT ![l].ends[s] = "closed"]
      /\ UNCHANGED <<conns, games, wire, held, told, owed, nextGame, known, events>>
  BY DEF Notice
<1>2. PICK w, e, v : w = World /\ e = "closed" /\ v = SetEnd(w, l, s, e)
  OBVIOUS
<1>3. v = World'
  BY <1>1, <1>2 DEF World, SetEnd
<1>4. Well(w) /\ w.links = links /\ w.games = games
  BY <1>2, WorldIs DEF Inv
<1>5. e \in {"up", "closed", "gone"}
  BY <1>2
<1>6. Ended(w, v, l, s, e)
  BY <1>1, <1>2, <1>4, <1>5, SetEndDoes DEF Well
<1>7. LeftLinks(v)
  <2>1. \A k \in DOMAIN v.links : \A x \in DOMAIN v.links[k].ends : v.links[k].ends[x] = "gone" =>
          k \in DOMAIN w.links /\ x \in DOMAIN w.links[k].ends /\ w.links[k].ends[x] = "gone" /\ v.links[k].to = w.links[k].to
    BY <1>2, <1>6 DEF Ended
  <2>2. v.conns = w.conns
    BY <1>6 DEF Ended, ButLinks
  <2> QED
    BY <1>4, <2>1, <2>2 DEF Well, LeftLinks
<1>8. Well(v)
  BY <1>6, <1>7 DEF Ended, Well
<1>9. Inv'
  BY <1>1, <1>3, <1>8, KeepsInv DEF Inv
<1> QED
  BY <1>1, <1>9

\* An end that has closed its socket is left by all who are at it.
LEMMA OnLinkClosedIs ==
  ASSUME NEW l \in DOMAIN links, NEW s, Inv, OnLinkClosed(l, s)
  PROVE  /\ Inv' /\ s \in DOMAIN links[l].ends /\ links[l].ends[s] = "closed"
         /\ Leaves(World, World', l, s)
<1>1. s \in DOMAIN links[l].ends /\ links[l].ends[s] = "closed" /\ UNCHANGED <<nextGame, known, events>>
  BY DEF OnLinkClosed
<1>2. PICK w, v : w = World /\ v = LinkLeft(w, l, s)
  OBVIOUS
<1>3. Well(w) /\ w.links = links /\ w.games = games /\ w.conns = conns
  BY <1>2, WorldIs DEF Inv
<1>4. Becomes(v)
  BY <1>2, <1>3 DEF OnLinkClosed, LinkLeft, SetEnd, GoneAll, RemoveAll
<1>5. Well(v) /\ Leaves(w, v, l, s)
  BY <1>1, <1>2, <1>3, LinkLeftDoes
<1>6. World' = v /\ Well(World)' /\ games' = v.games
  BY <1>4, <1>5, StepIs
<1>7. DOMAIN v.games \subseteq DOMAIN w.games
  <2>1. PICK u, x, came, went : u = SetEnd(w, l, s, "gone") /\ Loses(u, x, came) /\ Freed(x, v, went)
    BY <1>5 DEF Leaves
  <2>2. u.games = w.games
    BY <2>1, <1>3, WorldHas DEF Well, Linked, Wired, Worlds, SetEnd
  <2> QED
    BY <2>1, <2>2 DEF Loses, Freed
<1>8. Inv'
  BY <1>1, <1>3, <1>6, <1>7, KeepsInv DEF Inv
<1> QED
  BY <1>1, <1>2, <1>5, <1>6, <1>8

-----------------------------------------------------------------------------
(* Whatever is lost *)

LEMMA Initially ==
  ASSUME Init
  PROVE  Inv
<1>1. /\ conns = [c \in Clients |-> [user |-> c, game |-> 0, remote |-> 0]]
      /\ games = <<>> /\ nextGame = 1 /\ links = <<>> /\ wire = <<>> /\ held = <<>>
      /\ known = [s \in Servers |-> <<>>]
      /\ told = [c \in Clients |-> Nowhere]
      /\ owed = [c \in Clients |-> {}]
      /\ events = 0
  BY DEF Init
<1>2. conns \in ConnMaps
  <2>1. \A c \in Clients : [user |-> c, game |-> 0, remote |-> 0] \in Connection
    BY ZeroIs DEF Connection
  <2>2. conns \in [Clients -> Connection] /\ Clients \in SUBSET People
    BY <1>1, <2>1 DEF People
  <2> QED
    BY <2>2 DEF ConnMaps
<1>3. DOMAIN games = {} /\ games \in GameMaps
  <2>1. games \in [{} -> Game] /\ {} \in SUBSET (1 .. MaxGames)
    BY <1>1
  <2> QED
    BY <2>1 DEF GameMaps
<1>4. links \in Seq(Link) /\ wire \in Seq(Wire) /\ held \in Seq(1 .. MaxGames) /\ Len(links) = 0 /\ Len(wire) = 0
      /\ DOMAIN links = {}
  BY <1>1
<1>5. told \in [Clients -> Records] /\ owed \in [Clients -> Owed]
  BY <1>1, RecordsHave DEF Owed
<1>6. World \in Worlds
  BY <1>2, <1>3, <1>4, <1>5 DEF World, Worlds
<1>7. Wired(World)
  BY <1>4, <1>6, WorldIs, BoundsAssumption DEF Wired
<1>8. DOMAIN conns = Clients /\ \A c \in Clients : conns[c].remote = 0 /\ conns[c].game = 0
  BY <1>1
<1>9. Linked(World)
  BY <1>7, <1>8, WorldIs DEF Linked
<1>10. Agree(World)
  BY <1>3, <1>8, WorldIs DEF Agree
<1>11. LeftLinks(World)
  BY <1>4, WorldIs DEF LeftLinks
<1>12. KnownOK /\ DOMAIN known = Servers
  BY <1>1 DEF KnownOK, Heard
<1>13. nextGame \in 1 .. MaxGames + 1 /\ events \in 0 .. MaxEvents
  BY <1>1, BoundsAssumption
<1> QED
  BY <1>3, <1>9, <1>10, <1>11, <1>12, <1>13 DEF Well, Inv

LEMMA Inductive ==
  ASSUME Inv, [Next]_vars
  PROVE  Inv'
<1>1. ASSUME NEW c \in Clients, Request(c) PROVE Inv'
  BY <1>1, RequestIs
<1>2. ASSUME NEW c \in Clients, Gcre(c) PROVE Inv'
  BY <1>2, GcreIs
<1>3. ASSUME NEW c \in Clients, Hangup(c) PROVE Inv'
  BY <1>3, HangupIs
<1>4. ASSUME NEW g \in 1 .. MaxGames, NEW t \in Servers, Beacon(g, t) PROVE Inv'
  BY <1>4, BeaconIs
<1>5. ASSUME NEW g \in 1 .. MaxGames, NEW t \in Servers, Expire(g, t) PROVE Inv'
  BY <1>5, ExpireIs
<1>6. CASE SendHeld
  BY <1>6, SendHeldIs
<1>7. ASSUME NEW l \in DOMAIN links, HandleOut(l) PROVE Inv'
  BY <1>7, HandleOutIs
<1>8. ASSUME NEW l \in DOMAIN links, HandleBack(l) PROVE Inv'
  BY <1>8, HandleBackIs
<1>9. ASSUME NEW l \in DOMAIN links, NEW s \in Servers, Notice(l, s) PROVE Inv'
  BY <1>9, NoticeIs
<1>10. ASSUME NEW l \in DOMAIN links, NEW s \in Servers, OnLinkClosed(l, s) PROVE Inv'
  BY <1>10, OnLinkClosedIs
<1>11. ASSUME NEW l \in DOMAIN links, Break(l) PROVE Inv'
  BY <1>11, BreakIs
<1>12. CASE UNCHANGED vars
  <2>1. UNCHANGED <<conns, games, links, wire, held, told, owed, nextGame, known, events>>
    BY <1>12 DEF vars, world
  <2>2. World' = World
    BY <2>1 DEF World
  <2> QED
    BY <2>1, <2>2 DEF Inv, KnownOK, Heard
<1> QED
  BY <1>1, <1>2, <1>3, <1>4, <1>5, <1>6, <1>7, <1>8, <1>9, <1>10, <1>11, <1>12 DEF Next, ServeLinks

LEMMA Always ==
  Spec => []Inv
<1>1. Init => Inv
  BY Initially
<1>2. Inv /\ [Next]_vars => Inv'
  BY Inductive
<1> QED
  BY <1>1, <1>2, PTL DEF Spec

\* The variables have their types, however many servers, clients and games there
\* are: what the servers keep of each other's clients is never out of range.
THEOREM TypeCorrect ==
  Spec => []TypeOK
<1>1. Inv => TypeOK
  <2> SUFFICES ASSUME Inv PROVE TypeOK
    OBVIOUS
  <2>1. Wired(World) /\ World \in Worlds
    BY DEF Inv, Well, Linked, Wired
  <2>2. /\ DOMAIN conns \subseteq People /\ \A m \in DOMAIN conns : conns[m] \in Connection
        /\ DOMAIN games \subseteq 1 .. MaxGames /\ \A g \in DOMAIN games : games[g] \in Game
    BY <2>1, WorldHas, WorldIs
  <2>3. /\ links \in Seq(Link) /\ Len(links) <= MaxLinks
        /\ wire \in Seq(Wire) /\ Len(wire) = Len(links)
        /\ held \in Seq(1 .. MaxGames)
        /\ told \in [Clients -> Records]
        /\ owed \in [Clients -> SUBSET {"join", "play", "leave"}]
    BY <2>1, WorldHas, WorldIs DEF Wired, Owed
  <2> QED
    BY <2>2, <2>3 DEF TypeOK, Inv, KnownOK, Wire
<1> QED
  BY <1>1, Always, PTL

\* A game's players are those whose connections say they are in it, each once,
\* on whichever server they are and whatever breaks or is lost on the way
\* (LeaveGame, HandlePeer and OnLinkClosed against games_ and connections_).
THEOREM MembersAreMembers ==
  Spec => []MembersAgree
<1>1. Inv => MembersAgree
  BY WorldIs DEF Inv, Well, Agree, MembersAgree
<1> QED
  BY <1>1, Always, PTL

\* A server that has closed its end of a link has nobody there any more: no player
\* who came by it, no client that plays at its other end (OnLinkClosed), and none
\* gets there afterwards.
THEOREM ClosedLinksAreLeft ==
  Spec => []GoneLinksAreLeft
<1>1. Inv => GoneLinksAreLeft
  BY WorldIs DEF Inv, Well, LeftLinks, GoneLinksAreLeft
<1> QED
  BY <1>1, Always, PTL

-----------------------------------------------------------------------------
(* What is on its way on a link *)

\* x settles whether the player of that id is one from then on.
Settles(x, id) == x.id = id /\ (x.kind # "xfwd" \/ Answers(x.req) = "leave")

\* Whether the player of that id will be one once all that is on its way has been
\* handled, if those who are now are of the ids P.
Plays(out, id, P) ==
  \/ \E k \in 1 .. Len(out) : /\ out[k].id = id /\ out[k].kind = "xjoi"
                              /\ \A j \in 1 .. Len(out) : j > k => ~ Settles(out[j], id)
  \/ id \in P /\ \A j \in 1 .. Len(out) : ~ Settles(out[j], id)

LEMMA PlaysAtOnce ==
  ASSUME NEW id, NEW P
  PROVE  Plays(<<>>, id, P) <=> id \in P
  BY DEF Plays

\* What is put on the link last settles it.
LEMMA PlaysAppend ==
  ASSUME NEW out \in Seq(Message), NEW x \in Message, NEW id, NEW P
  PROVE  Plays(Append(out, x), id, P) <=> IF Settles(x, id) THEN x.kind = "xjoi" ELSE Plays(out, id, P)
<1> DEFINE n == Len(out)
           all == Append(out, x)
<1>1. n \in Nat /\ Len(all) = n + 1 /\ all[n + 1] = x /\ \A k \in 1 .. n : all[k] = out[k]
  <2> HIDE DEF Message
  <2> QED
    OBVIOUS
<1> HIDE DEF n, all
<1>2. x.kind = "xjoi" /\ x.id = id => Settles(x, id)
  BY DEF Settles
<1>3. 1 .. n + 1 = (1 .. n) \cup {n + 1} /\ \A k \in 1 .. n : n + 1 > k /\ ~ k > n + 1
  BY <1>1
<1>4. (\A j \in 1 .. n + 1 : ~ Settles(all[j], id)) <=> ~ Settles(x, id) /\ \A j \in 1 .. n : ~ Settles(out[j], id)
  BY <1>1, <1>3
<1>5. \A k \in 1 .. n : (\A j \in 1 .. n + 1 : j > k => ~ Settles(all[j], id)) <=>
                        ~ Settles(x, id) /\ \A j \in 1 .. n : j > k => ~ Settles(out[j], id)
  BY <1>1, <1>3
<1>6. (\A j \in 1 .. n + 1 : j > n + 1 => ~ Settles(all[j], id))
  BY <1>1
<1>7. (\E k \in 1 .. n + 1 : /\ all[k].id = id /\ all[k].kind = "xjoi"
                             /\ \A j \in 1 .. n + 1 : j > k => ~ Settles(all[j], id))
      <=> \/ x.id = id /\ x.kind = "xjoi"
          \/ /\ ~ Settles(x, id)
             /\ \E k \in 1 .. n : /\ out[k].id = id /\ out[k].kind = "xjoi"
                                  /\ \A j \in 1 .. n : j > k => ~ Settles(out[j], id)
  <2>1. (\E k \in 1 .. n + 1 : /\ all[k].id = id /\ all[k].kind = "xjoi"
                               /\ \A j \in 1 .. n + 1 : j > k => ~ Settles(all[j], id))
        <=> \/ x.id = id /\ x.kind = "xjoi"
            \/ \E k \in 1 .. n : /\ all[k].id = id /\ all[k].kind = "xjoi"
                                 /\ \A j \in 1 .. n + 1 : j > k => ~ Settles(all[j], id)
    BY <1>1, <1>3, <1>6
  <2> QED
    BY <1>1, <1>5, <2>1
<1>8. Plays(all, id, P) <=>
        \/ \E k \in 1 .. n + 1 : /\ all[k].id = id /\ all[k].kind = "xjoi"
                                 /\ \A j \in 1 .. n + 1 : j > k => ~ Settles(all[j], id)
        \/ id \in P /\ \A j \in 1 .. n + 1 : ~ Settles(all[j], id)
  BY <1>1 DEF Plays
<1>9. Plays(out, id, P) <=>
        \/ \E k \in 1 .. n : /\ out[k].id = id /\ out[k].kind = "xjoi"
                             /\ \A j \in 1 .. n : j > k => ~ Settles(out[j], id)
        \/ id \in P /\ \A j \in 1 .. n : ~ Settles(out[j], id)
  BY DEF Plays, n
<1>10. Settles(x, id) => x.id = id
  BY DEF Settles
<1> QED
  BY <1>2, <1>4, <1>7, <1>8, <1>9, <1>10 DEF all

\* What is handled first settles it for the time being.
LEMMA PlaysTail ==
  ASSUME NEW out \in Seq(Message), out # <<>>, NEW id, NEW P, NEW Q,
         id \in Q <=> IF Settles(Head(out), id) THEN Head(out).kind = "xjoi" ELSE id \in P
  PROVE  Plays(out, id, P) <=> Plays(Tail(out), id, Q)
<1> DEFINE n == Len(out)
           rest == Tail(out)
           x == Head(out)
<1>1. /\ n \in Nat \ {0} /\ Len(rest) = n - 1 /\ x = out[1]
      /\ \A k \in 1 .. n - 1 : rest[k] = out[k + 1]
  <2> HIDE DEF Message
  <2> QED
    OBVIOUS
<1> HIDE DEF n, rest, x
<1>2. \A k \in 1 .. n : k = 1 \/ (k - 1 \in 1 .. n - 1 /\ out[k] = rest[k - 1])
  BY <1>1
<1>3. \A k \in 1 .. n - 1 : k + 1 \in 1 .. n /\ k + 1 > 1
  BY <1>1
<1>4. (\A j \in 1 .. n : j > 1 => ~ Settles(out[j], id)) <=> \A j \in 1 .. n - 1 : ~ Settles(rest[j], id)
  <2>1. ASSUME \A j \in 1 .. n : j > 1 => ~ Settles(out[j], id), NEW j \in 1 .. n - 1
        PROVE  ~ Settles(rest[j], id)
    BY <1>1, <1>3, <2>1
  <2>2. ASSUME \A j \in 1 .. n - 1 : ~ Settles(rest[j], id), NEW j \in 1 .. n, j > 1
        PROVE  ~ Settles(out[j], id)
    BY <1>1, <1>2, <2>2
  <2> QED
    BY <2>1, <2>2
<1>5. (\A j \in 1 .. n : ~ Settles(out[j], id)) <=> ~ Settles(x, id) /\ \A j \in 1 .. n - 1 : ~ Settles(rest[j], id)
  <2>1. ASSUME \A j \in 1 .. n : ~ Settles(out[j], id)
        PROVE  ~ Settles(x, id) /\ \A j \in 1 .. n - 1 : ~ Settles(rest[j], id)
    <3>1. 1 \in 1 .. n /\ x = out[1]
      BY <1>1
    <3>2. ASSUME NEW j \in 1 .. n - 1
          PROVE  ~ Settles(rest[j], id)
      BY <1>1, <1>3, <2>1
    <3> QED
      BY <2>1, <3>1, <3>2
  <2>2. ASSUME ~ Settles(x, id), \A j \in 1 .. n - 1 : ~ Settles(rest[j], id), NEW j \in 1 .. n
        PROVE  ~ Settles(out[j], id)
    <3>1. CASE j = 1
      BY <1>1, <2>2, <3>1
    <3>2. CASE j # 1
      BY <1>2, <2>2, <3>2
    <3> QED
      BY <3>1, <3>2
  <2> QED
    BY <2>1, <2>2
<1>6. \A k \in 1 .. n - 1 : (\A j \in 1 .. n : j > k + 1 => ~ Settles(out[j], id)) <=>
                            \A j \in 1 .. n - 1 : j > k => ~ Settles(rest[j], id)
  <2>1. ASSUME NEW k \in 1 .. n - 1
        PROVE  (\A j \in 1 .. n : j > k + 1 => ~ Settles(out[j], id)) <=>
               \A j \in 1 .. n - 1 : j > k => ~ Settles(rest[j], id)
    <3>1. ASSUME \A j \in 1 .. n : j > k + 1 => ~ Settles(out[j], id)
          PROVE  \A j \in 1 .. n - 1 : j > k => ~ Settles(rest[j], id)
      BY <1>1, <3>1
    <3>2. ASSUME \A j \in 1 .. n - 1 : j > k => ~ Settles(rest[j], id), NEW j \in 1 .. n, j > k + 1
          PROVE  ~ Settles(out[j], id)
      <4>1. j - 1 \in 1 .. n - 1 /\ j - 1 > k /\ out[j] = rest[j - 1]
        BY <1>1, <1>2, <3>2
      <4> QED
        BY <3>2, <4>1
    <3> QED
      BY <3>1, <3>2
  <2> QED
    BY <2>1
<1>7. (\E k \in 1 .. n : /\ out[k].id = id /\ out[k].kind = "xjoi"
                         /\ \A j \in 1 .. n : j > k => ~ Settles(out[j], id))
      <=> \/ x.id = id /\ x.kind = "xjoi" /\ \A j \in 1 .. n - 1 : ~ Settles(rest[j], id)
          \/ \E k \in 1 .. n - 1 : /\ rest[k].id = id /\ rest[k].kind = "xjoi"
                                   /\ \A j \in 1 .. n - 1 : j > k => ~ Settles(rest[j], id)
  <2> DEFINE SaidLast(k) == /\ out[k].id = id /\ out[k].kind = "xjoi"
                        /\ \A j \in 1 .. n : j > k => ~ Settles(out[j], id)
             SaidLastOfRest(k) == /\ rest[k].id = id /\ rest[k].kind = "xjoi"
                              /\ \A j \in 1 .. n - 1 : j > k => ~ Settles(rest[j], id)
  <2>1. \A k \in 1 .. n - 1 : SaidLastOfRest(k) <=> SaidLast(k + 1)
    BY <1>1, <1>6
  <2>2. SaidLast(1) <=> x.id = id /\ x.kind = "xjoi" /\ \A j \in 1 .. n - 1 : ~ Settles(rest[j], id)
    BY <1>1, <1>4
  <2> HIDE DEF SaidLast, SaidLastOfRest
  <2>3. (\E k \in 1 .. n : SaidLast(k)) <=> SaidLast(1) \/ \E k \in 1 .. n - 1 : SaidLast(k + 1)
    <3>1. ASSUME NEW k \in 1 .. n, SaidLast(k), k # 1 PROVE \E i \in 1 .. n - 1 : SaidLast(i + 1)
      <4>1. k - 1 \in 1 .. n - 1 /\ (k - 1) + 1 = k
        BY <1>1, <3>1
      <4> QED
        BY <3>1, <4>1
    <3>2. 1 \in 1 .. n
      BY <1>1
    <3>3. ASSUME NEW k \in 1 .. n - 1, SaidLast(k + 1) PROVE \E i \in 1 .. n : SaidLast(i)
      BY <1>3, <3>3
    <3> QED
      BY <3>1, <3>2, <3>3
  <2>4. (\E k \in 1 .. n : SaidLast(k)) <=> SaidLast(1) \/ \E k \in 1 .. n - 1 : SaidLastOfRest(k)
    BY <2>1, <2>3
  <2> QED
    BY <2>2, <2>4 DEF SaidLast, SaidLastOfRest
<1>8. Settles(x, id) => x.id = id
  BY DEF Settles
<1>9. x.kind = "xjoi" /\ x.id = id => Settles(x, id)
  BY DEF Settles
<1>10. Plays(out, id, P) <=>
         \/ \E k \in 1 .. n : /\ out[k].id = id /\ out[k].kind = "xjoi"
                              /\ \A j \in 1 .. n : j > k => ~ Settles(out[j], id)
         \/ id \in P /\ \A j \in 1 .. n : ~ Settles(out[j], id)
  BY DEF Plays, n
<1>11. Plays(rest, id, Q) <=>
         \/ \E k \in 1 .. n - 1 : /\ rest[k].id = id /\ rest[k].kind = "xjoi"
                                  /\ \A j \in 1 .. n - 1 : j > k => ~ Settles(rest[j], id)
         \/ id \in Q /\ \A j \in 1 .. n - 1 : ~ Settles(rest[j], id)
  BY <1>1 DEF Plays
<1>12. id \in Q <=> IF Settles(x, id) THEN x.kind = "xjoi" ELSE id \in P
  BY DEF x
<1>13. Plays(out, id, P) <=> Plays(rest, id, Q)
  BY <1>5, <1>7, <1>8, <1>9, <1>10, <1>11, <1>12
<1> QED
  BY <1>13 DEF rest

-----------------------------------------------------------------------------
(* What the two ends have of each other *)

\* All who make games are on one server, to which then all links lead.
OneHost == \A c, d \in Hosts : At[c] = At[d]
Homes == {At[h] : h \in Hosts}

\* The games are there, and nobody who came by a link is passed on by another.
Housed(w) ==
  /\ \A l \in DOMAIN w.links : w.links[l].to \in Homes
  /\ \A g \in DOMAIN w.games : w.games[g].server \in Homes
  /\ \A m \in DOMAIN w.conns \ Clients : w.conns[m].remote = 0

TakenToJoin(out) == \A k \in 1 .. Len(out) : out[k].kind = "xjoi" => Answers(out[k].req) = "join"

LEMMA TakenToJoinToo ==
  ASSUME NEW out \in Seq(Message), TakenToJoin(out)
  PROVE  /\ \A x \in Message : (x.kind = "xjoi" => Answers(x.req) = "join") => TakenToJoin(Append(out, x))
         /\ out # <<>> => TakenToJoin(Tail(out)) /\ (Head(out).kind = "xjoi" => Answers(Head(out).req) = "join")
<1> HIDE DEF Message
<1>1. ASSUME NEW x \in Message, x.kind = "xjoi" => Answers(x.req) = "join"
      PROVE  TakenToJoin(Append(out, x))
  <2>1. \A k \in 1 .. Len(Append(out, x)) :
          Append(out, x)[k] = x \/ (k \in 1 .. Len(out) /\ Append(out, x)[k] = out[k])
    OBVIOUS
  <2> QED
    BY <1>1, <2>1 DEF TakenToJoin
<1>2. ASSUME out # <<>>
      PROVE  TakenToJoin(Tail(out)) /\ (Head(out).kind = "xjoi" => Answers(Head(out).req) = "join")
  <2>1. \A k \in 1 .. Len(Tail(out)) : k + 1 \in 1 .. Len(out) /\ Tail(out)[k] = out[k + 1]
    BY <1>2
  <2>2. 1 \in 1 .. Len(out) /\ Head(out) = out[1]
    BY <1>2
  <2> QED
    BY <2>1, <2>2 DEF TakenToJoin
<1> QED
  BY <1>1, <1>2

\* Ends close only on broken links; a client plays through its own server's links;
\* who is taken as a player is so to join.
Joint(w) ==
  /\ \A l \in DOMAIN w.links : ~ w.links[l].broken => \A s \in DOMAIN w.links[l].ends : w.links[l].ends[s] = "up"
  /\ \A c \in Clients \cap DOMAIN w.conns : w.conns[c].remote # 0 => w.links[w.conns[c].remote].from = At[c]
  /\ \A l \in DOMAIN w.links : TakenToJoin(w.wire[l].out)

\* A client of that id plays through link l.
Through(w, l, id) == \E c \in Clients \cap DOMAIN w.conns : w.conns[c].remote = l /\ Id[c] = id

\* The ids of those who came by link l.
Arrived(w, l) == {i \in Ids : <<l, i>> \in DOMAIN w.conns}

\* Once all on the link has been handled, the host will have as a player who plays
\* through it.
Matched(w, l) ==
  \A id \in Ids : Plays(w.wire[l].out, id, Arrived(w, l)) <=> Through(w, l, id)

Meet(w) == Housed(w) /\ Joint(w) /\ \A l \in DOMAIN w.links : ~ w.links[l].broken => Matched(w, l)

LEMMA HomesAreOne ==
  ASSUME OneHost, NEW s \in Homes, NEW t \in Homes
  PROVE  s = t
  BY DEF OneHost, Homes

\* Nothing was put on a link, and nobody came, went or changed links.
LEMMA MeetStays ==
  ASSUME NEW w, NEW v, Meet(w), v.links = w.links, DOMAIN v.conns = DOMAIN w.conns,
         \A l \in DOMAIN w.links : v.wire[l].out = w.wire[l].out,
         \A m \in DOMAIN w.conns : v.conns[m].remote = w.conns[m].remote,
         \A g \in DOMAIN v.games : v.games[g].server \in Homes
  PROVE  Meet(v)
<1>1. Housed(v)
  BY DEF Meet, Housed
<1>2. Joint(v)
  BY DEF Meet, Joint
<1>3. \A l \in DOMAIN w.links : Matched(w, l) => Matched(v, l)
  BY DEF Matched, Through, Arrived
<1> QED
  BY <1>1, <1>2, <1>3 DEF Meet

LEMMA MeetAtHome ==
  ASSUME NEW w, NEW v, Meet(w), Stays(w, v)
  PROVE  Meet(v)
<1>1. \A g \in DOMAIN v.games : v.games[g].server \in Homes
  BY DEF Stays, SameServers, Meet, Housed
<1> QED
  BY <1>1, MeetStays DEF Stays

\* No two clients of one id play through the same link.
LEMMA OneThrough ==
  ASSUME NEW w, Meet(w), NEW c \in Clients \cap DOMAIN w.conns, NEW d \in Clients \cap DOMAIN w.conns,
         w.conns[c].remote # 0, w.conns[c].remote = w.conns[d].remote, Id[c] = Id[d]
  PROVE  c = d
  BY IdsAssumption DEF Meet, Joint

\* What is on its way is typed.
LEMMA OnItsWay ==
  ASSUME NEW w, Linked(w), NEW l \in DOMAIN w.links
  PROVE  w.wire[l].out \in Seq(Message) /\ l \in 1 .. MaxLinks /\ l # 0
<1>1. w.wire[l].out \in Seq(Message) /\ l \in 1 .. MaxLinks
  BY WiredHas DEF Linked
<1> QED
  BY <1>1

\* One more message for the host: the player it settles is one or is none, the
\* others are as they were.
LEMMA MeetPuts ==
  ASSUME NEW w, NEW v, Meet(w), Linked(w), NEW c \in Clients \cap DOMAIN w.conns, w.conns[c].remote # 0,
         NEW n \in {0, w.conns[c].remote}, NEW x \in Message, x.id = Id[c], x.kind # "xjoi",
         Settles(x, Id[c]) <=> n = 0,
         Puts(w, v, w.conns[c].remote, x), v.links = w.links, DOMAIN v.conns = DOMAIN w.conns,
         v.conns[c].remote = n,
         \A m \in DOMAIN w.conns \ {c} : v.conns[m].remote = w.conns[m].remote,
         \A g \in DOMAIN v.games : v.games[g].server \in Homes
  PROVE  Meet(v)
<1> DEFINE l == w.conns[c].remote
           id == Id[c]
<1>1. l \in DOMAIN w.links
  BY DEF Linked
<1>2. /\ \A k \in DOMAIN w.links \ {l} : v.wire[k].out = w.wire[k].out
      /\ v.wire[l].out = IF w.links[l].broken THEN w.wire[l].out ELSE Append(w.wire[l].out, x)
  BY <1>1 DEF Puts
<1>3. \A m \in DOMAIN w.conns : v.conns[m].remote \in {0, w.conns[m].remote}
  OBVIOUS
<1>4. Housed(v)
  BY DEF Meet, Housed
<1>5. \A k \in DOMAIN w.links : TakenToJoin(v.wire[k].out)
  <2>1. \A k \in DOMAIN w.links : TakenToJoin(w.wire[k].out)
    BY DEF Meet, Joint
  <2>2. w.wire[l].out \in Seq(Message)
    BY <1>1, OnItsWay
  <2>3. TakenToJoin(Append(w.wire[l].out, x))
    BY <1>1, <2>1, <2>2, TakenToJoinToo
  <2> QED
    BY <1>1, <1>2, <2>1, <2>3
<1>6. Joint(v)
  BY <1>3, <1>5 DEF Meet, Joint
<1>8. \A k : Arrived(v, k) = Arrived(w, k)
  BY DEF Arrived
<1>7. ASSUME NEW k \in DOMAIN w.links, ~ w.links[k].broken, NEW i \in Ids
      PROVE  Plays(v.wire[k].out, i, Arrived(v, k)) <=> Through(v, k, i)
  <2>1. Plays(w.wire[k].out, i, Arrived(w, k)) <=> Through(w, k, i)
    BY <1>7 DEF Meet, Matched
  <2>2. CASE k # l \/ i # id
    <3>1. Through(v, k, i) <=> Through(w, k, i)
      <4>1. k # 0
        BY OnItsWay
      <4>2. \A d \in Clients \cap DOMAIN w.conns : Id[d] = i => (v.conns[d].remote = k <=> w.conns[d].remote = k)
        BY <2>2, <4>1
      <4> QED
        BY <4>2 DEF Through
    <3>2. Plays(v.wire[k].out, i, Arrived(v, k)) <=> Plays(w.wire[k].out, i, Arrived(w, k))
      <4>1. CASE k # l
        BY <1>2, <1>8, <4>1
      <4>2. CASE k = l
        <5>1. ~ Settles(x, i)
          BY <2>2, <4>2 DEF Settles
        <5>2. v.wire[k].out = Append(w.wire[k].out, x) /\ w.wire[k].out \in Seq(Message)
          BY <1>2, <1>7, <4>2, OnItsWay
        <5> QED
          BY <1>8, <5>1, <5>2, PlaysAppend
      <4> QED
        BY <4>1, <4>2
    <3> QED
      BY <2>1, <3>1, <3>2
  <2>3. CASE k = l /\ i = id
    <3>1. v.wire[k].out = Append(w.wire[k].out, x) /\ w.wire[k].out \in Seq(Message)
      BY <1>2, <1>7, <2>3, OnItsWay
    <3>2. Plays(v.wire[k].out, i, Arrived(v, k)) <=>
          IF n = 0 THEN FALSE ELSE Plays(w.wire[k].out, i, Arrived(w, k))
      <4>1. Settles(x, i) <=> n = 0
        BY <2>3
      <4> QED
        BY <1>8, <3>1, <4>1, PlaysAppend
    <3>3. CASE n = 0
      <4>1. ASSUME NEW d \in Clients \cap DOMAIN w.conns, v.conns[d].remote = k, Id[d] = i
            PROVE  FALSE
        <5>1. k # 0
          BY OnItsWay
        <5>2. d # c
          BY <3>3, <4>1, <5>1
        <5>3. w.conns[d].remote = k
          BY <4>1, <5>2
        <5> QED
          BY <2>3, <4>1, <5>1, <5>2, <5>3, OneThrough
      <4>2. ~ Through(v, k, i)
        BY <4>1 DEF Through
      <4> QED
        BY <3>2, <3>3, <4>2
    <3>4. CASE n # 0
      <4>1. Through(v, k, i) <=> Through(w, k, i)
        BY <3>4 DEF Through
      <4> QED
        BY <2>1, <3>2, <3>4, <4>1
    <3> QED
      BY <3>3, <3>4
  <2> QED
    BY <2>2, <2>3
<1> QED
  BY <1>4, <1>6, <1>7 DEF Meet, Matched

\* A client joins: it is asked for last.
LEMMA MeetJoined ==
  ASSUME NEW w, NEW v, Meet(w), Linked(w), NEW c \in Clients \cap DOMAIN w.conns, w.conns[c].remote = 0,
         NEW t \in Homes, NEW l, NEW req \in Requests, Answers(req) = "join", Joined(w, v, c, t, l, req)
  PROVE  Meet(v)
<1> DEFINE x == Xjoi(w, c, req)
           s == ServerOf(w, c)
<1>1. /\ DOMAIN v.conns = DOMAIN w.conns
      /\ \A m \in DOMAIN w.conns \ {c} : v.conns[m].remote = w.conns[m].remote
      /\ v.conns[c].remote = l
      /\ DOMAIN v.games \subseteq DOMAIN w.games /\ SameServers(w, v)
      /\ DOMAIN w.links \subseteq DOMAIN v.links /\ \A k \in DOMAIN w.links : v.links[k] = w.links[k]
      /\ \A k \in DOMAIN v.links \ DOMAIN w.links : v.links[k] = NewLink(s, t) /\ s # t
      /\ l \in DOMAIN v.links /\ v.links[l].from = s /\ v.links[l].to = t
      /\ \A k \in DOMAIN v.links :
           v.wire[k].out = IF k = l /\ ~ v.links[k].broken THEN Append(OutOf(w, k), x) ELSE OutOf(w, k)
      /\ Wired(v)
  BY DEF Joined
<1>2. s = At[c] /\ x \in Message /\ x.kind = "xjoi" /\ x.id = Id[c] /\ Answers(x.req) = "join"
  <2>1. w \in Worlds /\ c \in DOMAIN w.conns
    BY DEF Linked, Wired
  <2>2. x \in Message
    BY <2>1, MessagesAre
  <2> QED
    BY <2>2 DEF Xjoi, IdOf, ServerOf
<1> HIDE DEF x, s
<1>3. \A k \in DOMAIN v.links : k \in 1 .. MaxLinks /\ k # 0
  BY <1>1, WiredHas
<1>4. \A k \in DOMAIN v.links : OutOf(w, k) \in Seq(Message) /\ TakenToJoin(OutOf(w, k))
  <2>1. \A k \in DOMAIN w.links : OutOf(w, k) \in Seq(Message) /\ TakenToJoin(OutOf(w, k))
    BY OnItsWay DEF OutOf, Meet, Joint
  <2>2. <<>> \in Seq(Message) /\ TakenToJoin(<<>>)
    BY DEF TakenToJoin
  <2> QED
    BY <2>1, <2>2 DEF OutOf
<1>5. Housed(v)
  BY <1>1 DEF Meet, Housed, SameServers, NewLink
<1>6. \A d \in Clients \cap DOMAIN w.conns : w.conns[d].remote \in DOMAIN w.links \cup {0}
  BY DEF Linked
<1>7. Joint(v)
  <2>1. \A k \in DOMAIN v.links : ~ v.links[k].broken => \A e \in DOMAIN v.links[k].ends : v.links[k].ends[e] = "up"
    BY <1>1 DEF Meet, Joint, NewLink
  <2>2. \A d \in Clients \cap DOMAIN v.conns : v.conns[d].remote # 0 => v.links[v.conns[d].remote].from = At[d]
    BY <1>1, <1>2, <1>6 DEF Meet, Joint
  <2>3. \A k \in DOMAIN v.links : TakenToJoin(v.wire[k].out)
    <3>1. \A k \in DOMAIN v.links : TakenToJoin(Append(OutOf(w, k), x))
      BY <1>2, <1>4, TakenToJoinToo
    <3> QED
      BY <1>1, <1>4, <3>1
  <2> QED
    BY <2>1, <2>2, <2>3 DEF Joint
<1>8. \A k : Arrived(v, k) = Arrived(w, k)
  BY <1>1 DEF Arrived
<1>9. \A k \in DOMAIN v.links, i \in Ids : (k # l \/ i # Id[c]) => (Through(v, k, i) <=> Through(w, k, i))
  BY <1>1, <1>3 DEF Through
<1>10. Id[c] \in Ids /\ Through(v, l, Id[c])
  BY <1>1 DEF Through, Ids
<1>11. ASSUME NEW k \in DOMAIN v.links, ~ v.links[k].broken, NEW i \in Ids
       PROVE  Plays(OutOf(w, k), i, Arrived(w, k)) <=> Through(w, k, i)
  <2>1. CASE k \in DOMAIN w.links
    BY <1>1, <1>11, <2>1 DEF Meet, Matched, OutOf
  <2>2. CASE k \notin DOMAIN w.links
    <3>1. ~ Through(w, k, i)
      BY <1>3, <1>6, <2>2 DEF Through
    <3>2. <<k, i>> \notin DOMAIN w.conns
      <4>1. <<k, i>> \notin Clients
        BY <1>3, NamesAssumption
      <4>2. PICK m : m = <<k, i>>
        OBVIOUS
      <4>3. m[1] = k
        BY <4>2
      <4> QED
        BY <2>2, <4>1, <4>2, <4>3 DEF Linked
    <3>3. i \notin Arrived(w, k)
      BY <3>2 DEF Arrived
    <3> QED
      BY <2>2, <3>1, <3>3, PlaysAtOnce DEF OutOf
  <2> QED
    BY <2>1, <2>2
<1>12. ASSUME NEW k \in DOMAIN v.links, ~ v.links[k].broken, NEW i \in Ids
       PROVE  Plays(v.wire[k].out, i, Arrived(v, k)) <=> Through(v, k, i)
  <2>1. CASE k # l
    <3>1. v.wire[k].out = OutOf(w, k)
      BY <1>1, <2>1
    <3> QED
      BY <1>8, <1>9, <1>11, <1>12, <2>1, <3>1
  <2>2. CASE k = l
    <3>1. v.wire[k].out = Append(OutOf(w, k), x)
      BY <1>1, <1>12, <2>2
    <3>2. Plays(v.wire[k].out, i, Arrived(v, k)) <=>
            IF Settles(x, i) THEN x.kind = "xjoi" ELSE Plays(OutOf(w, k), i, Arrived(w, k))
      BY <1>2, <1>4, <1>8, <3>1, PlaysAppend
    <3>3. Settles(x, i) <=> i = Id[c]
      BY <1>2 DEF Settles
    <3> QED
      BY <1>2, <1>9, <1>10, <1>11, <1>12, <2>2, <3>2, <3>3
  <2> QED
    BY <2>1, <2>2
<1> QED
  BY <1>5, <1>7, <1>12 DEF Meet, Matched

\* A client that plays nowhere goes.
LEMMA MeetLoses ==
  ASSUME NEW w, NEW v, Meet(w), Linked(w), NEW c \in Clients \cap DOMAIN w.conns, w.conns[c].remote = 0,
         Loses(w, v, {c})
  PROVE  Meet(v)
<1>1. /\ DOMAIN v.conns = DOMAIN w.conns \ {c}
      /\ \A m \in DOMAIN v.conns : v.conns[m].remote = w.conns[m].remote
      /\ v.links = w.links /\ DOMAIN v.games \subseteq DOMAIN w.games /\ SameServers(w, v)
      /\ \A l \in DOMAIN w.links : v.wire[l].out = w.wire[l].out
  BY DEF Loses
<1>2. Housed(v)
  BY <1>1 DEF Meet, Housed, SameServers
<1>3. Joint(v)
  BY <1>1 DEF Meet, Joint
<1>4. \A l \in DOMAIN w.links : l \in 1 .. MaxLinks /\ l # 0
  BY OnItsWay
<1>5. \A l \in DOMAIN w.links : Arrived(v, l) = Arrived(w, l)
  <2>1. \A l \in DOMAIN w.links, i \in Ids : <<l, i>> # c
    BY <1>4, NamesAssumption
  <2> QED
    BY <1>1, <2>1 DEF Arrived
<1>6. \A l \in DOMAIN w.links, i \in Ids : Through(v, l, i) <=> Through(w, l, i)
  BY <1>1, <1>4 DEF Through
<1>7. \A l \in DOMAIN w.links : Matched(w, l) => Matched(v, l)
  BY <1>1, <1>5, <1>6 DEF Matched
<1> QED
  BY <1>1, <1>2, <1>3, <1>7 DEF Meet

\* What the servers heard of are games on others.
HeardHome == \A s \in Servers : Heard(s) \subseteq Homes \ {s}

\* A client leaves the link it plays through.
LEMMA MeetLeaves ==
  ASSUME NEW w, Meet(w), Linked(w), NEW c \in Clients \cap DOMAIN w.conns, w.conns[c].remote # 0,
         NEW v, OwnEnd(w, v, c), Placed(w, v, c, w.conns[c].game, 0), Puts(w, v, w.conns[c].remote, Xlea(w, c))
  PROVE  Meet(v)
<1>1. PICK x : x = Xlea(w, c)
  OBVIOUS
<1>2. x \in Message
  BY <1>1, MessagesAre DEF Linked, Wired
<1>3. x.id = Id[c] /\ x.kind = "xlea"
  BY <1>1 DEF Xlea, IdOf
<1>4. Settles(x, Id[c])
  BY <1>3 DEF Settles
<1>5. PICK n \in {0, w.conns[c].remote} : n = 0
  OBVIOUS
<1>6. /\ v.links = w.links /\ v.games = w.games /\ DOMAIN v.conns = DOMAIN w.conns /\ v.conns[c].remote = n
      /\ \A m \in DOMAIN w.conns \ {c} : v.conns[m].remote = w.conns[m].remote
      /\ \A g \in DOMAIN v.games : v.games[g].server \in Homes
  BY <1>5 DEF OwnEnd, Placed, Meet, Housed
<1> QED
  BY <1>1, <1>2, <1>3, <1>4, <1>5, <1>6, MeetPuts

\* A client leaves the link it plays through, if it does.
LEMMA MeetDrops ==
  ASSUME NEW w, Meet(w), Linked(w), NEW c \in Clients \cap DOMAIN w.conns
  PROVE  Meet(DropRemote(w, c))
<1>1. PICK v, l : v = DropRemote(w, c) /\ l = w.conns[c].remote
  OBVIOUS
<1>2. Linked(v) /\ OwnEnd(w, v, c) /\ Placed(w, v, c, w.conns[c].game, 0) /\ Puts(w, v, l, Xlea(w, c))
  BY <1>1, DropRemoteDoes
<1>3. /\ v.links = w.links /\ v.games = w.games /\ DOMAIN v.conns = DOMAIN w.conns /\ v.conns[c].remote = 0
      /\ \A m \in DOMAIN w.conns \ {c} : v.conns[m].remote = w.conns[m].remote
      /\ \A g \in DOMAIN v.games : v.games[g].server \in Homes
  BY <1>2 DEF OwnEnd, Placed, Meet, Housed
<1>4. CASE l = 0
  <2>1. \A k \in DOMAIN w.links : v.wire[k].out = w.wire[k].out
    BY <1>2, <1>4, OnItsWay DEF Puts
  <2> QED
    BY <1>1, <1>3, <1>4, <2>1, MeetStays
<1>5. CASE l # 0
  BY <1>1, <1>2, <1>5, MeetLeaves
<1> QED
  BY <1>1, <1>4, <1>5

\* A client's request is handled.
LEMMA MeetRan ==
  ASSUME NEW w, NEW v, Meet(w), Linked(w), HeardHome, NEW c \in Clients \cap DOMAIN w.conns,
         NEW req \in Requests, Ran(w, v, c, req)
  PROVE  Meet(v)
<1> DEFINE l == w.conns[c].remote
<1>1. CASE Forwarded(w, v, c, req)
  <2>1. PICK x, n : x = Xfwd(w, c, req) /\ n = IF Answers(req) = "leave" THEN 0 ELSE l
    OBVIOUS
  <2>2. l # 0 /\ OwnEnd(w, v, c) /\ Placed(w, v, c, w.conns[c].game, n) /\ Puts(w, v, l, x)
    BY <1>1, <2>1 DEF Forwarded
  <2>3. x \in Message
    BY <2>1, MessagesAre DEF Linked, Wired
  <2>4. x.id = Id[c] /\ x.kind = "xfwd" /\ x.req = req
    BY <2>1 DEF Xfwd, IdOf
  <2>5. Settles(x, Id[c]) <=> n = 0
    BY <2>1, <2>2, <2>4 DEF Settles
  <2>6. n \in {0, l}
    BY <2>1
  <2>7. /\ v.links = w.links /\ v.games = w.games /\ DOMAIN v.conns = DOMAIN w.conns /\ v.conns[c].remote = n
        /\ \A m \in DOMAIN w.conns \ {c} : v.conns[m].remote = w.conns[m].remote
        /\ \A g \in DOMAIN v.games : v.games[g].server \in Homes
    BY <2>2 DEF OwnEnd, Placed, Meet, Housed
  <2> QED
    BY <2>2, <2>3, <2>4, <2>5, <2>6, <2>7, MeetPuts
<1>2. CASE \E u : /\ Here(w, u, c, req)
                  /\ Serves(u, v, c, Answers(req)) \/ (Answers(req) = "join" /\ JoinsOut(u, v, c, req))
  <2>1. PICK u : /\ Here(w, u, c, req)
                 /\ Serves(u, v, c, Answers(req)) \/ (Answers(req) = "join" /\ JoinsOut(u, v, c, req))
    BY <1>2
  <2>2. Linked(u) /\ c \in DOMAIN u.conns /\ u.conns[c].remote = 0
    BY <2>1 DEF Here
  <2>3. Meet(u)
    <3>1. CASE u = w
      BY <3>1
    <3>2. CASE u # w
      BY <2>1, <3>2, MeetLeaves DEF Here
    <3> QED
      BY <3>1, <3>2
  <2>4. CASE Serves(u, v, c, Answers(req))
    BY <2>3, <2>4, MeetAtHome DEF Serves, AtHome
  <2>5. CASE Answers(req) = "join" /\ JoinsOut(u, v, c, req)
    <3>1. PICK t \in Heard(ServerOf(u, c)) : \E k : Joined(u, v, c, t, k, req)
      BY <2>5 DEF JoinsOut
    <3>2. PICK k : Joined(u, v, c, t, k, req)
      BY <3>1
    <3>3. ServerOf(u, c) \in Servers
      BY <2>2, ServerIs
    <3>4. t \in Homes
      BY <3>1, <3>3 DEF HeardHome
    <3> QED
      BY <2>2, <2>3, <2>5, <3>2, <3>4, MeetJoined
  <2> QED
    BY <2>1, <2>4, <2>5
<1> QED
  BY <1>1, <1>2 DEF Ran

\* What a player who came by a link asks for is handled where it came to.
LEMMA PlayersStay ==
  ASSUME NEW w, NEW v, Housed(w), Linked(w), HeardHome, OneHost, NEW m \in DOMAIN w.conns \ Clients,
         NEW req, Ran(w, v, m, req)
  PROVE  Serves(w, v, m, Answers(req))
<1>1. w.conns[m].remote = 0
  BY DEF Housed
<1>2. ~ Forwarded(w, v, m, req)
  BY <1>1 DEF Forwarded
<1>3. PICK u : /\ Here(w, u, m, req)
               /\ Serves(u, v, m, Answers(req)) \/ (Answers(req) = "join" /\ JoinsOut(u, v, m, req))
  BY <1>2 DEF Ran
<1>4. u = w
  BY <1>1, <1>3 DEF Here
<1>5. ~ JoinsOut(w, v, m, req)
  <2>1. PICK s : s = ServerOf(w, m)
    OBVIOUS
  <2>2. s \in Homes /\ s \in Servers
    BY <2>1, ServerIs DEF ServerOf, Housed, Linked
  <2>3. Heard(s) = {}
    BY <2>2, HomesAreOne DEF HeardHome
  <2> QED
    BY <2>1, <2>3 DEF JoinsOut
<1> QED
  BY <1>3, <1>4, <1>5

\* What was on its way to players still is, and more may be; they are owed no more.
MoreSaid(w, v) ==
  /\ \A k \in DOMAIN w.links : ToSet(w.wire[k].back) \subseteq ToSet(v.wire[k].back)
  /\ \A c \in Clients : v.owed[c] \subseteq w.owed[c]

\* The host has somebody to run the message's request for, who stays.
Serving(w, l, message) ==
  /\ message.kind = "xjoi" \/ (message.kind = "xfwd" /\ <<l, message.id>> \in DOMAIN w.conns)
  /\ Answers(message.req) # "leave"

\* What the host has handled of a message from link l.
Handled(w, v, l, message) ==
  LET m == <<l, message.id>> IN
  /\ v.links = w.links
  /\ \A k \in DOMAIN w.links \ {l} : v.wire[k].out = w.wire[k].out
  /\ v.wire[l].out = Tail(w.wire[l].out)
  /\ DOMAIN v.conns \ {m} = DOMAIN w.conns \ {m}
  /\ m \in DOMAIN v.conns <=> IF Settles(message, message.id) THEN message.kind = "xjoi" ELSE m \in DOMAIN w.conns
  /\ \A x \in DOMAIN v.conns \ {m} : v.conns[x].remote = w.conns[x].remote
  /\ m \in DOMAIN v.conns => v.conns[m].remote = 0
  /\ DOMAIN v.games \subseteq DOMAIN w.games /\ SameServers(w, v)
  /\ MoreSaid(w, v)
  /\ Serving(w, l, message) => Replied(v, m, Answers(message.req))

LEMMA MeetHandled ==
  ASSUME NEW w, NEW v, Meet(w), Linked(w), NEW l \in DOMAIN w.links, w.wire[l].out # <<>>,
         Handled(w, v, l, Head(w.wire[l].out))
  PROVE  Meet(v)
<1>1. PICK message, m : message = Head(w.wire[l].out) /\ m = <<l, message.id>>
  OBVIOUS
<1>2. /\ v.links = w.links
      /\ \A k \in DOMAIN w.links \ {l} : v.wire[k].out = w.wire[k].out
      /\ v.wire[l].out = Tail(w.wire[l].out)
      /\ DOMAIN v.conns \ {m} = DOMAIN w.conns \ {m}
      /\ m \in DOMAIN v.conns <=> IF Settles(message, message.id) THEN message.kind = "xjoi" ELSE m \in DOMAIN w.conns
      /\ \A x \in DOMAIN v.conns \ {m} : v.conns[x].remote = w.conns[x].remote
      /\ m \in DOMAIN v.conns => v.conns[m].remote = 0
      /\ DOMAIN v.games \subseteq DOMAIN w.games /\ SameServers(w, v)
  BY <1>1 DEF Handled
<1>3. w.wire[l].out \in Seq(Message) /\ l \in 1 .. MaxLinks /\ TakenToJoin(w.wire[l].out)
  BY OnItsWay DEF Meet, Joint
<1>4. message.id \in Ids /\ m \notin Clients
  <2>1. message \in Message
    BY <1>1, <1>3
  <2>2. message.id \in Ids
    BY <2>1 DEF Message
  <2> QED
    BY <1>1, <1>3, <2>2, NamesAssumption
<1>5. Housed(v)
  BY <1>2 DEF Meet, Housed, SameServers
<1>6. Clients \cap DOMAIN v.conns = Clients \cap DOMAIN w.conns
      /\ \A c \in Clients \cap DOMAIN w.conns : v.conns[c].remote = w.conns[c].remote
  BY <1>2, <1>4
<1>7. \A k \in DOMAIN w.links : TakenToJoin(v.wire[k].out)
  BY <1>2, <1>3, TakenToJoinToo DEF Meet, Joint
<1>8. Joint(v)
  BY <1>2, <1>6, <1>7 DEF Meet, Joint
<1>9. \A k, i : Through(v, k, i) <=> Through(w, k, i)
  BY <1>6 DEF Through
<1>10. ASSUME NEW k \in DOMAIN w.links, k # l
       PROVE  Arrived(v, k) = Arrived(w, k)
  <2>1. \A i \in Ids : <<k, i>> # m
    BY <1>1, <1>10
  <2> QED
    BY <1>2, <2>1 DEF Arrived
<1>11. ASSUME NEW i \in Ids
       PROVE  i \in Arrived(v, l) <=> IF Settles(message, i) THEN message.kind = "xjoi" ELSE i \in Arrived(w, l)
  <2>1. CASE i = message.id
    BY <1>1, <1>2, <2>1 DEF Arrived
  <2>2. CASE i # message.id
    <3>1. ~ Settles(message, i)
      BY <2>2 DEF Settles
    <3>2. <<l, i>> # m
      BY <1>1, <2>2
    <3> QED
      BY <1>2, <3>1, <3>2 DEF Arrived
  <2> QED
    BY <2>1, <2>2
<1>12. ASSUME NEW i \in Ids
       PROVE  Plays(v.wire[l].out, i, Arrived(v, l)) <=> Plays(w.wire[l].out, i, Arrived(w, l))
  <2>1. PICK out, P, Q : out = w.wire[l].out /\ P = Arrived(w, l) /\ Q = Arrived(v, l)
    OBVIOUS
  <2>2. out \in Seq(Message) /\ out # <<>> /\ Head(out) = message /\ v.wire[l].out = Tail(out)
    BY <1>1, <1>2, <1>3, <2>1
  <2>3. i \in Q <=> IF Settles(Head(out), i) THEN Head(out).kind = "xjoi" ELSE i \in P
    BY <1>11, <2>1, <2>2
  <2>4. Plays(out, i, P) <=> Plays(Tail(out), i, Q)
    BY <2>2, <2>3, PlaysTail
  <2> QED
    BY <2>1, <2>2, <2>4
<1>13. \A k \in DOMAIN w.links : Matched(w, k) => Matched(v, k)
  BY <1>2, <1>9, <1>10, <1>12 DEF Matched
<1> QED
  BY <1>2, <1>5, <1>8, <1>13 DEF Meet

\* Link l is broken, or was: who was on it may be gone from it.
Cut(w, v, l) ==
  /\ DOMAIN v.links = DOMAIN w.links
  /\ \A k \in DOMAIN w.links \ {l} : v.links[k] = w.links[k] /\ v.wire[k].out = w.wire[k].out
  /\ v.links[l].from = w.links[l].from /\ v.links[l].to = w.links[l].to /\ v.links[l].broken
  /\ v.wire[l].out \in {<<>>, w.wire[l].out}
  /\ DOMAIN v.conns \subseteq DOMAIN w.conns
  /\ \A m \in DOMAIN w.conns \ DOMAIN v.conns : m \notin Clients /\ m[1] = l
  /\ \A m \in DOMAIN v.conns : \/ v.conns[m].remote = w.conns[m].remote
                               \/ w.conns[m].remote = l /\ v.conns[m].remote = 0
  /\ DOMAIN v.games \subseteq DOMAIN w.games /\ SameServers(w, v)
  /\ \A k \in DOMAIN w.links \ {l} : ToSet(w.wire[k].back) \subseteq ToSet(v.wire[k].back)
  /\ \A c \in Clients : v.owed[c] \subseteq w.owed[c]

LEMMA MeetCut ==
  ASSUME NEW w, NEW v, Meet(w), Linked(w), NEW l \in DOMAIN w.links, Cut(w, v, l)
  PROVE  Meet(v)
<1>1. \A k \in DOMAIN w.links : v.links[k].from = w.links[k].from /\ v.links[k].to = w.links[k].to
  BY DEF Cut
<1>2. DOMAIN v.links = DOMAIN w.links /\ DOMAIN v.conns \subseteq DOMAIN w.conns
  BY DEF Cut
<1>3. \A m \in DOMAIN v.conns : v.conns[m].remote \in {w.conns[m].remote, 0}
  BY DEF Cut
<1>4. Housed(v)
  BY <1>1, <1>2, <1>3 DEF Meet, Housed, Cut, SameServers
<1>5. Joint(v)
  <2>1. \A k \in DOMAIN v.links : ~ v.links[k].broken => \A s \in DOMAIN v.links[k].ends : v.links[k].ends[s] = "up"
    BY DEF Meet, Joint, Cut
  <2>2. \A c \in Clients \cap DOMAIN v.conns : v.conns[c].remote # 0 => v.links[v.conns[c].remote].from = At[c]
    <3>1. \A c \in Clients \cap DOMAIN w.conns : w.conns[c].remote \in DOMAIN w.links \cup {0}
      BY DEF Linked
    <3> QED
      BY <1>1, <1>2, <1>3, <3>1 DEF Meet, Joint
  <2>3. \A k \in DOMAIN v.links : TakenToJoin(v.wire[k].out)
    <3>1. TakenToJoin(<<>>)
      BY DEF TakenToJoin
    <3> QED
      BY <3>1 DEF Meet, Joint, Cut
  <2> QED
    BY <2>1, <2>2, <2>3 DEF Joint
<1>6. ASSUME NEW k \in DOMAIN v.links, ~ v.links[k].broken PROVE Matched(v, k)
  <2>1. k \in DOMAIN w.links /\ k # l /\ v.links[k] = w.links[k] /\ v.wire[k].out = w.wire[k].out
    BY <1>6 DEF Cut
  <2>2. k # 0
    BY <2>1, OnItsWay
  <2>3. Arrived(v, k) = Arrived(w, k)
    <3>1. ASSUME NEW i \in Ids PROVE <<k, i>> \in DOMAIN v.conns <=> <<k, i>> \in DOMAIN w.conns
      <4>1. PICK m : m = <<k, i>>
        OBVIOUS
      <4>2. m[1] # l
        BY <2>1, <4>1
      <4> QED
        BY <4>1, <4>2 DEF Cut
    <3> QED
      BY <3>1 DEF Arrived
  <2>4. \A i : Through(v, k, i) <=> Through(w, k, i)
    <3>1. Clients \cap DOMAIN v.conns = Clients \cap DOMAIN w.conns
      BY DEF Cut
    <3>2. \A c \in Clients \cap DOMAIN v.conns : v.conns[c].remote = k <=> w.conns[c].remote = k
      BY <2>1, <2>2 DEF Cut
    <3> QED
      BY <3>1, <3>2 DEF Through
  <2>5. Matched(w, k)
    BY <1>6, <2>1 DEF Meet
  <2> QED
    BY <2>1, <2>3, <2>4, <2>5 DEF Matched
<1> QED
  BY <1>4, <1>5, <1>6 DEF Meet

-----------------------------------------------------------------------------
(* The two ends *)

\* Both ends have of each other what they should, once all on its way is handled.
BothEnds == Inv /\ Meet(World) /\ HeardHome

LEMMA HeardStays ==
  ASSUME HeardHome, UNCHANGED known
  PROVE  HeardHome'
  BY DEF HeardHome, Heard

LEMMA InvHas ==
  ASSUME Inv
  PROVE  /\ Well(World) /\ Linked(World) /\ World \in Worlds
         /\ World.conns = conns /\ World.games = games /\ World.links = links /\ World.wire = wire
  BY WorldIs DEF Inv, Well, Linked, Wired

LEMMA RequestMeets ==
  ASSUME BothEnds, NEW c \in Clients, Request(c)
  PROVE  BothEnds'
<1>1. PICK w, v : w = World /\ v = World'
  OBVIOUS
<1>2. Meet(w) /\ Linked(w) /\ Inv /\ HeardHome
  BY <1>1, InvHas DEF BothEnds
<1>3. c \in Clients \cap DOMAIN w.conns /\ Inv'
  BY <1>1, <1>2, RequestIs, InvHas
<1>4. PICK req \in Requests : Ran(w, v, c, req)
  BY <1>1, <1>2, RequestIs
<1>5. Meet(v)
  BY <1>2, <1>3, <1>4, MeetRan
<1>6. HeardHome'
  BY <1>2, HeardStays DEF Request
<1> QED
  BY <1>1, <1>3, <1>5, <1>6 DEF BothEnds

LEMMA QuitMeets ==
  ASSUME NEW w, Well(w), Meet(w), NEW c \in Clients \cap DOMAIN w.conns
  PROVE  LET v == LeaveGame(DropRemote(w, c), c) IN
         Meet(v) /\ Linked(v) /\ c \in DOMAIN v.conns /\ v.conns[c].remote = 0
<1>1. PICK u, v : u = DropRemote(w, c) /\ v = LeaveGame(u, c)
  OBVIOUS
<1>2. Meet(u)
  BY <1>1, MeetDrops DEF Well
<1>3. AtHome(u, v) /\ DOMAIN v.conns = DOMAIN w.conns /\ v.conns[c].remote = 0 /\ Well(v)
  BY <1>1, QuitWell
<1>4. Meet(v)
  BY <1>2, <1>3, MeetAtHome DEF AtHome
<1> QED
  BY <1>1, <1>3, <1>4 DEF Well

LEMMA GcreMeets ==
  ASSUME BothEnds, NEW c \in Clients, Gcre(c)
  PROVE  BothEnds'
<1>1. PICK w, left, made, v, n :
        w = World /\ left = LeaveGame(DropRemote(w, c), c) /\ made = Made(left, c, nextGame) /\ v = World' /\ n = nextGame
  OBVIOUS
<1>2. Meet(w) /\ Well(w) /\ Inv /\ HeardHome
  BY <1>1, InvHas DEF BothEnds
<1>3. c \in DOMAIN w.conns \cap Hosts /\ Inv' /\ Opens(left, made, c, n) /\ AtHome(made, v)
  <2>1. c \in DOMAIN conns \cap Hosts /\ Inv'
    BY <1>2, GcreIs
  <2>2. Opens(left, made, c, n) /\ AtHome(made, v)
    BY <1>1, <1>2, GcreIs
  <2> QED
    BY <1>1, <1>2, <2>1, <2>2, InvHas
<1>4. Meet(left) /\ c \in DOMAIN left.conns /\ left.conns[c].remote = 0
  BY <1>1, <1>2, <1>3, QuitMeets
<1>5. Meet(made)
  <2>1. /\ made.links = left.links /\ made.wire = left.wire /\ DOMAIN made.conns = DOMAIN left.conns
        /\ \A m \in DOMAIN left.conns : made.conns[m].remote = left.conns[m].remote
    BY <1>3, <1>4 DEF Opens, Placed
  <2>2. \A g \in DOMAIN made.games : made.games[g].server \in Homes
    BY <1>3, <1>4 DEF Opens, Meet, Housed, Homes
  <2> QED
    BY <1>4, <2>1, <2>2, MeetStays
<1>6. Meet(v)
  BY <1>3, <1>5, MeetAtHome DEF AtHome
<1>7. HeardHome'
  BY <1>2, HeardStays DEF Gcre
<1> QED
  BY <1>1, <1>3, <1>6, <1>7 DEF BothEnds

LEMMA HangupMeets ==
  ASSUME BothEnds, NEW c \in Clients, Hangup(c)
  PROVE  BothEnds'
<1>1. PICK w, left, v : w = World /\ left = LeaveGame(DropRemote(w, c), c) /\ v = World'
  OBVIOUS
<1>2. Meet(w) /\ Well(w) /\ Inv /\ HeardHome
  BY <1>1, InvHas DEF BothEnds
<1>3. c \in DOMAIN conns /\ Inv' /\ Loses(left, v, {c})
  BY <1>1, <1>2, HangupIs
<1>4. Meet(left) /\ Linked(left) /\ c \in DOMAIN left.conns /\ left.conns[c].remote = 0
  BY <1>1, <1>2, <1>3, QuitMeets, InvHas
<1>5. Meet(v)
  BY <1>3, <1>4, MeetLoses
<1>6. HeardHome'
  BY <1>2, HeardStays DEF Hangup
<1> QED
  BY <1>1, <1>3, <1>5, <1>6 DEF BothEnds

LEMMA BeaconMeets ==
  ASSUME BothEnds, NEW g \in 1 .. MaxGames, NEW t \in Servers, Beacon(g, t)
  PROVE  BothEnds'
<1>1. World' = World /\ Inv' /\ Inv
  BY BeaconIs DEF BothEnds
<1>2. Meet(World)'
  BY <1>1 DEF BothEnds
<1>3. g \in DOMAIN games /\ t # games[g].server
  BY DEF Beacon
<1>4. PICK entry : /\ entry.server = games[g].server
                   /\ known' = [known EXCEPT ![t] = With(@, g, entry)]
  BY DEF Beacon
<1>5. entry.server \in Homes \ {t}
  BY <1>1, <1>3, <1>4, InvHas DEF BothEnds, Meet, Housed
<1>6. DOMAIN known = Servers /\ HeardHome
  BY DEF BothEnds, Inv
<1>7. ASSUME NEW s \in Servers, NEW i \in DOMAIN known'[s] PROVE known'[s][i].server \in Homes \ {s}
  <2>1. \A j \in DOMAIN known[s] : known[s][j].server \in Homes \ {s}
    BY <1>6 DEF HeardHome, Heard
  <2>2. CASE s = t
    <3>1. known'[t] = With(known[t], g, entry)
      BY <1>4, <1>6
    <3>2. i \in DOMAIN known[t] \cup {g} /\ known'[t][i] = IF i = g THEN entry ELSE known[t][i]
      BY <1>7, <2>2, <3>1 DEF With
    <3> QED
      BY <1>5, <2>1, <2>2, <3>2
  <2>3. CASE s # t
    <3>1. known'[s] = known[s]
      BY <1>4, <1>6, <2>3
    <3> QED
      BY <1>7, <2>1, <3>1
  <2> QED
    BY <2>2, <2>3
<1>8. HeardHome'
  BY <1>7 DEF HeardHome, Heard
<1> QED
  BY <1>1, <1>2, <1>8 DEF BothEnds

LEMMA ExpireMeets ==
  ASSUME BothEnds, NEW g \in 1 .. MaxGames, NEW t \in Servers, Expire(g, t)
  PROVE  BothEnds'
<1>1. World' = World /\ Inv'
  BY ExpireIs DEF BothEnds
<1>2. Meet(World)'
  BY <1>1 DEF BothEnds
<1>3. known' = [known EXCEPT ![t] = Without(@, g)] /\ DOMAIN known = Servers /\ HeardHome
  BY DEF Expire, BothEnds, Inv
<1>4. ASSUME NEW s \in Servers, NEW i \in DOMAIN known'[s] PROVE known'[s][i].server \in Homes \ {s}
  <2>1. \A j \in DOMAIN known[s] : known[s][j].server \in Homes \ {s}
    BY <1>3 DEF HeardHome, Heard
  <2>2. i \in DOMAIN known[s] /\ known'[s][i] = known[s][i]
    BY <1>3, <1>4 DEF Without
  <2> QED
    BY <2>1, <2>2
<1>5. HeardHome'
  BY <1>4 DEF HeardHome, Heard
<1> QED
  BY <1>1, <1>2, <1>5 DEF BothEnds

LEMMA SendHeldMeets ==
  ASSUME BothEnds, SendHeld
  PROVE  BothEnds'
<1>1. Inv' /\ AtHome(World, World')
  BY SendHeldIs DEF BothEnds
<1>2. PICK w, v : w = World /\ v = World'
  OBVIOUS
<1>3. Meet(v)
  BY <1>1, <1>2, MeetAtHome DEF BothEnds, AtHome
<1>4. HeardHome'
  BY HeardStays DEF BothEnds, SendHeld
<1> QED
  BY <1>1, <1>2, <1>3, <1>4 DEF BothEnds

\* The host handles a message: a player came, went, or asked for something.
LEMMA HandleOutDoes ==
  ASSUME OneHost, BothEnds, NEW l \in DOMAIN links, HandleOut(l)
  PROVE  Inv' /\ wire[l].out # <<>> /\ Handled(World, World', l, Head(wire[l].out))
<1>1. PICK w, message, m, u, v :
        /\ w = World /\ message = Head(wire[l].out) /\ m = <<l, message.id>> /\ u = TakenOut(w, l) /\ v = World'
  OBVIOUS
<1>2. Meet(w) /\ Well(w) /\ Linked(w) /\ Inv /\ HeardHome /\ w.wire = wire /\ w.links = links /\ w.conns = conns
  BY <1>1, InvHas DEF BothEnds
<1>3. /\ Inv' /\ wire[l].out # <<>>
      /\ message \in Message /\ m \in People \ Clients /\ Well(u)
  BY <1>1, <1>2, HandleOutIs
<1>4. HandlesOut(u, v, m, message)
  BY <1>1, <1>2, HandleOutIs
<1>5. /\ ButWire(w, u)
      /\ \A k \in DOMAIN w.links \ {l} : u.wire[k] = w.wire[k]
      /\ u.wire[l].out = Tail(w.wire[l].out) /\ u.wire[l].back = w.wire[l].back
  BY <1>1, <1>2, <1>3, TakenOutDoes
<1>6. u.links = w.links /\ u.conns = w.conns /\ u.games = w.games /\ MoreSaid(w, u)
  BY <1>5 DEF ButWire, MoreSaid
<1>7. m \in DOMAIN w.conns => w.conns[m].remote = 0
  BY <1>2, <1>3 DEF Meet, Housed
<1>8. message.kind = "xjoi" => Answers(message.req) = "join"
  BY <1>1, <1>2, <1>3, OnItsWay, TakenToJoinToo DEF Meet, Joint
<1>9. Linked(u) /\ Housed(u)
  BY <1>2, <1>3, <1>6 DEF Meet, Housed, Well
<1>10. Settles(message, message.id) <=> message.kind # "xfwd" \/ Answers(message.req) = "leave"
  BY DEF Settles
<1>11. CASE message.kind = "xjoi"
  <2>1. PICK t : Taken(u, t, m, message.user) /\ Well(t)
                 /\ \E x : /\ Ran(t, x, m, message.req) /\ Well(x)
                           /\ IF Answers(message.req) = "leave" THEN Loses(x, v, {m}) ELSE v = x
    BY <1>4, <1>11 DEF HandlesOut
  <2>2. Ran(t, v, m, message.req)
    BY <1>8, <1>11, <2>1
  <2>3. /\ DOMAIN t.conns = DOMAIN u.conns \cup {m} /\ t.conns[m].remote = 0
        /\ \A x \in DOMAIN u.conns \ {m} : t.conns[x].remote = u.conns[x].remote
        /\ t.links = u.links /\ DOMAIN t.games \subseteq DOMAIN u.games /\ SameServers(u, t)
        /\ \A k \in DOMAIN u.links : t.wire[k].out = u.wire[k].out
    BY <2>1 DEF Taken
  <2>4. Housed(t) /\ Linked(t)
    BY <1>9, <2>1, <2>3 DEF Housed, SameServers, Well
  <2>5. Stays(t, v) /\ Replied(v, m, Answers(message.req))
    BY <1>2, <1>3, <2>2, <2>3, <2>4, PlayersStay DEF Serves, AtHome
  <2>6. /\ DOMAIN v.conns = DOMAIN t.conns /\ v.links = t.links /\ DOMAIN v.games \subseteq DOMAIN t.games
        /\ SameServers(t, v)
        /\ \A x \in DOMAIN t.conns : v.conns[x].remote = t.conns[x].remote
        /\ \A k \in DOMAIN t.links : v.wire[k].out = t.wire[k].out
    BY <2>5 DEF Stays
  <2>7. SameServers(w, v)
    BY <1>6, <2>3, <2>6 DEF SameServers
  <2>8. MoreSaid(w, v)
    BY <1>6, <2>1, <2>5 DEF MoreSaid, Taken, Stays
  <2> QED
    BY <1>1, <1>2, <1>3, <1>5, <1>6, <1>10, <1>11, <2>3, <2>5, <2>6, <2>7, <2>8 DEF Handled
<1>12. CASE message.kind # "xjoi" /\ m \notin DOMAIN conns
  <2>1. v = u
    BY <1>2, <1>4, <1>6, <1>12 DEF HandlesOut
  <2>2. SameServers(w, v)
    BY <1>6, <2>1 DEF SameServers
  <2> QED
    BY <1>1, <1>2, <1>3, <1>5, <1>6, <1>12, <2>1, <2>2 DEF Handled, Serving
<1>13. CASE message.kind = "xlea" /\ m \in DOMAIN conns
  <2>1. Loses(u, v, {m})
    BY <1>2, <1>4, <1>6, <1>13 DEF HandlesOut
  <2>2. /\ DOMAIN v.conns = DOMAIN u.conns \ {m} /\ v.links = u.links /\ DOMAIN v.games \subseteq DOMAIN u.games
        /\ SameServers(u, v)
        /\ \A x \in DOMAIN v.conns : v.conns[x].remote = u.conns[x].remote
        /\ \A k \in DOMAIN u.links : v.wire[k].out = u.wire[k].out
    BY <2>1 DEF Loses
  <2>3. SameServers(w, v)
    BY <1>6, <2>2 DEF SameServers
  <2>4. MoreSaid(w, v)
    BY <1>6, <2>1 DEF MoreSaid, Loses
  <2> QED
    BY <1>1, <1>2, <1>3, <1>5, <1>6, <1>10, <1>13, <2>2, <2>3, <2>4 DEF Handled, Serving
<1>14. CASE message.kind = "xfwd" /\ m \in DOMAIN conns
  <2>1. PICK x : /\ Ran(u, x, m, message.req) /\ Well(x)
                 /\ IF Answers(message.req) = "leave" THEN Loses(x, v, {m}) ELSE v = x
    BY <1>2, <1>4, <1>6, <1>14 DEF HandlesOut
  <2>2. Stays(u, x) /\ Replied(x, m, Answers(message.req))
    BY <1>2, <1>3, <1>6, <1>9, <1>14, <2>1, PlayersStay DEF Serves, AtHome
  <2>3. /\ DOMAIN x.conns = DOMAIN u.conns /\ x.links = u.links /\ DOMAIN x.games \subseteq DOMAIN u.games
        /\ SameServers(u, x)
        /\ \A y \in DOMAIN u.conns : x.conns[y].remote = u.conns[y].remote
        /\ \A k \in DOMAIN u.links : x.wire[k].out = u.wire[k].out
    BY <2>2 DEF Stays
  <2>4. CASE Answers(message.req) = "leave"
    <3>1. /\ DOMAIN v.conns = DOMAIN x.conns \ {m} /\ v.links = x.links /\ DOMAIN v.games \subseteq DOMAIN x.games
          /\ SameServers(x, v)
          /\ \A y \in DOMAIN v.conns : v.conns[y].remote = x.conns[y].remote
          /\ \A k \in DOMAIN x.links : v.wire[k].out = x.wire[k].out
      BY <2>1, <2>4 DEF Loses
    <3>2. SameServers(w, v)
      BY <1>6, <2>3, <3>1 DEF SameServers
    <3>3. MoreSaid(w, v)
      BY <1>6, <2>1, <2>2, <2>4 DEF MoreSaid, Stays, Loses
    <3> QED
      BY <1>1, <1>2, <1>3, <1>5, <1>6, <1>10, <1>14, <2>3, <2>4, <3>1, <3>2, <3>3 DEF Handled, Serving
  <2>5. CASE Answers(message.req) # "leave"
    <3>1. v = x
      BY <2>1, <2>5
    <3>2. SameServers(w, v)
      BY <1>6, <2>3, <3>1 DEF SameServers
    <3>3. MoreSaid(w, v)
      BY <1>6, <2>2, <3>1 DEF MoreSaid, Stays
    <3> QED
      BY <1>1, <1>2, <1>3, <1>5, <1>6, <1>7, <1>10, <1>14, <2>2, <2>3, <2>5, <3>1, <3>2, <3>3 DEF Handled
  <2> QED
    BY <2>4, <2>5
<1>15. message.kind \in {"xjoi", "xlea", "xfwd"}
  BY <1>3 DEF Message
<1> QED
  BY <1>11, <1>12, <1>13, <1>14, <1>15

LEMMA HandleOutMeets ==
  ASSUME OneHost, BothEnds, NEW l \in DOMAIN links, HandleOut(l)
  PROVE  BothEnds'
<1>1. PICK w, v : w = World /\ v = World'
  OBVIOUS
<1>2. Meet(w) /\ Linked(w) /\ HeardHome /\ w.wire = wire /\ w.links = links
  BY <1>1, InvHas DEF BothEnds
<1>3. Inv' /\ wire[l].out # <<>> /\ Handled(w, v, l, Head(wire[l].out))
  BY <1>1, HandleOutDoes
<1>4. Meet(v)
  BY <1>2, <1>3, MeetHandled
<1>5. HeardHome'
  BY <1>2, HeardStays DEF HandleOut
<1> QED
  BY <1>1, <1>3, <1>4, <1>5 DEF BothEnds

LEMMA HandleBackMeets ==
  ASSUME BothEnds, NEW l \in DOMAIN links, HandleBack(l)
  PROVE  BothEnds'
<1>1. PICK w, message, u, v, c :
        /\ w = World /\ message = Head(wire[l].back) /\ u = TakenBack(w, l) /\ v = World'
        /\ c = CHOOSE d \in Addressees(l, message.id) : TRUE
  OBVIOUS
<1>2. Meet(w) /\ Well(w) /\ Inv /\ HeardHome /\ w.wire = wire /\ w.links = links
  BY <1>1, InvHas DEF BothEnds
<1>3. /\ Inv' /\ wire[l].back # <<>>
      /\ v = u \/ Delivered(u, v, c, message.answers, message.record)
  BY <1>1, <1>2, HandleBackIs
<1>4. /\ ButWire(w, u)
      /\ \A k \in DOMAIN w.links \ {l} : u.wire[k] = w.wire[k]
      /\ u.wire[l].out = w.wire[l].out
  BY <1>1, <1>2, <1>3, TakenBackDoes
<1>5. v.links = w.links /\ v.conns = w.conns /\ v.games = w.games /\ v.wire = u.wire
  BY <1>3, <1>4 DEF ButWire, Delivered
<1>6. Meet(v)
  <2>1. \A k \in DOMAIN w.links : v.wire[k].out = w.wire[k].out
    BY <1>4, <1>5
  <2>2. \A g \in DOMAIN v.games : v.games[g].server \in Homes
    BY <1>2, <1>5 DEF Meet, Housed
  <2> QED
    BY <1>2, <1>5, <2>1, <2>2, MeetStays
<1>7. HeardHome'
  BY <1>2, HeardStays DEF HandleBack
<1> QED
  BY <1>1, <1>3, <1>6, <1>7 DEF BothEnds

LEMMA BreakCuts ==
  ASSUME BothEnds, NEW l \in DOMAIN links, Break(l)
  PROVE  Inv' /\ Cut(World, World', l)
<1>1. PICK w, v : w = World /\ v = World'
  OBVIOUS
<1>2. Meet(w) /\ Linked(w) /\ w \in Worlds /\ Inv /\ w.wire = wire /\ w.links = links /\ w.conns = conns
      /\ w.games = games
  BY <1>1, InvHas DEF BothEnds
<1>3. /\ Inv' /\ links' = [links EXCEPT ![l].broken = TRUE]
      /\ wire' = [wire EXCEPT ![l] = [out |-> <<>>, back |-> <<>>]]
      /\ UNCHANGED <<conns, games, owed>>
  BY <1>2, BreakIs
<1>4. v.wire = wire' /\ v.links = links' /\ v.conns = conns /\ v.games = games /\ v.owed = w.owed
  BY <1>1, <1>3 DEF World
<1>5. links \in Seq(Link) /\ DOMAIN wire = DOMAIN links /\ links[l] \in Link
  BY <1>2, WorldHas, WiredHas DEF Linked
<1>6. /\ DOMAIN v.links = DOMAIN links
      /\ \A k \in DOMAIN links \ {l} : v.links[k] = links[k] /\ v.wire[k] = wire[k]
      /\ v.links[l] = [links[l] EXCEPT !.broken = TRUE] /\ v.wire[l].out = <<>>
  <2>1. PICK none : none = [out |-> <<>>, back |-> <<>>]
    OBVIOUS
  <2>2. wire' = [wire EXCEPT ![l] = none] /\ none.out = <<>>
    BY <1>3, <2>1
  <2> QED
    BY <1>3, <1>4, <1>5, <2>2
<1>7. v.links[l].from = links[l].from /\ v.links[l].to = links[l].to /\ v.links[l].broken
  BY <1>5, <1>6 DEF Link
<1>8. Cut(w, v, l)
  BY <1>2, <1>4, <1>6, <1>7 DEF Cut, SameServers
<1> QED
  BY <1>1, <1>3, <1>8

LEMMA BreakMeets ==
  ASSUME BothEnds, NEW l \in DOMAIN links, Break(l)
  PROVE  BothEnds'
<1>1. PICK w, v : w = World /\ v = World'
  OBVIOUS
<1>2. Meet(w) /\ Linked(w) /\ w.links = links /\ HeardHome
  BY <1>1, InvHas DEF BothEnds
<1>3. Inv' /\ Cut(w, v, l)
  BY <1>1, BreakCuts
<1>4. Meet(v)
  BY <1>2, <1>3, MeetCut
<1>5. HeardHome'
  BY <1>2, HeardStays DEF Break
<1> QED
  BY <1>1, <1>3, <1>4, <1>5 DEF BothEnds

LEMMA NoticeCuts ==
  ASSUME BothEnds, NEW l \in DOMAIN links, NEW s, Notice(l, s)
  PROVE  Inv' /\ Cut(World, World', l)
<1>1. PICK w, v : w = World /\ v = World'
  OBVIOUS
<1>2. Meet(w) /\ Linked(w) /\ w \in Worlds /\ Inv /\ w.wire = wire /\ w.links = links /\ w.conns = conns
      /\ w.games = games
  BY <1>1, InvHas DEF BothEnds
<1>3. /\ Inv' /\ links[l].broken
      /\ links' = [links EXCEPT ![l].ends[s] = "closed"]
      /\ UNCHANGED <<conns, games, wire, owed>>
  BY <1>2, NoticeIs
<1>4. v.wire = wire /\ v.links = links' /\ v.conns = conns /\ v.games = games /\ v.owed = w.owed
  BY <1>1, <1>3 DEF World
<1>5. links \in Seq(Link) /\ links[l] \in Link
  BY <1>2, WorldHas, WiredHas DEF Linked
<1>6. PICK e : e = [links[l].ends EXCEPT ![s] = "closed"]
  OBVIOUS
<1>7. /\ DOMAIN v.links = DOMAIN links
      /\ \A k \in DOMAIN links \ {l} : v.links[k] = links[k]
      /\ v.links[l] = [links[l] EXCEPT !.ends = e]
  BY <1>3, <1>4, <1>5, <1>6
<1>8. v.links[l].from = links[l].from /\ v.links[l].to = links[l].to /\ v.links[l].broken
  BY <1>3, <1>5, <1>7 DEF Link
<1>9. Cut(w, v, l)
  BY <1>2, <1>4, <1>7, <1>8 DEF Cut, SameServers
<1> QED
  BY <1>1, <1>3, <1>9

LEMMA NoticeMeets ==
  ASSUME BothEnds, NEW l \in DOMAIN links, NEW s, Notice(l, s)
  PROVE  BothEnds'
<1>1. PICK w, v : w = World /\ v = World'
  OBVIOUS
<1>2. Meet(w) /\ Linked(w) /\ w.links = links /\ HeardHome
  BY <1>1, InvHas DEF BothEnds
<1>3. Inv' /\ Cut(w, v, l)
  BY <1>1, NoticeCuts
<1>4. Meet(v)
  BY <1>2, <1>3, MeetCut
<1>5. HeardHome'
  BY <1>2, HeardStays DEF Notice
<1> QED
  BY <1>1, <1>3, <1>4, <1>5 DEF BothEnds

LEMMA OnLinkClosedCuts ==
  ASSUME BothEnds, NEW l \in DOMAIN links, NEW s, OnLinkClosed(l, s)
  PROVE  Inv' /\ Cut(World, World', l)
<1>1. PICK w, v : w = World /\ v = World'
  OBVIOUS
<1>2. Meet(w) /\ Well(w) /\ Linked(w) /\ Inv /\ w.wire = wire /\ w.links = links
  BY <1>1, InvHas DEF BothEnds
<1>3. Inv' /\ s \in DOMAIN links[l].ends /\ links[l].ends[s] = "closed" /\ Leaves(w, v, l, s)
  BY <1>1, <1>2, OnLinkClosedIs
<1>4. links[l].broken
  <2>1. links[l].ends[s] # "up"
    BY <1>3
  <2> QED
    BY <1>2, <1>3, <2>1 DEF Meet, Joint
<1>5. PICK came, went :
        /\ came = {m \in DOMAIN w.conns \ Clients : m[1] = l /\ w.links[l].to = s}
        /\ went = {c \in Clients \cap DOMAIN w.conns : At[c] = s /\ w.conns[c].remote = l}
  OBVIOUS
<1>6. PICK u, x : u = SetEnd(w, l, s, "gone") /\ Loses(u, x, came) /\ Freed(x, v, went)
  BY <1>3, <1>5 DEF Leaves
<1>7. /\ u.conns = w.conns /\ u.games = w.games /\ u.wire = w.wire /\ u.owed = w.owed /\ DOMAIN u.links = DOMAIN w.links
      /\ \A k \in DOMAIN w.links \ {l} : u.links[k] = w.links[k]
      /\ u.links[l].from = w.links[l].from /\ u.links[l].to = w.links[l].to
      /\ u.links[l].broken = w.links[l].broken
  <2>1. PICK e \in {"up", "closed", "gone"} : e = "gone"
    OBVIOUS
  <2>2. Ended(w, u, l, s, e)
    BY <1>2, <1>3, <1>6, <2>1, SetEndDoes DEF Well
  <2> QED
    BY <2>2 DEF Ended, ButLinks
<1>8. /\ x.links = u.links /\ DOMAIN x.conns = DOMAIN w.conns \ came /\ DOMAIN x.games \subseteq DOMAIN w.games
      /\ SameServers(w, x)
      /\ \A m \in DOMAIN x.conns : x.conns[m].remote = w.conns[m].remote
      /\ \A k \in DOMAIN w.links : /\ x.wire[k].out = w.wire[k].out
                                   /\ ToSet(w.wire[k].back) \subseteq ToSet(x.wire[k].back)
      /\ \A c \in Clients : x.owed[c] \subseteq w.owed[c]
  BY <1>6, <1>7 DEF Loses, SameServers
<1>9. /\ v.links = x.links /\ v.wire = x.wire /\ v.games = x.games /\ DOMAIN v.conns = DOMAIN x.conns
      /\ \A m \in DOMAIN x.conns : v.conns[m].remote = IF m \in went THEN 0 ELSE x.conns[m].remote
      /\ \A c \in Clients : v.owed[c] \subseteq x.owed[c]
  BY <1>6 DEF Freed
<1>10. Cut(w, v, l)
  <2>1. \A m \in DOMAIN w.conns \ DOMAIN v.conns : m \notin Clients /\ m[1] = l
    BY <1>5, <1>8, <1>9
  <2>2. \A m \in DOMAIN v.conns : \/ v.conns[m].remote = w.conns[m].remote
                                  \/ w.conns[m].remote = l /\ v.conns[m].remote = 0
    BY <1>5, <1>8, <1>9
  <2>3. SameServers(w, v)
    BY <1>8, <1>9 DEF SameServers
  <2>4. /\ DOMAIN v.links = DOMAIN w.links
        /\ \A k \in DOMAIN w.links \ {l} : v.links[k] = w.links[k] /\ v.wire[k].out = w.wire[k].out
        /\ v.links[l].from = w.links[l].from /\ v.links[l].to = w.links[l].to /\ v.links[l].broken = w.links[l].broken
    BY <1>7, <1>8, <1>9
  <2>5. \A k \in DOMAIN w.links \ {l} : ToSet(w.wire[k].back) \subseteq ToSet(v.wire[k].back)
    BY <1>8, <1>9
  <2>6. v.wire[l].out = w.wire[l].out
    <3>1. l \in DOMAIN w.links
      BY <1>2
    <3>2. x.wire[l].out = w.wire[l].out
      BY <1>8, <3>1
    <3> QED
      BY <1>9, <3>2
  <2>7. \A c \in Clients : v.owed[c] \subseteq w.owed[c]
    BY <1>8, <1>9
  <2>8. DOMAIN v.conns \subseteq DOMAIN w.conns /\ DOMAIN v.games \subseteq DOMAIN w.games
    BY <1>8, <1>9
  <2> QED
    BY <1>2, <1>4, <2>1, <2>2, <2>3, <2>4, <2>5, <2>6, <2>7, <2>8 DEF Cut
<1> QED
  BY <1>1, <1>3, <1>10

LEMMA OnLinkClosedMeets ==
  ASSUME BothEnds, NEW l \in DOMAIN links, NEW s, OnLinkClosed(l, s)
  PROVE  BothEnds'
<1>1. PICK w, v : w = World /\ v = World'
  OBVIOUS
<1>2. Meet(w) /\ Linked(w) /\ w.links = links /\ HeardHome
  BY <1>1, InvHas DEF BothEnds
<1>3. Inv' /\ Cut(w, v, l)
  BY <1>1, OnLinkClosedCuts
<1>4. Meet(v)
  BY <1>2, <1>3, MeetCut
<1>5. HeardHome'
  BY <1>2, HeardStays DEF OnLinkClosed
<1> QED
  BY <1>1, <1>3, <1>4, <1>5 DEF BothEnds

LEMMA BothEndsFirst ==
  ASSUME Init
  PROVE  BothEnds
<1>1. /\ conns = [c \in Clients |-> [user |-> c, game |-> 0, remote |-> 0]]
      /\ games = <<>> /\ links = <<>> /\ known = [s \in Servers |-> <<>>]
  BY DEF Init
<1>2. DOMAIN conns = Clients /\ DOMAIN games = {} /\ DOMAIN links = {} /\ \A c \in Clients : conns[c].remote = 0
  BY <1>1
<1>3. Meet(World)
  BY <1>2, WorldIs DEF Meet, Housed, Joint
<1>4. HeardHome
  BY <1>1 DEF HeardHome, Heard
<1> QED
  BY <1>3, <1>4, Initially DEF BothEnds

LEMMA BothEndsKept ==
  ASSUME OneHost, BothEnds, [Next]_vars
  PROVE  BothEnds'
<1>1. ASSUME NEW c \in Clients, Request(c) PROVE BothEnds'
  BY <1>1, RequestMeets
<1>2. ASSUME NEW c \in Clients, Gcre(c) PROVE BothEnds'
  BY <1>2, GcreMeets
<1>3. ASSUME NEW c \in Clients, Hangup(c) PROVE BothEnds'
  BY <1>3, HangupMeets
<1>4. ASSUME NEW g \in 1 .. MaxGames, NEW t \in Servers, Beacon(g, t) PROVE BothEnds'
  BY <1>4, BeaconMeets
<1>5. ASSUME NEW g \in 1 .. MaxGames, NEW t \in Servers, Expire(g, t) PROVE BothEnds'
  BY <1>5, ExpireMeets
<1>6. CASE SendHeld
  BY <1>6, SendHeldMeets
<1>7. ASSUME NEW l \in DOMAIN links, HandleOut(l) PROVE BothEnds'
  BY <1>7, HandleOutMeets
<1>8. ASSUME NEW l \in DOMAIN links, HandleBack(l) PROVE BothEnds'
  BY <1>8, HandleBackMeets
<1>9. ASSUME NEW l \in DOMAIN links, NEW s \in Servers, Notice(l, s) PROVE BothEnds'
  BY <1>9, NoticeMeets
<1>10. ASSUME NEW l \in DOMAIN links, NEW s \in Servers, OnLinkClosed(l, s) PROVE BothEnds'
  BY <1>10, OnLinkClosedMeets
<1>11. ASSUME NEW l \in DOMAIN links, Break(l) PROVE BothEnds'
  BY <1>11, BreakMeets
<1>12. CASE UNCHANGED vars
  <2>1. UNCHANGED <<conns, games, links, wire, held, told, owed, nextGame, known, events>>
    BY <1>12 DEF vars, world
  <2>2. World' = World
    BY <2>1 DEF World
  <2>3. Inv'
    BY <1>12, Inductive DEF BothEnds
  <2> QED
    BY <2>1, <2>2, <2>3, HeardStays DEF BothEnds
<1> QED
  BY <1>1, <1>2, <1>3, <1>4, <1>5, <1>6, <1>7, <1>8, <1>9, <1>10, <1>11, <1>12 DEF Next, ServeLinks

\* Where all games are on one server, the ends of a link on which nothing is on its
\* way have the same players: no client is without its place at the host, and none
\* there is a ghost, whatever joins, leaves, hangs up and breaks.
THEOREM EndsMeet ==
  ASSUME OneHost
  PROVE  Spec => []EndsAgree
<1>1. BothEnds => EndsAgree
  <2> SUFFICES ASSUME BothEnds, NEW l \in DOMAIN links, Quiet(l)
               PROVE  {m[2] : m \in {n \in DOMAIN conns \ Clients : n[1] = l}}
                        = {Id[c] : c \in {d \in Clients \cap DOMAIN conns : At[d] = links[l].from /\ conns[d].remote = l}}
    BY DEF EndsAgree
  <2>1. PICK w : w = World
    OBVIOUS
  <2>2. Meet(w) /\ Linked(w) /\ w \in Worlds /\ w.wire = wire /\ w.links = links /\ w.conns = conns
    BY <2>1, InvHas DEF BothEnds
  <2>3. wire[l].out = <<>> /\ ~ links[l].broken
    BY DEF Quiet
  <2>4. l \in 1 .. MaxLinks /\ l # 0
    BY <2>2, OnItsWay
  <2>5. \A i \in Ids : <<l, i>> \in DOMAIN conns <=> \E c \in Clients \cap DOMAIN conns : conns[c].remote = l /\ Id[c] = i
    <3>1. \A i \in Ids : i \in Arrived(w, l) <=> Through(w, l, i)
      BY <2>2, <2>3, PlaysAtOnce DEF Meet, Matched
    <3> QED
      BY <2>2, <3>1 DEF Arrived, Through
  <2>6. \A m \in DOMAIN conns \ Clients : m[2] \in Ids /\ m = <<m[1], m[2]>>
    BY <2>2, WorldHas, PeopleAre
  <2>7. \A c \in Clients \cap DOMAIN conns : conns[c].remote = l => At[c] = links[l].from
    BY <2>2, <2>4 DEF Meet, Joint
  <2>8. ASSUME NEW m \in DOMAIN conns \ Clients, m[1] = l
        PROVE  \E c \in Clients \cap DOMAIN conns : At[c] = links[l].from /\ conns[c].remote = l /\ Id[c] = m[2]
    BY <2>5, <2>6, <2>7, <2>8
  <2>9. ASSUME NEW c \in Clients \cap DOMAIN conns, conns[c].remote = l
        PROVE  \E m \in DOMAIN conns \ Clients : m[1] = l /\ m[2] = Id[c]
    <3>1. PICK m : m = <<l, Id[c]>>
      OBVIOUS
    <3>2. Id[c] \in Ids
      BY DEF Ids
    <3>3. m \in DOMAIN conns /\ m \notin Clients
      BY <2>4, <2>5, <2>9, <3>1, <3>2, NamesAssumption
    <3> QED
      BY <3>1, <3>3
  <2> QED
    BY <2>8, <2>9
<1> QED
  BY <1>1, BothEndsFirst, BothEndsKept, PTL DEF Spec

-----------------------------------------------------------------------------
(* What is on its way to players *)

\* The player of that id will have an answer of that kind: its request is on its way,
\* and nothing after it makes of it another player or none, or the answer is.
Awaits(out, back, id, a) ==
  \/ \E k \in 1 .. Len(out) : /\ out[k].id = id /\ out[k].kind # "xlea" /\ Answers(out[k].req) = a
                              /\ \A j \in 1 .. Len(out) : j > k => ~ Settles(out[j], id)
  \/ \E x \in ToSet(back) : x.id = id /\ x.answers = a

LEMMA AwaitsAppend ==
  ASSUME NEW out \in Seq(Message), NEW x \in Message, NEW back, NEW id, NEW a, ~ Settles(x, id) \/ x.kind = "xjoi",
         (~ Settles(x, id) /\ Awaits(out, back, id, a)) \/ (x.id = id /\ x.kind # "xlea" /\ Answers(x.req) = a)
  PROVE  Awaits(Append(out, x), back, id, a)
<1> DEFINE n == Len(out)
           all == Append(out, x)
<1>1. n \in Nat /\ Len(all) = n + 1 /\ all[n + 1] = x /\ \A k \in 1 .. n : all[k] = out[k]
  <2> HIDE DEF Message
  <2> QED
    OBVIOUS
<1> HIDE DEF n, all
<1>2. CASE x.id = id /\ x.kind # "xlea" /\ Answers(x.req) = a
  <2>1. n + 1 \in 1 .. Len(all) /\ \A j \in 1 .. Len(all) : ~ j > n + 1
    BY <1>1
  <2> QED
    BY <1>1, <1>2, <2>1 DEF Awaits, all
<1>3. CASE ~ Settles(x, id) /\ Awaits(out, back, id, a)
  <2>1. CASE \E y \in ToSet(back) : y.id = id /\ y.answers = a
    BY <2>1 DEF Awaits
  <2>2. CASE ~ \E y \in ToSet(back) : y.id = id /\ y.answers = a
    <3>1. PICK k \in 1 .. n : /\ out[k].id = id /\ out[k].kind # "xlea" /\ Answers(out[k].req) = a
                              /\ \A j \in 1 .. n : j > k => ~ Settles(out[j], id)
      BY <1>3, <2>2 DEF Awaits, n
    <3>2. k \in 1 .. Len(all) /\ all[k] = out[k]
      BY <1>1
    <3>3. ASSUME NEW j \in 1 .. Len(all), j > k PROVE ~ Settles(all[j], id)
      <4>1. j = n + 1 \/ j \in 1 .. n
        BY <1>1
      <4> QED
        BY <1>1, <1>3, <3>1, <3>3, <4>1
    <3> QED
      BY <3>1, <3>2, <3>3 DEF Awaits, all
  <2> QED
    BY <2>1, <2>2
<1> QED
  BY <1>2, <1>3

\* What the host handles first either is what asked for the answer, or leaves it on
\* its way.
LEMMA AwaitsTail ==
  ASSUME NEW out \in Seq(Message), out # <<>>, NEW back, NEW id, NEW a, Awaits(out, back, id, a)
  PROVE  \/ Awaits(Tail(out), back, id, a)
         \/ /\ Head(out).id = id /\ Head(out).kind # "xlea" /\ Answers(Head(out).req) = a
            /\ \A P : Plays(out, id, P) => Head(out).kind = "xjoi" \/ (id \in P /\ ~ Settles(Head(out), id))
<1> DEFINE n == Len(out)
           rest == Tail(out)
<1>1. /\ n \in Nat \ {0} /\ Len(rest) = n - 1 /\ Head(out) = out[1]
      /\ \A k \in 1 .. n - 1 : rest[k] = out[k + 1]
  <2> HIDE DEF Message
  <2> QED
    OBVIOUS
<1> HIDE DEF n, rest
<1>2. CASE \E y \in ToSet(back) : y.id = id /\ y.answers = a
  BY <1>2 DEF Awaits
<1>3. CASE ~ \E y \in ToSet(back) : y.id = id /\ y.answers = a
  <2>1. PICK k \in 1 .. n : /\ out[k].id = id /\ out[k].kind # "xlea" /\ Answers(out[k].req) = a
                            /\ \A j \in 1 .. n : j > k => ~ Settles(out[j], id)
    BY <1>3 DEF Awaits, n
  <2>2. CASE k = 1
    <3>1. \A P : Plays(out, id, P) => out[1].kind = "xjoi" \/ (id \in P /\ ~ Settles(out[1], id))
      <4> SUFFICES ASSUME NEW P, Plays(out, id, P)
                   PROVE  out[1].kind = "xjoi" \/ (id \in P /\ ~ Settles(out[1], id))
        OBVIOUS
      <4>1. ASSUME NEW i \in 1 .. n, out[i].id = id, out[i].kind = "xjoi" PROVE i = 1
        <5>1. Settles(out[i], id)
          BY <4>1 DEF Settles
        <5>2. ~ i > 1
          BY <2>1, <2>2, <5>1
        <5> QED
          BY <1>1, <5>2
      <4>2. 1 \in 1 .. n
        BY <1>1
      <4> QED
        BY <4>1, <4>2 DEF Plays, n
    <3> QED
      BY <1>1, <2>1, <2>2, <3>1
  <2>3. CASE k # 1
    <3>1. k - 1 \in 1 .. Len(rest) /\ rest[k - 1] = out[k]
      BY <1>1, <2>3
    <3>2. ASSUME NEW j \in 1 .. Len(rest), j > k - 1 PROVE ~ Settles(rest[j], id)
      <4>1. j + 1 \in 1 .. n /\ j + 1 > k /\ rest[j] = out[j + 1]
        BY <1>1, <3>2
      <4> QED
        BY <2>1, <4>1
    <3>3. Awaits(rest, back, id, a)
      BY <2>1, <3>1, <3>2 DEF Awaits
    <3> QED
      BY <3>3 DEF rest
  <2> QED
    BY <2>2, <2>3
<1> QED
  BY <1>2, <1>3

LEMMA AwaitsMore ==
  ASSUME NEW out, NEW back, NEW more, NEW id, NEW a, ToSet(back) \subseteq ToSet(more), Awaits(out, back, id, a)
  PROVE  Awaits(out, more, id, a)
  BY DEF Awaits

\* Who plays through link l has on its way all that it is owed.
Served(w, l) ==
  \A c \in Clients \cap DOMAIN w.conns : w.conns[c].remote = l =>
    \A a \in w.owed[c] : Awaits(w.wire[l].out, w.wire[l].back, Id[c], a)

AllServed(w) == \A l \in DOMAIN w.links : ~ w.links[l].broken => Served(w, l)

\* Nobody is owed more, and nothing is put on a link to its host.
LEMMA ServedSaid ==
  ASSUME NEW w, NEW v, AllServed(w), Linked(w), v.links = w.links, MoreSaid(w, v),
         Clients \cap DOMAIN v.conns \subseteq DOMAIN w.conns,
         \A l \in DOMAIN w.links : v.wire[l].out = w.wire[l].out,
         \A c \in Clients \cap DOMAIN v.conns : v.conns[c].remote \in {0, w.conns[c].remote}
  PROVE  AllServed(v)
<1>1. \A l \in DOMAIN w.links : l # 0
  BY OnItsWay
<1>2. ASSUME NEW l \in DOMAIN v.links, ~ v.links[l].broken, NEW c \in Clients \cap DOMAIN v.conns, v.conns[c].remote = l,
             NEW a \in v.owed[c]
      PROVE  Awaits(v.wire[l].out, v.wire[l].back, Id[c], a)
  <2>1. l \in DOMAIN w.links /\ ~ w.links[l].broken /\ c \in DOMAIN w.conns /\ w.conns[c].remote = l /\ a \in w.owed[c]
    BY <1>1, <1>2 DEF MoreSaid
  <2>2. Awaits(w.wire[l].out, w.wire[l].back, Id[c], a)
    BY <2>1 DEF AllServed, Served
  <2> QED
    BY <2>1, <2>2, AwaitsMore DEF MoreSaid
<1> QED
  BY <1>2 DEF AllServed, Served

LEMMA ServedAtHome ==
  ASSUME NEW w, NEW v, AllServed(w), Linked(w), Stays(w, v)
  PROVE  AllServed(v)
  BY ServedSaid DEF Stays, MoreSaid

LEMMA ServedLoses ==
  ASSUME NEW w, NEW v, NEW S, AllServed(w), Linked(w), Loses(w, v, S)
  PROVE  AllServed(v)
  BY ServedSaid DEF Loses, MoreSaid

\* A client's server puts a message on its link: it asks for what it is owed more, or
\* leaves.
LEMMA ServedPuts ==
  ASSUME NEW w, NEW v, AllServed(w), Meet(w), Linked(w), NEW c \in Clients \cap DOMAIN w.conns, w.conns[c].remote # 0,
         NEW n \in {0, w.conns[c].remote}, NEW x \in Message, x.id = Id[c], x.kind # "xjoi",
         n # 0 => /\ x.kind # "xlea" /\ ~ Settles(x, Id[c])
                  /\ v.owed[c] \subseteq w.owed[c] \cup {Answers(x.req)},
         Puts(w, v, w.conns[c].remote, x), OwnEnd(w, v, c), DOMAIN v.conns = DOMAIN w.conns,
         v.conns[c].remote = n,
         \A m \in DOMAIN w.conns \ {c} : v.conns[m].remote = w.conns[m].remote
  PROVE  AllServed(v)
<1> DEFINE l == w.conns[c].remote
<1>1. l \in DOMAIN w.links /\ v.links = w.links /\ \A k \in DOMAIN w.links : k # 0 /\ w.wire[k].out \in Seq(Message)
  BY OnItsWay DEF Linked, OwnEnd
<1>2. /\ \A k \in DOMAIN w.links \ {l} : v.wire[k].out = w.wire[k].out
      /\ ~ w.links[l].broken => v.wire[l].out = Append(w.wire[l].out, x)
      /\ \A k \in DOMAIN w.links : v.wire[k].back = w.wire[k].back
  BY <1>1 DEF Puts, OwnEnd
<1>3. ASSUME NEW k \in DOMAIN v.links, ~ v.links[k].broken, NEW d \in Clients \cap DOMAIN v.conns, v.conns[d].remote = k,
             NEW a \in v.owed[d]
      PROVE  Awaits(v.wire[k].out, v.wire[k].back, Id[d], a)
  <2>1. k \in DOMAIN w.links /\ ~ w.links[k].broken /\ d \in DOMAIN w.conns /\ w.conns[d].remote = k
    BY <1>1, <1>3
  <2>2. CASE d # c
    <3>1. a \in w.owed[d]
      BY <1>3, <2>2 DEF OwnEnd
    <3>2. Awaits(w.wire[k].out, w.wire[k].back, Id[d], a)
      BY <2>1, <3>1 DEF AllServed, Served
    <3>3. CASE k # l
      BY <1>2, <2>1, <3>2, <3>3
    <3>4. CASE k = l
      <4>1. Id[d] # Id[c]
        BY <1>1, <2>1, <2>2, <3>4, OneThrough
      <4>2. ~ Settles(x, Id[d])
        BY <4>1 DEF Settles
      <4>3. Awaits(Append(w.wire[l].out, x), w.wire[l].back, Id[d], a)
        BY <1>1, <3>2, <3>4, <4>2, AwaitsAppend
      <4> QED
        BY <1>1, <1>2, <2>1, <3>4, <4>3
    <3> QED
      BY <3>3, <3>4
  <2>3. CASE d = c
    <3>1. k = l /\ n # 0
      BY <1>1, <1>3, <2>3
    <3>2. x.kind # "xlea" /\ ~ Settles(x, Id[c]) /\ a \in w.owed[c] \cup {Answers(x.req)}
      BY <1>3, <2>3, <3>1
    <3>3. a \in w.owed[c] => Awaits(w.wire[l].out, w.wire[l].back, Id[c], a)
      BY <2>1, <2>3, <3>1 DEF AllServed, Served
    <3>4. Awaits(Append(w.wire[l].out, x), w.wire[l].back, Id[c], a)
      BY <1>1, <3>2, <3>3, AwaitsAppend
    <3> QED
      BY <1>1, <1>2, <2>1, <2>3, <3>1, <3>4
  <2> QED
    BY <2>2, <2>3
<1> QED
  BY <1>3 DEF AllServed, Served

\* A client joins through a link.
LEMMA ServedJoined ==
  ASSUME NEW w, NEW v, AllServed(w), Meet(w), Linked(w), NEW c \in Clients \cap DOMAIN w.conns, w.conns[c].remote = 0,
         NEW t, NEW l, NEW req \in Requests, Answers(req) = "join", Joined(w, v, c, t, l, req)
  PROVE  AllServed(v)
<1> DEFINE x == Xjoi(w, c, req)
           s == ServerOf(w, c)
<1>1. /\ DOMAIN v.conns = DOMAIN w.conns
      /\ \A m \in DOMAIN w.conns \ {c} : v.conns[m].remote = w.conns[m].remote
      /\ v.conns[c].remote = l
      /\ DOMAIN w.links \subseteq DOMAIN v.links
      /\ \A k \in DOMAIN w.links : /\ v.links[k] = w.links[k]
                                   /\ ToSet(w.wire[k].back) \subseteq ToSet(v.wire[k].back)
      /\ l \in DOMAIN v.links /\ v.links[l].from = s
      /\ \A k \in DOMAIN v.links :
           v.wire[k].out = IF k = l /\ ~ v.links[k].broken THEN Append(OutOf(w, k), x) ELSE OutOf(w, k)
      /\ \A d \in Clients : v.owed[d] \subseteq IF d = c THEN {"join"} ELSE w.owed[d]
      /\ Wired(v)
  BY DEF Joined
<1>2. s = At[c] /\ x \in Message /\ x.kind = "xjoi" /\ x.id = Id[c] /\ Answers(x.req) = "join"
  <2>1. w \in Worlds /\ c \in DOMAIN w.conns
    BY DEF Linked, Wired
  <2>2. x \in Message
    BY <2>1, MessagesAre
  <2> QED
    BY <2>2 DEF Xjoi, IdOf, ServerOf
<1> HIDE DEF x, s
<1>3. \A k \in DOMAIN v.links : k # 0
  BY <1>1, WiredHas
<1>4. \A k \in DOMAIN v.links : OutOf(w, k) \in Seq(Message)
  BY OnItsWay DEF OutOf
<1>5. ASSUME NEW k \in DOMAIN v.links, ~ v.links[k].broken, NEW d \in Clients \cap DOMAIN v.conns, v.conns[d].remote = k,
             NEW a \in v.owed[d]
      PROVE  Awaits(v.wire[k].out, v.wire[k].back, Id[d], a)
  <2>1. CASE d = c
    <3>1. k = l /\ a = "join" /\ v.wire[k].out = Append(OutOf(w, k), x)
      BY <1>1, <1>5, <2>1
    <3>2. Awaits(Append(OutOf(w, k), x), v.wire[k].back, Id[d], a)
      BY <1>2, <1>4, <2>1, <3>1, AwaitsAppend
    <3> QED
      BY <3>1, <3>2
  <2>2. CASE d # c
    <3>1. w.conns[d].remote = k /\ a \in w.owed[d] /\ d \in DOMAIN w.conns
      BY <1>1, <1>5, <2>2
    <3>2. k \in DOMAIN w.links
      BY <1>3, <3>1 DEF Linked
    <3>3. ~ w.links[k].broken /\ OutOf(w, k) = w.wire[k].out
      BY <1>1, <1>5, <3>2 DEF OutOf
    <3>4. Awaits(w.wire[k].out, w.wire[k].back, Id[d], a)
      BY <3>1, <3>2, <3>3 DEF AllServed, Served
    <3>5. Awaits(OutOf(w, k), v.wire[k].back, Id[d], a)
      <4>1. ToSet(w.wire[k].back) \subseteq ToSet(v.wire[k].back)
        BY <1>1, <3>2
      <4>2. Awaits(OutOf(w, k), w.wire[k].back, Id[d], a)
        BY <3>3, <3>4
      <4> QED
        BY <4>1, <4>2, AwaitsMore
    <3>6. CASE k # l
      BY <1>1, <3>5, <3>6
    <3>7. CASE k = l
      <4>1. At[d] = At[c]
        BY <1>1, <1>2, <1>3, <3>1, <3>2, <3>7 DEF Meet, Joint
      <4>2. ~ Settles(x, Id[d])
        BY <1>2, <2>2, <4>1, IdsAssumption DEF Settles
      <4>3. Awaits(Append(OutOf(w, k), x), v.wire[k].back, Id[d], a)
        BY <1>2, <1>4, <3>5, <4>2, AwaitsAppend
      <4> QED
        BY <1>1, <1>5, <3>7, <4>3
    <3> QED
      BY <3>6, <3>7
  <2> QED
    BY <2>1, <2>2
<1> QED
  BY <1>5 DEF AllServed, Served

LEMMA ServedDrops ==
  ASSUME NEW w, AllServed(w), Meet(w), Linked(w), NEW c \in Clients \cap DOMAIN w.conns, w.conns[c].remote # 0,
         NEW v, OwnEnd(w, v, c), Placed(w, v, c, w.conns[c].game, 0), Puts(w, v, w.conns[c].remote, Xlea(w, c))
  PROVE  AllServed(v)
<1>1. PICK x : x = Xlea(w, c)
  OBVIOUS
<1>2. x \in Message
  BY <1>1, MessagesAre DEF Linked, Wired
<1>3. x.id = Id[c] /\ x.kind = "xlea"
  BY <1>1 DEF Xlea, IdOf
<1>4. PICK n \in {0, w.conns[c].remote} : n = 0
  OBVIOUS
<1>5. /\ DOMAIN v.conns = DOMAIN w.conns /\ v.conns[c].remote = n
      /\ \A m \in DOMAIN w.conns \ {c} : v.conns[m].remote = w.conns[m].remote
  BY <1>4 DEF Placed
<1> QED
  BY <1>1, <1>2, <1>3, <1>4, <1>5, ServedPuts

\* A client's request is handled.
LEMMA ServedRan ==
  ASSUME NEW w, NEW v, AllServed(w), Meet(w), Linked(w), NEW c \in Clients \cap DOMAIN w.conns,
         NEW req \in Requests, Ran(w, v, c, req)
  PROVE  AllServed(v)
<1> DEFINE l == w.conns[c].remote
<1>1. CASE Forwarded(w, v, c, req)
  <2>1. PICK x, n : x = Xfwd(w, c, req) /\ n = IF Answers(req) = "leave" THEN 0 ELSE l
    OBVIOUS
  <2>2. /\ l # 0 /\ OwnEnd(w, v, c) /\ Placed(w, v, c, w.conns[c].game, n) /\ Puts(w, v, l, x)
        /\ v.owed[c] = w.owed[c] \cup {Answers(req)}
    BY <1>1, <2>1 DEF Forwarded
  <2>3. x \in Message
    BY <2>1, MessagesAre DEF Linked, Wired
  <2>4. x.id = Id[c] /\ x.kind = "xfwd" /\ x.req = req
    BY <2>1 DEF Xfwd, IdOf
  <2>5. n # 0 => x.kind # "xlea" /\ ~ Settles(x, Id[c]) /\ v.owed[c] \subseteq w.owed[c] \cup {Answers(x.req)}
    BY <2>1, <2>2, <2>4 DEF Settles
  <2>6. n \in {0, l} /\ x.kind # "xjoi"
    BY <2>1, <2>4
  <2>7. /\ DOMAIN v.conns = DOMAIN w.conns /\ v.conns[c].remote = n
        /\ \A m \in DOMAIN w.conns \ {c} : v.conns[m].remote = w.conns[m].remote
    BY <2>2 DEF Placed
  <2> QED
    BY <2>2, <2>3, <2>4, <2>5, <2>6, <2>7, ServedPuts
<1>2. CASE \E u : /\ Here(w, u, c, req)
                  /\ Serves(u, v, c, Answers(req)) \/ (Answers(req) = "join" /\ JoinsOut(u, v, c, req))
  <2>1. PICK u : /\ Here(w, u, c, req)
                 /\ Serves(u, v, c, Answers(req)) \/ (Answers(req) = "join" /\ JoinsOut(u, v, c, req))
    BY <1>2
  <2>2. Linked(u) /\ c \in DOMAIN u.conns /\ u.conns[c].remote = 0
    BY <2>1 DEF Here
  <2>3. u = w \/ (l # 0 /\ OwnEnd(w, u, c) /\ Placed(w, u, c, w.conns[c].game, 0) /\ Puts(w, u, l, Xlea(w, c)))
    BY <2>1 DEF Here
  <2>4. AllServed(u)
    BY <2>3, ServedDrops
  <2>5. CASE Serves(u, v, c, Answers(req))
    BY <2>2, <2>4, <2>5, ServedAtHome DEF Serves, AtHome
  <2>6. CASE Answers(req) = "join" /\ JoinsOut(u, v, c, req)
    <3>1. PICK t \in Heard(ServerOf(u, c)) : \E k : Joined(u, v, c, t, k, req)
      BY <2>6 DEF JoinsOut
    <3>2. PICK k : Joined(u, v, c, t, k, req)
      BY <3>1
    <3>3. Meet(u)
      BY <2>3, MeetLeaves
    <3> QED
      BY <2>2, <2>4, <2>6, <3>2, <3>3, ServedJoined
  <2> QED
    BY <2>1, <2>5, <2>6
<1> QED
  BY <1>1, <1>2 DEF Ran

\* A client leaves the link it plays through, if it does, and its game.
LEMMA ServedQuit ==
  ASSUME NEW w, AllServed(w), Meet(w), Well(w), NEW c \in Clients \cap DOMAIN w.conns
  PROVE  AllServed(LeaveGame(DropRemote(w, c), c))
<1>1. PICK u, v, l : u = DropRemote(w, c) /\ v = LeaveGame(u, c) /\ l = w.conns[c].remote
  OBVIOUS
<1>2. /\ Linked(u) /\ OwnEnd(w, u, c) /\ Placed(w, u, c, w.conns[c].game, 0) /\ Puts(w, u, l, Xlea(w, c))
      /\ u.owed[c] = {} /\ Linked(w)
  BY <1>1, DropRemoteDoes DEF Well
<1>3. AllServed(u)
  <2>1. CASE l = 0
    <3>1. \A k \in DOMAIN w.links : u.wire[k].out = w.wire[k].out
      BY <1>2, <2>1, OnItsWay DEF Puts
    <3>2. MoreSaid(w, u) /\ u.links = w.links
      BY <1>2 DEF MoreSaid, OwnEnd
    <3>3. /\ Clients \cap DOMAIN u.conns \subseteq DOMAIN w.conns
          /\ \A d \in Clients \cap DOMAIN u.conns : u.conns[d].remote \in {0, w.conns[d].remote}
      BY <1>2 DEF Placed
    <3> QED
      BY <1>2, <3>1, <3>2, <3>3, ServedSaid
  <2>2. CASE l # 0
    BY <1>1, <1>2, <2>2, ServedDrops
  <2> QED
    BY <2>1, <2>2
<1>4. AtHome(u, v)
  BY <1>1, QuitWell
<1> QED
  BY <1>1, <1>2, <1>3, <1>4, ServedAtHome DEF AtHome

\* The host handles a message: what asks for an answer is answered.
LEMMA ServedHandled ==
  ASSUME NEW w, NEW v, AllServed(w), Meet(w), Linked(w), NEW l \in DOMAIN w.links, w.wire[l].out # <<>>,
         Handled(w, v, l, Head(w.wire[l].out))
  PROVE  AllServed(v)
<1>1. PICK message, m : message = Head(w.wire[l].out) /\ m = <<l, message.id>>
  OBVIOUS
<1>2. /\ v.links = w.links
      /\ \A k \in DOMAIN w.links \ {l} : v.wire[k].out = w.wire[k].out
      /\ v.wire[l].out = Tail(w.wire[l].out)
      /\ DOMAIN v.conns \ {m} = DOMAIN w.conns \ {m}
      /\ \A x \in DOMAIN v.conns \ {m} : v.conns[x].remote = w.conns[x].remote
      /\ \A k \in DOMAIN w.links : ToSet(w.wire[k].back) \subseteq ToSet(v.wire[k].back)
      /\ \A c \in Clients : v.owed[c] \subseteq w.owed[c]
      /\ Serving(w, l, message) => Replied(v, m, Answers(message.req))
  BY <1>1 DEF Handled, MoreSaid
<1>3. w.wire[l].out \in Seq(Message) /\ l \in 1 .. MaxLinks /\ TakenToJoin(w.wire[l].out)
  BY OnItsWay DEF Meet, Joint
<1>4. message.id \in Ids /\ m \notin Clients /\ message.kind \in {"xjoi", "xfwd", "xlea"}
  <2>1. message \in Message
    BY <1>1, <1>3
  <2>2. message.id \in Ids /\ message.kind \in {"xjoi", "xfwd", "xlea"}
    BY <2>1 DEF Message
  <2> QED
    BY <1>1, <1>3, <2>2, NamesAssumption
<1>5. message.kind = "xjoi" => Answers(message.req) = "join"
  BY <1>1, <1>3, TakenToJoinToo
<1>6. ASSUME NEW k \in DOMAIN v.links, ~ v.links[k].broken, NEW c \in Clients \cap DOMAIN v.conns, v.conns[c].remote = k,
             NEW a \in v.owed[c]
      PROVE  Awaits(v.wire[k].out, v.wire[k].back, Id[c], a)
  <2>1. /\ k \in DOMAIN w.links /\ ~ w.links[k].broken /\ c \in Clients \cap DOMAIN w.conns /\ w.conns[c].remote = k
        /\ a \in w.owed[c]
    BY <1>2, <1>4, <1>6
  <2>2. Awaits(w.wire[k].out, w.wire[k].back, Id[c], a)
    BY <2>1 DEF AllServed, Served
  <2>3. CASE k # l
    <3>1. v.wire[k].out = w.wire[k].out
      BY <1>2, <2>1, <2>3
    <3> QED
      BY <1>2, <2>1, <2>2, <3>1, AwaitsMore
  <2>4. CASE k = l
    <3>1. PICK out, id : out = w.wire[l].out /\ id = Id[c]
      OBVIOUS
    <3>2. out \in Seq(Message) /\ out # <<>> /\ Head(out) = message /\ v.wire[l].out = Tail(out)
      BY <1>1, <1>2, <1>3, <3>1
    <3>3. Awaits(out, w.wire[l].back, id, a)
      BY <2>2, <2>4, <3>1
    <3>4. CASE Awaits(Tail(out), w.wire[l].back, id, a)
      <4>1. PICK rest, back, more : rest = Tail(out) /\ back = w.wire[l].back /\ more = v.wire[l].back
        OBVIOUS
      <4>2. Awaits(rest, back, id, a) /\ ToSet(back) \subseteq ToSet(more)
        BY <1>2, <3>4, <4>1
      <4>3. Awaits(rest, more, id, a)
        BY <4>2, AwaitsMore
      <4> QED
        BY <2>4, <3>1, <3>2, <4>1, <4>3
    <3>5. CASE ~ Awaits(Tail(out), w.wire[l].back, id, a)
      <4>1. /\ message.id = id /\ message.kind # "xlea" /\ Answers(message.req) = a
            /\ \A P : Plays(out, id, P) => message.kind = "xjoi" \/ (id \in P /\ ~ Settles(message, id))
        BY <3>2, <3>3, <3>5, AwaitsTail
      <4>2. Plays(out, id, Arrived(w, l))
        <5>1. Through(w, l, id) /\ id \in Ids
          BY <2>1, <2>4, <3>1 DEF Through, Ids
        <5>2. Matched(w, l)
          BY <2>1, <2>4 DEF Meet
        <5> QED
          BY <3>1, <5>1, <5>2 DEF Matched
      <4>3. Serving(w, l, message)
        <5>1. CASE message.kind = "xjoi"
          BY <1>5, <5>1 DEF Serving
        <5>2. CASE message.kind # "xjoi"
          <6>1. id \in Arrived(w, l) /\ ~ Settles(message, id) /\ message.kind = "xfwd"
            BY <1>4, <4>1, <4>2, <5>2
          <6>2. Answers(message.req) # "leave"
            BY <4>1, <6>1 DEF Settles
          <6> QED
            BY <4>1, <6>1, <6>2 DEF Serving, Arrived
        <5> QED
          BY <5>1, <5>2
      <4>4. Replied(v, m, a)
        BY <1>2, <4>1, <4>3
      <4>5. m[1] = l /\ m[2] = id
        BY <1>1, <4>1
      <4>6. \E x \in ToSet(v.wire[l].back) : x.id = id /\ x.answers = a
        BY <1>4, <1>6, <2>4, <4>4, <4>5 DEF Replied
      <4> QED
        BY <2>4, <3>1, <4>6 DEF Awaits
    <3> QED
      BY <3>4, <3>5
  <2> QED
    BY <2>3, <2>4
<1> QED
  BY <1>6 DEF AllServed, Served

\* Link l is broken, or was: what those who played through it were owed is forgotten,
\* or was sent to nobody.
LEMMA ServedCut ==
  ASSUME NEW w, NEW v, AllServed(w), Linked(w), NEW l \in DOMAIN w.links, Cut(w, v, l)
  PROVE  AllServed(v)
<1>1. ASSUME NEW k \in DOMAIN v.links, ~ v.links[k].broken, NEW c \in Clients \cap DOMAIN v.conns, v.conns[c].remote = k,
             NEW a \in v.owed[c]
      PROVE  Awaits(v.wire[k].out, v.wire[k].back, Id[c], a)
  <2>1. k \in DOMAIN w.links \ {l} /\ v.links[k] = w.links[k] /\ v.wire[k].out = w.wire[k].out /\ k # 0
    BY <1>1, OnItsWay DEF Cut
  <2>2. c \in Clients \cap DOMAIN w.conns /\ w.conns[c].remote = k /\ a \in w.owed[c]
    BY <1>1, <2>1 DEF Cut
  <2>3. Awaits(w.wire[k].out, w.wire[k].back, Id[c], a)
    BY <1>1, <2>1, <2>2 DEF AllServed, Served
  <2>4. ToSet(w.wire[k].back) \subseteq ToSet(v.wire[k].back)
    BY <2>1 DEF Cut
  <2> QED
    BY <2>1, <2>3, <2>4, AwaitsMore
<1> QED
  BY <1>1 DEF AllServed, Served

-----------------------------------------------------------------------------
(* Every action keeps it *)

\* Both ends have of each other what they should, and all players have on its way
\* what they are owed.
Answering == BothEnds /\ AllServed(World)

LEMMA RequestServes ==
  ASSUME Answering, NEW c \in Clients, Request(c)
  PROVE  AllServed(World)'
<1>1. PICK w, v : w = World /\ v = World'
  OBVIOUS
<1>2. AllServed(w) /\ Meet(w) /\ Linked(w) /\ Inv
  BY <1>1, InvHas DEF Answering, BothEnds
<1>3. c \in Clients \cap DOMAIN w.conns
  BY <1>1, <1>2, RequestIs, InvHas
<1>4. PICK req \in Requests : Ran(w, v, c, req)
  BY <1>1, <1>2, RequestIs
<1>5. AllServed(v)
  BY <1>2, <1>3, <1>4, ServedRan
<1> QED
  BY <1>1, <1>5

LEMMA GcreServes ==
  ASSUME Answering, NEW c \in Clients, Gcre(c)
  PROVE  AllServed(World)'
<1>1. PICK w, left, made, v, n :
        w = World /\ left = LeaveGame(DropRemote(w, c), c) /\ made = Made(left, c, nextGame) /\ v = World' /\ n = nextGame
  OBVIOUS
<1>2. AllServed(w) /\ Meet(w) /\ Well(w) /\ Inv
  BY <1>1, InvHas DEF Answering, BothEnds
<1>3. c \in Clients \cap DOMAIN w.conns
  BY <1>1, <1>2, GcreIs, InvHas
<1>4. Opens(left, made, c, n) /\ AtHome(made, v) /\ Well(left) /\ Well(made)
  BY <1>1, <1>2, GcreIs
<1>5. AllServed(left)
  BY <1>1, <1>2, <1>3, ServedQuit
<1>6. AllServed(made)
  <2>1. /\ made.links = left.links /\ made.wire = left.wire /\ made.owed = left.owed
        /\ DOMAIN made.conns = DOMAIN left.conns
        /\ \A d \in DOMAIN left.conns : made.conns[d].remote \in {0, left.conns[d].remote}
    BY <1>4 DEF Opens, Placed
  <2> QED
    BY <1>4, <1>5, <2>1, ServedSaid DEF MoreSaid, Well
<1>7. AllServed(v)
  BY <1>4, <1>6, ServedAtHome DEF AtHome, Well
<1> QED
  BY <1>1, <1>7

LEMMA HangupServes ==
  ASSUME Answering, NEW c \in Clients, Hangup(c)
  PROVE  AllServed(World)'
<1>1. PICK w, left, v : w = World /\ left = LeaveGame(DropRemote(w, c), c) /\ v = World'
  OBVIOUS
<1>2. AllServed(w) /\ Meet(w) /\ Well(w) /\ Inv
  BY <1>1, InvHas DEF Answering, BothEnds
<1>3. c \in Clients \cap DOMAIN w.conns
  BY <1>1, <1>2, HangupIs, InvHas
<1>4. Well(left) /\ Loses(left, v, {c})
  BY <1>1, <1>2, HangupIs
<1>5. AllServed(left)
  BY <1>1, <1>2, <1>3, ServedQuit
<1>6. AllServed(v)
  BY <1>4, <1>5, ServedLoses DEF Well
<1> QED
  BY <1>1, <1>6

LEMMA SendHeldServes ==
  ASSUME Answering, SendHeld
  PROVE  AllServed(World)'
<1>1. PICK w, v : w = World /\ v = World'
  OBVIOUS
<1>2. AllServed(w) /\ Linked(w) /\ AtHome(w, v)
  BY <1>1, SendHeldIs, InvHas DEF Answering, BothEnds
<1>3. AllServed(v)
  BY <1>2, ServedAtHome DEF AtHome
<1> QED
  BY <1>1, <1>3

LEMMA HandleOutServes ==
  ASSUME OneHost, Answering, NEW l \in DOMAIN links, HandleOut(l)
  PROVE  AllServed(World)'
<1>1. PICK w, v : w = World /\ v = World'
  OBVIOUS
<1>2. AllServed(w) /\ Meet(w) /\ Linked(w) /\ w.wire = wire /\ w.links = links
  BY <1>1, InvHas DEF Answering, BothEnds
<1>3. wire[l].out # <<>> /\ Handled(w, v, l, Head(wire[l].out))
  BY <1>1, HandleOutDoes DEF Answering
<1>4. AllServed(v)
  BY <1>2, <1>3, ServedHandled
<1> QED
  BY <1>1, <1>4

LEMMA ToSetTail ==
  ASSUME NEW T, NEW list \in Seq(T), list # <<>>
  PROVE  \A x \in ToSet(list) : x = Head(list) \/ x \in ToSet(Tail(list))
<1>1. ASSUME NEW i \in DOMAIN list, i # 1
      PROVE  i - 1 \in DOMAIN Tail(list) /\ Tail(list)[i - 1] = list[i]
  BY <1>1
<1>2. Head(list) = list[1]
  OBVIOUS
<1> QED
  BY <1>1, <1>2 DEF ToSet

\* An answer that came back goes to the client that is owed it.
LEMMA HandleBackServes ==
  ASSUME Answering, NEW l \in DOMAIN links, HandleBack(l)
  PROVE  AllServed(World)'
<1>1. PICK w, message, u, v, found :
        /\ w = World /\ message = Head(wire[l].back) /\ u = TakenBack(w, l) /\ v = World'
        /\ found = CHOOSE d \in Addressees(l, message.id) : TRUE
  OBVIOUS
<1>2. AllServed(w) /\ Meet(w) /\ Well(w) /\ Linked(w) /\ Inv /\ w.wire = wire /\ w.links = links /\ w.conns = conns
  BY <1>1, InvHas DEF Answering, BothEnds
<1>3. /\ wire[l].back # <<>>
      /\ IF Addressees(l, message.id) = {} THEN v = u ELSE Delivered(u, v, found, message.answers, message.record)
  BY <1>1, <1>2, HandleBackIs
<1>4. /\ ButWire(w, u)
      /\ \A k \in DOMAIN w.links \ {l} : u.wire[k] = w.wire[k]
      /\ u.wire[l].out = w.wire[l].out /\ u.wire[l].back = Tail(w.wire[l].back)
  BY <1>1, <1>2, <1>3, TakenBackDoes
<1>5. /\ v.links = w.links /\ v.conns = w.conns /\ v.wire = u.wire
      /\ \A c \in Clients : v.owed[c] \subseteq w.owed[c]
  BY <1>3, <1>4 DEF ButWire, Delivered
<1>6. ASSUME NEW k \in DOMAIN v.links, ~ v.links[k].broken, NEW c \in Clients \cap DOMAIN v.conns, v.conns[c].remote = k,
             NEW a \in v.owed[c]
      PROVE  Awaits(v.wire[k].out, v.wire[k].back, Id[c], a)
  <2>1. k \in DOMAIN w.links /\ ~ w.links[k].broken /\ c \in DOMAIN w.conns /\ w.conns[c].remote = k /\ a \in w.owed[c]
    BY <1>5, <1>6
  <2>2. Awaits(w.wire[k].out, w.wire[k].back, Id[c], a)
    BY <1>2, <2>1 DEF AllServed, Served
  <2>3. CASE k # l
    <3>1. v.wire[k] = w.wire[k]
      BY <1>4, <1>5, <2>1, <2>3
    <3> QED
      BY <2>2, <3>1
  <2>4. CASE k = l
    <3>1. PICK back : back = w.wire[l].back
      OBVIOUS
    <3>2. back \in Seq(Answer) /\ back # <<>> /\ message = Head(back) /\ v.wire[l].back = Tail(back)
      BY <1>1, <1>2, <1>3, <1>4, <1>5, <3>1, WiredHas DEF Linked
    <3>3. \A x \in ToSet(back) : x = message \/ x \in ToSet(Tail(back))
      BY <3>2, ToSetTail
    <3>4. ~ (message.id = Id[c] /\ message.answers = a)
      <4> SUFFICES ASSUME message.id = Id[c], message.answers = a
                   PROVE  FALSE
        OBVIOUS
      <4>1. k # 0 /\ At[c] = links[l].from
        BY <1>2, <2>1, <2>4, OnItsWay DEF Meet, Joint
      <4>2. c \in Addressees(l, message.id)
        BY <1>2, <2>1, <2>4, <4>1 DEF Addressees
      <4>3. found \in Addressees(l, message.id)
        BY <1>1, <4>2
      <4>4. found \in Clients \cap DOMAIN w.conns /\ w.conns[found].remote = w.conns[c].remote /\ Id[found] = Id[c]
        BY <1>2, <2>1, <2>4, <4>3 DEF Addressees
      <4>5. found = c
        BY <1>2, <2>1, <4>1, <4>4, OneThrough
      <4>6. Delivered(u, v, c, a, message.record)
        BY <1>3, <4>2, <4>5
      <4>7. a \notin v.owed[c]
        BY <4>6 DEF Delivered
      <4> QED
        BY <1>6, <4>7
    <3>5. v.wire[l].out = w.wire[l].out
      BY <1>4, <1>5
    <3>6. PICK out, rest, id : out = w.wire[l].out /\ rest = Tail(back) /\ id = Id[c]
      OBVIOUS
    <3>7. Awaits(out, back, id, a)
      BY <2>2, <2>4, <3>1, <3>6
    <3>8. Awaits(out, rest, id, a)
      BY <3>3, <3>4, <3>6, <3>7 DEF Awaits
    <3> QED
      BY <2>4, <3>2, <3>5, <3>6, <3>8
  <2> QED
    BY <2>3, <2>4
<1>7. AllServed(v)
  BY <1>6 DEF AllServed, Served
<1> QED
  BY <1>1, <1>7

LEMMA CutServes ==
  ASSUME Answering, NEW l \in DOMAIN links, Cut(World, World', l)
  PROVE  AllServed(World)'
<1>1. PICK w, v : w = World /\ v = World'
  OBVIOUS
<1>2. AllServed(w) /\ Linked(w) /\ w.links = links
  BY <1>1, InvHas DEF Answering, BothEnds
<1>3. AllServed(v)
  BY <1>1, <1>2, ServedCut
<1> QED
  BY <1>1, <1>3

LEMMA AnsweringFirst ==
  ASSUME Init
  PROVE  Answering
<1>1. BothEnds /\ links = <<>>
  BY BothEndsFirst DEF Init
<1>2. DOMAIN World.links = {}
  BY <1>1, WorldIs
<1> QED
  BY <1>1, <1>2 DEF Answering, AllServed

LEMMA AnsweringKept ==
  ASSUME OneHost, Answering, [Next]_vars
  PROVE  Answering'
<1>1. BothEnds /\ BothEnds'
  BY BothEndsKept DEF Answering
<1>2. AllServed(World)'
  <2>1. ASSUME NEW c \in Clients, Request(c) PROVE AllServed(World)'
    BY <2>1, RequestServes
  <2>2. ASSUME NEW c \in Clients, Gcre(c) PROVE AllServed(World)'
    BY <2>2, GcreServes
  <2>3. ASSUME NEW c \in Clients, Hangup(c) PROVE AllServed(World)'
    BY <2>3, HangupServes
  <2>4. ASSUME World' = World PROVE AllServed(World)'
    BY <2>4 DEF Answering
  <2>5. ASSUME NEW g \in 1 .. MaxGames, NEW t \in Servers, Beacon(g, t) PROVE AllServed(World)'
    BY <1>1, <2>4, <2>5, BeaconIs DEF BothEnds
  <2>6. ASSUME NEW g \in 1 .. MaxGames, NEW t \in Servers, Expire(g, t) PROVE AllServed(World)'
    BY <1>1, <2>4, <2>6, ExpireIs DEF BothEnds
  <2>7. CASE SendHeld
    BY <2>7, SendHeldServes
  <2>8. ASSUME NEW l \in DOMAIN links, HandleOut(l) PROVE AllServed(World)'
    BY <2>8, HandleOutServes
  <2>9. ASSUME NEW l \in DOMAIN links, HandleBack(l) PROVE AllServed(World)'
    BY <2>9, HandleBackServes
  <2>10. ASSUME NEW l \in DOMAIN links, NEW s \in Servers, Notice(l, s) PROVE AllServed(World)'
    BY <1>1, <2>10, NoticeCuts, CutServes
  <2>11. ASSUME NEW l \in DOMAIN links, NEW s \in Servers, OnLinkClosed(l, s) PROVE AllServed(World)'
    BY <1>1, <2>11, OnLinkClosedCuts, CutServes
  <2>12. ASSUME NEW l \in DOMAIN links, Break(l) PROVE AllServed(World)'
    BY <1>1, <2>12, BreakCuts, CutServes
  <2>13. CASE UNCHANGED vars
    <3>1. World' = World
      BY <2>13 DEF vars, world, World
    <3> QED
      BY <2>4, <3>1
  <2> QED
    BY <2>1, <2>2, <2>3, <2>5, <2>6, <2>7, <2>8, <2>9, <2>10, <2>11, <2>12, <2>13 DEF Next, ServeLinks
<1> QED
  BY <1>1, <1>2 DEF Answering

\* Where all games are on one server, whatever a client's server passed on for it is
\* answered: by the host's handler through the link, whichever it was and whether the
\* game is there or not, or the link's end frees the client of it.
THEOREM AnswersCome ==
  ASSUME OneHost
  PROVE  Spec => []PlayersAreAnswered
<1>1. Answering => PlayersAreAnswered
  <2> SUFFICES ASSUME Answering, AllQuiet, NEW c \in Clients \cap DOMAIN conns, conns[c].remote # 0
               PROVE  owed[c] = {}
    BY DEF PlayersAreAnswered
  <2>1. PICK w, l : w = World /\ l = conns[c].remote
    OBVIOUS
  <2>2. /\ AllServed(w) /\ Meet(w) /\ Well(w) /\ Linked(w)
        /\ w.wire = wire /\ w.links = links /\ w.conns = conns /\ w.owed = owed
    BY <2>1, InvHas, WorldIs DEF Answering, BothEnds
  <2>3. l \in DOMAIN links /\ l # 0 /\ links[l] \in Link /\ links[l].from = At[c]
    BY <2>1, <2>2, WiredHas DEF Linked, Meet, Joint
  <2>4. At[c] \in DOMAIN links[l].ends
    BY <2>3 DEF Link
  <2>5. links[l].ends[At[c]] # "gone"
    BY <2>1, <2>2, <2>3, <2>4 DEF Well, LeftLinks
  <2>6. Quiet(l)
    BY <2>3, <2>4, <2>5 DEF AllQuiet
  <2>7. ~ links[l].broken /\ wire[l].out = <<>> /\ wire[l].back = <<>>
    BY <2>6 DEF Quiet
  <2>8. \A a : ~ Awaits(<<>>, <<>>, Id[c], a)
    BY DEF Awaits, ToSet
  <2> QED
    BY <2>1, <2>2, <2>3, <2>7, <2>8 DEF AllServed, Served
<1> QED
  BY <1>1, AnsweringFirst, AnsweringKept, PTL DEF Spec

-----------------------------------------------------------------------------
(* What players know of their games *)

\* x tells the player of that id something.
Says(x, id) == x.id = id /\ x.record # NoRecord

\* Once all that is on its way back has been delivered, the last that the player of
\* that id was told is r, if it was old before.
Latest(back, id, old, r) ==
  \/ \E k \in 1 .. Len(back) : /\ Says(back[k], id) /\ back[k].record = r
                               /\ \A j \in 1 .. Len(back) : j > k => ~ Says(back[j], id)
  \/ old = r /\ \A j \in 1 .. Len(back) : ~ Says(back[j], id)

LEMMA LatestAppend ==
  ASSUME NEW back \in Seq(Answer), NEW x \in Answer, NEW id, NEW old, NEW r
  PROVE  Latest(Append(back, x), id, old, r) <=> IF Says(x, id) THEN x.record = r ELSE Latest(back, id, old, r)
<1> DEFINE n == Len(back)
           all == Append(back, x)
<1>1. n \in Nat /\ Len(all) = n + 1 /\ all[n + 1] = x /\ \A k \in 1 .. n : all[k] = back[k]
  <2> HIDE DEF Answer
  <2> QED
    OBVIOUS
<1> HIDE DEF n, all
<1>2. 1 .. n + 1 = (1 .. n) \cup {n + 1} /\ \A k \in 1 .. n : n + 1 > k /\ ~ k > n + 1
  BY <1>1
<1>3. (\A j \in 1 .. n + 1 : ~ Says(all[j], id)) <=> ~ Says(x, id) /\ \A j \in 1 .. n : ~ Says(back[j], id)
  BY <1>1, <1>2
<1>4. \A k \in 1 .. n : (\A j \in 1 .. n + 1 : j > k => ~ Says(all[j], id)) <=>
                        ~ Says(x, id) /\ \A j \in 1 .. n : j > k => ~ Says(back[j], id)
  BY <1>1, <1>2
<1>5. (\A j \in 1 .. n + 1 : j > n + 1 => ~ Says(all[j], id))
  BY <1>1
<1>6. (\E k \in 1 .. n + 1 : /\ Says(all[k], id) /\ all[k].record = r
                             /\ \A j \in 1 .. n + 1 : j > k => ~ Says(all[j], id))
      <=> \/ Says(x, id) /\ x.record = r
          \/ /\ ~ Says(x, id)
             /\ \E k \in 1 .. n : /\ Says(back[k], id) /\ back[k].record = r
                                  /\ \A j \in 1 .. n : j > k => ~ Says(back[j], id)
  <2>1. (\E k \in 1 .. n + 1 : /\ Says(all[k], id) /\ all[k].record = r
                               /\ \A j \in 1 .. n + 1 : j > k => ~ Says(all[j], id))
        <=> \/ Says(x, id) /\ x.record = r
            \/ \E k \in 1 .. n : /\ Says(all[k], id) /\ all[k].record = r
                                 /\ \A j \in 1 .. n + 1 : j > k => ~ Says(all[j], id)
    BY <1>1, <1>2, <1>5
  <2> QED
    BY <1>1, <1>4, <2>1
<1>7. Latest(all, id, old, r) <=>
        \/ \E k \in 1 .. n + 1 : /\ Says(all[k], id) /\ all[k].record = r
                                 /\ \A j \in 1 .. n + 1 : j > k => ~ Says(all[j], id)
        \/ old = r /\ \A j \in 1 .. n + 1 : ~ Says(all[j], id)
  BY <1>1 DEF Latest
<1>8. Latest(back, id, old, r) <=>
        \/ \E k \in 1 .. n : /\ Says(back[k], id) /\ back[k].record = r
                             /\ \A j \in 1 .. n : j > k => ~ Says(back[j], id)
        \/ old = r /\ \A j \in 1 .. n : ~ Says(back[j], id)
  BY DEF Latest, n
<1>9. Latest(all, id, old, r) <=> IF Says(x, id) THEN x.record = r ELSE Latest(back, id, old, r)
  BY <1>3, <1>6, <1>7, <1>8
<1> QED
  BY <1>9 DEF all

\* What is delivered first is what the player was told, for the time being.
LEMMA LatestTail ==
  ASSUME NEW back \in Seq(Answer), back # <<>>, NEW id, NEW old, NEW r, Latest(back, id, old, r)
  PROVE  Latest(Tail(back), id, IF Says(Head(back), id) THEN Head(back).record ELSE old, r)
<1>0. PICK n, rest, new :
        n = Len(back) /\ rest = Tail(back) /\ new = IF Says(Head(back), id) THEN Head(back).record ELSE old
  OBVIOUS
<1>1. n \in Nat \ {0} /\ Len(rest) = n - 1 /\ Head(back) = back[1] /\ \A k \in 1 .. n - 1 : rest[k] = back[k + 1]
  <2> HIDE DEF Answer
  <2> QED
    BY <1>0
<1> SUFFICES Latest(rest, id, new, r)
  BY <1>0
<1>9. n = Len(back)
  BY <1>0
<1>2. CASE \E k \in 1 .. n : /\ Says(back[k], id) /\ back[k].record = r
                             /\ \A j \in 1 .. n : j > k => ~ Says(back[j], id)
  <2>1. PICK k \in 1 .. n : /\ Says(back[k], id) /\ back[k].record = r
                            /\ \A j \in 1 .. n : j > k => ~ Says(back[j], id)
    BY <1>2
  <2>2. CASE k = 1
    <3>1. new = r
      BY <1>0, <1>1, <2>1, <2>2
    <3>2. \A j \in 1 .. n - 1 : ~ Says(rest[j], id)
      <4>1. \A j \in 1 .. n - 1 : j + 1 \in 1 .. n /\ j + 1 > 1
        BY <1>1
      <4> QED
        BY <1>1, <2>1, <2>2, <4>1
    <3> QED
      BY <1>1, <3>1, <3>2 DEF Latest
  <2>3. CASE k # 1
    <3>1. k - 1 \in 1 .. n - 1 /\ (k - 1) + 1 = k
      BY <1>1, <2>3
    <3>2. \A j \in 1 .. n - 1 : j > k - 1 => ~ Says(rest[j], id)
      <4>1. \A j \in 1 .. n - 1 : j > k - 1 => j + 1 \in 1 .. n /\ j + 1 > k
        BY <1>1, <2>1
      <4> QED
        BY <1>1, <2>1, <4>1
    <3>3. rest[k - 1] = back[k]
      BY <1>1, <3>1
    <3> QED
      BY <1>1, <2>1, <3>1, <3>2, <3>3 DEF Latest
  <2> QED
    BY <2>2, <2>3
<1>3. CASE old = r /\ \A j \in 1 .. n : ~ Says(back[j], id)
  <2>1. \A j \in 1 .. n - 1 : j + 1 \in 1 .. n /\ 1 \in 1 .. n
    BY <1>1
  <2>2. 1 \in 1 .. n
    BY <1>1
  <2>3. new = r
    BY <1>0, <1>1, <1>3, <2>2
  <2>4. \A j \in 1 .. n - 1 : ~ Says(rest[j], id)
    BY <1>1, <1>3, <2>1
  <2> QED
    BY <1>1, <2>3, <2>4 DEF Latest
<1> QED
  BY <1>2, <1>3, <1>9 DEF Latest

\* Only keeps the same of a list for two sets that have the same of it.
LEMMA OnlyAlike ==
  ASSUME NEW T, NEW list \in Seq(T), NEW S, NEW R, \A x \in ToSet(list) : x \in S <=> x \in R
  PROVE  Only(list, S) = Only(list, R)
<1> DEFINE X == DOMAIN list
<1>1. X \in SUBSET Nat /\ IsFiniteSet(X)
  <2>1. X = 1 .. Len(list) /\ Len(list) \in Nat
    OBVIOUS
  <2> QED
    BY <2>1, FS_Interval
<1>2. PICK F \in [SUBSET X -> Seq(T)] : Only(list, S) = F[X] /\ Keeps(F, list, S)
  BY OnlyFolds
<1>3. PICK G \in [SUBSET X -> Seq(T)] : Only(list, R) = G[X] /\ Keeps(G, list, R)
  BY OnlyFolds
<1> DEFINE C == {s \in SUBSET X : F[s] = G[s]}
<1>4. {} \in C
  BY <1>2, <1>3 DEF Keeps
<1>5. ASSUME NEW s \in SUBSET X, s # {}, s \ {Max(s)} \in C PROVE s \in C
  <2>1. Max(s) \in s
    BY <1>1, <1>5, FS_Subset, MaxOf
  <2>2. list[Max(s)] \in ToSet(list)
    BY <2>1 DEF ToSet
  <2>3. F[s] = IF list[Max(s)] \in S THEN Append(F[s \ {Max(s)}], list[Max(s)]) ELSE F[s \ {Max(s)}]
    BY <1>2, <1>5 DEF Keeps
  <2>4. G[s] = IF list[Max(s)] \in R THEN Append(G[s \ {Max(s)}], list[Max(s)]) ELSE G[s \ {Max(s)}]
    BY <1>3, <1>5 DEF Keeps
  <2> QED
    BY <1>5, <2>2, <2>3, <2>4
<1>6. X \in C
  <2> HIDE DEF C
  <2>1. C \in SUBSET (SUBSET X)
    BY DEF C
  <2> QED
    BY <1>1, <1>4, <1>5, <2>1, FoldGrows
<1> QED
  BY <1>2, <1>3, <1>6

\* A game's record is the same while its host and players are, and are there.
LEMMA GameRecordSame ==
  ASSUME NEW w \in Worlds, NEW v, NEW g \in DOMAIN w.games,
         v.games[g].host = w.games[g].host, v.games[g].players = w.games[g].players,
         \A x \in ToSet(w.games[g].players) : /\ x \in DOMAIN v.conns <=> x \in DOMAIN w.conns
                                              /\ x \in DOMAIN w.conns => v.conns[x].user = w.conns[x].user
  PROVE  GameRecord(v, g) = GameRecord(w, g)
<1>1. PICK list : list = w.games[g].players
  OBVIOUS
<1>2. list \in Seq(People)
  BY <1>1, WorldHas DEF Game
<1>3. PICK present : present = Only(list, DOMAIN w.conns)
  OBVIOUS
<1>4. Only(list, DOMAIN v.conns) = present
  BY <1>1, <1>2, <1>3, OnlyAlike
<1>5. present \in Seq(People) /\ ToSet(present) = ToSet(list) \cap DOMAIN w.conns
  BY <1>2, <1>3, OnlyKeeps
<1>6. \A i \in DOMAIN present : v.conns[present[i]].user = w.conns[present[i]].user
  <2>1. \A i \in DOMAIN present : present[i] \in ToSet(present)
    BY DEF ToSet
  <2> QED
    BY <1>1, <1>5, <2>1
<1>7. [i \in DOMAIN present |-> v.conns[present[i]].user] = [i \in DOMAIN present |-> w.conns[present[i]].user]
  BY <1>6
<1>8. GameRecord(w, g) = [game |-> g, host |-> w.games[g].host, players |-> [i \in DOMAIN present |-> w.conns[present[i]].user]]
  BY <1>1, <1>3 DEF GameRecord
<1>9. GameRecord(v, g) = [game |-> g, host |-> v.games[g].host, players |-> [i \in DOMAIN present |-> v.conns[present[i]].user]]
  BY <1>1, <1>4 DEF GameRecord
<1> QED
  BY <1>7, <1>8, <1>9

-----------------------------------------------------------------------------
(* Who knows, and who is in doubt *)

\* Nothing of out settles whether the player of that id is one.
Unsettled(out, id) == \A j \in 1 .. Len(out) : ~ Settles(out[j], id)

\* Nothing on its way to the host makes another player of m, or none.
Stands(w, m) == ~ w.links[m[1]].broken /\ Unsettled(w.wire[m[1]].out, m[2])

\* The clients that m plays for.
PlaysFor(w, m) ==
  {c \in Clients \cap DOMAIN w.conns : At[c] = w.links[m[1]].from /\ w.conns[c].remote = m[1] /\ Id[c] = m[2]}

\* m was told r last, or will have been.
Knows(w, m, r) ==
  IF m \in Clients THEN w.told[m] = r
  ELSE Stands(w, m) => \A c \in PlaysFor(w, m) : Latest(w.wire[m[1]].back, m[2], w.told[c], r)

\* Who is in a game, does not know of it and will not be told a little later.
InDoubt(w, m) ==
  LET g == w.conns[m].game IN g # 0 /\ ~ Knows(w, m, GameRecord(w, g)) /\ g \notin ToSet(w.held)

\* Nobody is, but for those in D.
AllTold(w, D) == \A m \in DOMAIN w.conns : InDoubt(w, m) => m \in D

\* What m knows is in v what it was in w.
KnowsSame(w, v, m) ==
  /\ m \in Clients => v.told[m] = w.told[m]
  /\ m \notin Clients /\ Stands(v, m) =>
       /\ Stands(w, m) /\ v.wire[m[1]].back = w.wire[m[1]].back
       /\ \A c \in PlaysFor(v, m) : c \in PlaysFor(w, m) /\ v.told[c] = w.told[c]

LEMMA KnowsStill ==
  ASSUME NEW w, NEW v, NEW m, KnowsSame(w, v, m), NEW r, Knows(w, m, r)
  PROVE  Knows(v, m, r)
<1>1. CASE m \in Clients
  BY <1>1 DEF KnowsSame, Knows
<1>2. CASE m \notin Clients
  BY <1>2 DEF KnowsSame, Knows
<1> QED
  BY <1>1, <1>2

LEMMA SureStill ==
  ASSUME NEW w, NEW v, NEW m, KnowsSame(w, v, m), ~ InDoubt(w, m),
         v.conns[m].game \in {0, w.conns[m].game},
         v.conns[m].game # 0 =>
           /\ GameRecord(v, v.conns[m].game) = GameRecord(w, v.conns[m].game)
           /\ v.conns[m].game \in ToSet(w.held) => v.conns[m].game \in ToSet(v.held)
  PROVE  ~ InDoubt(v, m)
<1>1. PICK g : g = v.conns[m].game
  OBVIOUS
<1>2. CASE g = 0
  BY <1>1, <1>2 DEF InDoubt
<1>3. CASE g # 0
  <2>1. Knows(w, m, GameRecord(w, g)) \/ g \in ToSet(w.held)
    BY <1>1, <1>3 DEF InDoubt
  <2>2. CASE Knows(w, m, GameRecord(w, g))
    <3>1. PICK r : r = GameRecord(w, g)
      OBVIOUS
    <3>2. Knows(v, m, r)
      BY <2>2, <3>1, KnowsStill
    <3> QED
      BY <1>1, <1>3, <3>1, <3>2 DEF InDoubt
  <2>3. CASE g \in ToSet(w.held)
    BY <1>1, <1>3, <2>3 DEF InDoubt
  <2> QED
    BY <2>1, <2>2, <2>3
<1> QED
  BY <1>2, <1>3

\* Nothing was said, and no client joined through another link.
Unsaid(w, v) ==
  /\ v.links = w.links /\ v.wire = w.wire /\ v.told = w.told
  /\ \A c \in Clients \cap DOMAIN v.conns :
       v.conns[c].remote # 0 => c \in DOMAIN w.conns /\ w.conns[c].remote = v.conns[c].remote

LEMMA UnsaidSame ==
  ASSUME NEW w, NEW v, NEW m \in People, Unsaid(w, v)
  PROVE  KnowsSame(w, v, m)
<1>1. CASE m \in Clients
  BY <1>1 DEF KnowsSame, Unsaid
<1>2. CASE m \notin Clients
  <2>1. m[1] # 0
    BY <1>2, PeopleAre
  <2>2. Stands(v, m) <=> Stands(w, m)
    BY DEF Stands, Unsaid
  <2>3. \A c \in PlaysFor(v, m) : c \in PlaysFor(w, m)
    BY <2>1 DEF PlaysFor, Unsaid
  <2> QED
    BY <1>2, <2>2, <2>3 DEF KnowsSame, Unsaid
<1> QED
  BY <1>1, <1>2

-----------------------------------------------------------------------------
(* What is said *)

\* A message, or a record, changes what one player knows.
LEMMA SendKnows ==
  ASSUME NEW w, Linked(w), NEW x \in DOMAIN w.conns, x \in Clients => w.conns[x].remote = 0,
         NEW a \in {"join", "play", "leave", "push"}, NEW r \in Records,
         NEW m \in DOMAIN w.conns, NEW s,
         IF m = x /\ r # NoRecord THEN s = r ELSE Knows(w, m, s)
  PROVE  Knows(Send(w, x, a, r), m, s)
<1>1. PICK v : v = Send(w, x, a, r)
  OBVIOUS
<1> SUFFICES Knows(v, m, s)
  BY <1>1
<1>2. /\ Said(w, v)
      /\ x \in Clients => Delivered(w, v, x, a, r)
      /\ x \notin Clients => /\ x[1] \in DOMAIN w.links
                             /\ PutBack(w, v, x[1], [id |-> x[2], answers |-> a, record |-> r])
  BY <1>1, SendDoes
<1>3. DOMAIN w.conns \subseteq People
  BY WorldHas DEF Linked, Wired
<1>4. v.conns = w.conns /\ v.links = w.links
  BY <1>2 DEF Said
<1>5. CASE m \in Clients
  <2>1. CASE x \in Clients
    BY <1>2, <1>5, <2>1 DEF Delivered, Knows
  <2>2. CASE x \notin Clients
    <3>1. v.told = w.told /\ m # x
      BY <1>2, <1>5, <2>2 DEF PutBack, ButWire
    <3> QED
      BY <1>5, <3>1 DEF Knows
  <2> QED
    BY <2>1, <2>2
<1>6. CASE m \notin Clients
  <2>1. m \in People /\ m[1] \in 1 .. MaxLinks /\ m = <<m[1], m[2]>> /\ m[1] \in DOMAIN w.links
    BY <1>3, <1>6, PeopleAre DEF Linked
  <2>2. PlaysFor(v, m) = PlaysFor(w, m)
    BY <1>4 DEF PlaysFor
  <2>3. v.wire[m[1]].out = w.wire[m[1]].out
    BY <1>2, <2>1 DEF Said
  <2>4. Stands(v, m) <=> Stands(w, m)
    BY <1>4, <2>3 DEF Stands
  <2>5. CASE x \in Clients
    <3>1. v.wire = w.wire /\ m # x
      BY <1>2, <1>6, <2>5 DEF Delivered
    <3>2. \A c \in PlaysFor(w, m) : c # x
      BY <2>1, <2>5 DEF PlaysFor
    <3>3. \A c \in PlaysFor(w, m) : v.told[c] = w.told[c]
      BY <1>2, <2>5, <3>2 DEF PlaysFor, Delivered
    <3> QED
      BY <1>6, <2>2, <2>4, <3>1, <3>3 DEF Knows
  <2>6. CASE x \notin Clients
    <3>1. x = <<x[1], x[2]>> /\ x[2] \in Ids
      BY <1>3, <2>6, PeopleAre
    <3>2. PICK y : y = [id |-> x[2], answers |-> a, record |-> r]
      OBVIOUS
    <3>3. y \in Answer /\ y.id = x[2] /\ y.record = r
      BY <3>1, <3>2 DEF Answer
    <3>4. v.told = w.told /\ v.wire[m[1]].back = IF m[1] = x[1] /\ ~ w.links[x[1]].broken
                                                 THEN Append(w.wire[m[1]].back, y) ELSE w.wire[m[1]].back
      BY <1>2, <2>1, <2>6, <3>2 DEF PutBack, ButWire
    <3>5. SUFFICES ASSUME Stands(v, m), NEW c \in PlaysFor(v, m)
          PROVE  Latest(v.wire[m[1]].back, m[2], v.told[c], s)
      BY <1>6 DEF Knows
    <3>6. m # x \/ r = NoRecord => Latest(w.wire[m[1]].back, m[2], v.told[c], s)
      BY <1>6, <2>2, <2>4, <3>4, <3>5 DEF Knows
    <3>7. PICK back, l, id, old :
            back \in Seq(Answer) /\ back = w.wire[m[1]].back /\ l = m[1] /\ id = m[2] /\ old = v.told[c]
      BY <2>1, WiredHas DEF Linked
    <3>8. Latest(Append(back, y), id, old, s) <=> IF Says(y, id) THEN y.record = s ELSE Latest(back, id, old, s)
      BY <3>3, <3>7, LatestAppend
    <3>9. ~ w.links[m[1]].broken
      BY <1>4, <3>5 DEF Stands
    <3>10. CASE m = x /\ r # NoRecord
      <4>1. Says(y, id) /\ y.record = s
        BY <3>3, <3>7, <3>10 DEF Says
      <4> QED
        BY <3>4, <3>7, <3>8, <3>9, <3>10, <4>1
    <3>11. CASE ~ (m = x /\ r # NoRecord)
      <4>1. CASE m[1] = x[1]
        <5>1. ~ Says(y, id)
          <6>1. m = x \/ m[2] # x[2]
            BY <2>1, <3>1, <4>1
          <6> QED
            BY <3>3, <3>7, <3>11, <6>1 DEF Says
        <5> QED
          BY <3>4, <3>6, <3>7, <3>8, <3>9, <3>11, <4>1, <5>1
      <4>2. CASE m[1] # x[1]
        BY <3>4, <3>6, <3>7, <3>11, <4>2
      <4> QED
        BY <4>1, <4>2
    <3> QED
      BY <3>10, <3>11
  <2> QED
    BY <2>5, <2>6
<1> QED
  BY <1>5, <1>6

LEMMA RecordOf ==
  ASSUME NEW w, NEW v, v.conns = w.conns, v.games = w.games, NEW g
  PROVE  GameRecord(v, g) = GameRecord(w, g)
BY DEF GameRecord

\* Who is sent how its game is, is in doubt no more; who is sent another record may
\* be, and nobody else.
LEMMA SendTells ==
  ASSUME NEW w, Linked(w), NEW x \in DOMAIN w.conns, x \in Clients => w.conns[x].remote = 0,
         NEW a \in {"join", "play", "leave", "push"}, NEW r \in Records, NEW D, AllTold(w, D)
  PROVE  LET v == Send(w, x, a, r) IN
         /\ r = NoRecord => AllTold(v, D)
         /\ r # NoRecord /\ w.conns[x].game = 0 => AllTold(v, D)
         /\ r # NoRecord /\ w.conns[x].game # 0 /\ r = GameRecord(w, w.conns[x].game) => AllTold(v, D \ {x})
<1>1. PICK v : v = Send(w, x, a, r)
  OBVIOUS
<1>2. Said(w, v)
  BY <1>1, SendDoes
<1>3. v.conns = w.conns /\ v.games = w.games /\ v.held = w.held
  BY <1>2 DEF Said
<1>4. \A m \in DOMAIN w.conns : \A s : (IF m = x /\ r # NoRecord THEN s = r ELSE Knows(w, m, s)) => Knows(v, m, s)
  BY <1>1, SendKnows
<1>5. \A g : GameRecord(v, g) = GameRecord(w, g)
  BY <1>3, RecordOf
<1>6. ASSUME NEW m \in DOMAIN w.conns, m # x \/ r = NoRecord, InDoubt(v, m) PROVE m \in D
  <2>1. PICK g, s : g = w.conns[m].game /\ s = GameRecord(w, g)
    OBVIOUS
  <2>2. g # 0 /\ ~ Knows(v, m, s) /\ g \notin ToSet(w.held)
    BY <1>3, <1>5, <1>6, <2>1 DEF InDoubt
  <2>3. ~ Knows(w, m, s)
    BY <1>4, <1>6, <2>2
  <2>4. InDoubt(w, m)
    BY <2>1, <2>2, <2>3 DEF InDoubt
  <2> QED
    BY <2>4 DEF AllTold
<1>7. w.conns[x].game = 0 => ~ InDoubt(v, x)
  BY <1>3 DEF InDoubt
<1>8. ASSUME r # NoRecord, r = GameRecord(w, w.conns[x].game) PROVE ~ InDoubt(v, x)
  <2>1. Knows(v, x, r)
    BY <1>4, <1>8
  <2> QED
    BY <1>3, <1>5, <1>8, <2>1 DEF InDoubt
<1> QED
  BY <1>1, <1>3, <1>6, <1>7, <1>8 DEF AllTold

\* All who are in a game that those in it are sent know of it.
LEMMA SendGameTells ==
  ASSUME NEW w, Linked(w), NEW g \in DOMAIN w.games, NEW D, AllTold(w, D),
         \A x \in ToSet(w.games[g].players) :
           x \in DOMAIN w.conns /\ w.conns[x].game = g /\ (x \in Clients => w.conns[x].remote = 0)
  PROVE  AllTold(SendGame(w, g), D \ ToSet(w.games[g].players))
<1>1. PICK list, r : list \in Seq(People) /\ w.games[g].players = list /\ r = GameRecord(w, g)
  BY WorldHas DEF Linked, Wired, Game
<1>2. r \in Records /\ r # NoRecord
  BY <1>1, GameRecordIs DEF Linked, Wired
<1>3. ASSUME NEW u, Said(w, u), NEW m \in ToSet(list)
      PROVE  /\ Said(w, Tell(u, g, m))
             /\ \A x \in DOMAIN w.conns : \A s : (IF x = m THEN s = r ELSE Knows(u, x, s)) => Knows(Tell(u, g, m), x, s)
  <2>1. Linked(u) /\ u.conns = w.conns /\ u.games = w.games
    BY <1>3, SaidLinked DEF Said
  <2>2. m \in DOMAIN u.conns /\ (m \in Clients => u.conns[m].remote = 0)
    BY <1>1, <2>1
  <2>3. GameRecord(u, g) = r
    BY <1>1, <2>1, RecordOf
  <2>4. PICK v : v = Send(u, m, "push", r)
    OBVIOUS
  <2>5. Tell(u, g, m) = v
    BY <2>2, <2>3, <2>4 DEF Tell
  <2>6. Said(u, v)
    BY <1>2, <2>1, <2>2, <2>4, SendDoes
  <2>7. \A x \in DOMAIN w.conns : \A s : (IF x = m THEN s = r ELSE Knows(u, x, s)) => Knows(v, x, s)
    BY <1>2, <2>1, <2>2, <2>4, SendKnows
  <2> QED
    BY <1>3, <2>5, <2>6, <2>7, SaidTwice
<1>4. ASSUME NEW x \in DOMAIN w.conns, x \notin ToSet(list), NEW s, Knows(w, x, s)
      PROVE  Knows(SendGame(w, g), x, s)
  <2> DEFINE W == {u \in Worlds : Said(w, u) /\ Knows(u, x, s)}
  <2>1. w \in W
    BY <1>4, SaidNothing DEF Linked, Wired
  <2>2. ASSUME NEW u \in W, NEW m \in ToSet(list) PROVE Tell(u, g, m) \in W
    <3>1. Said(w, u) /\ Knows(u, x, s) /\ x # m
      BY <1>4, <2>2
    <3>2. PICK v : v = Tell(u, g, m)
      OBVIOUS
    <3>3. Said(w, v)
      BY <1>3, <2>2, <3>1, <3>2
    <3>4. Knows(v, x, s)
      BY <1>3, <1>4, <2>2, <3>1, <3>2
    <3>5. v \in Worlds
      BY <3>3 DEF Said, Wired
    <3>6. v \in W
      BY <3>3, <3>4, <3>5
    <3> QED
      BY <3>2, <3>6
  <2> HIDE DEF W
  <2>3. PICK f \in [0 .. Len(list) -> W] : SendGame(w, g) = f[Len(list)]
    BY <1>1, <2>1, <2>2, SendGameGoes
  <2>4. Len(list) \in 0 .. Len(list)
    OBVIOUS
  <2>5. SendGame(w, g) \in W
    BY <2>3, <2>4
  <2> QED
    BY <2>5 DEF W
<1>5. ASSUME NEW x \in ToSet(list)
      PROVE  Knows(SendGame(w, g), x, r)
  <2> DEFINE W == {u \in Worlds : Said(w, u)}
             n == Len(list)
  <2>1. w \in W
    BY SaidNothing DEF Linked, Wired
  <2>2. ASSUME NEW u \in W, NEW m \in ToSet(list) PROVE Tell(u, g, m) \in W
    <3>1. PICK v : v = Tell(u, g, m)
      OBVIOUS
    <3>2. Said(w, u)
      BY <2>2
    <3>3. Said(w, v)
      BY <1>3, <2>2, <3>1, <3>2
    <3>4. v \in Worlds
      BY <3>3 DEF Said, Wired
    <3> QED
      BY <3>1, <3>3, <3>4
  <2>3. \A u \in W : Said(w, u)
    OBVIOUS
  <2> HIDE DEF W
  <2>4. PICK f \in [0 .. n -> W] :
          SendGame(w, g) = f[n] /\ \A i \in 1 .. n : f[i] = Tell(f[i - 1], g, list[i])
    BY <1>1, <2>1, <2>2, SendGameGoes
  <2>5. PICK k \in 1 .. n : list[k] = x
    BY DEF ToSet
  <2>6. x \in DOMAIN w.conns
    BY <1>1
  <2>7. n \in Nat /\ \A i \in 1 .. n : list[i] \in ToSet(list)
    BY DEF ToSet
  <2> HIDE DEF n
  <2>8. \A i \in 1 .. n : list[i] = x \/ Knows(f[i - 1], x, r) => Knows(f[i], x, r)
    <3>1. SUFFICES ASSUME NEW i \in 1 .. n, list[i] = x \/ Knows(f[i - 1], x, r) PROVE Knows(f[i], x, r)
      OBVIOUS
    <3>2. i - 1 \in 0 .. n
      BY <2>7
    <3>3. Said(w, f[i - 1])
      BY <2>3, <2>4, <3>2
    <3>4. (IF x = list[i] THEN r = r ELSE Knows(f[i - 1], x, r)) => Knows(Tell(f[i - 1], g, list[i]), x, r)
      BY <1>3, <2>6, <2>7, <3>3
    <3> QED
      BY <2>4, <3>1, <3>4
  <2> DEFINE Bad == {i \in k .. n : ~ Knows(f[i], x, r)}
  <2>9. Bad = {}
    <3>1. SUFFICES ASSUME Bad # {} PROVE FALSE
      OBVIOUS
    <3>2. Bad \in SUBSET Nat
      BY <2>7
    <3>3. PICK i \in Bad : \A j \in Bad : ~ (j < i)
      BY <3>1, <3>2, LeastOf
    <3>4. i \in 1 .. n /\ i \in k .. n /\ ~ Knows(f[i], x, r)
      BY <2>5, <2>7, <3>3
    <3>5. list[i] # x /\ ~ Knows(f[i - 1], x, r)
      BY <2>8, <3>4
    <3>6. i # k
      BY <2>5, <3>5
    <3>7. i - 1 \in k .. n /\ i - 1 < i
      BY <2>5, <2>7, <3>4, <3>6
    <3> QED
      BY <3>3, <3>5, <3>7
  <2>10. n \in k .. n
    BY <2>5, <2>7
  <2> QED
    BY <2>4, <2>9, <2>10
<1>6. PICK v : v = SendGame(w, g)
  OBVIOUS
<1>7. v.conns = w.conns /\ v.games = w.games /\ v.held = w.held
  BY <1>6, SendGameDoes DEF Said
<1>8. \A h : GameRecord(v, h) = GameRecord(w, h)
  BY <1>7, RecordOf
<1>9. ASSUME NEW m \in DOMAIN w.conns, InDoubt(v, m) PROVE m \in D /\ m \notin ToSet(list)
  <2>1. PICK h, s : h = w.conns[m].game /\ s = GameRecord(w, h)
    OBVIOUS
  <2>2. h # 0 /\ ~ Knows(v, m, s) /\ h \notin ToSet(w.held)
    BY <1>7, <1>8, <1>9, <2>1 DEF InDoubt
  <2>3. m \notin ToSet(list)
    <3>1. SUFFICES ASSUME m \in ToSet(list) PROVE FALSE
      OBVIOUS
    <3>2. h = g
      BY <1>1, <2>1, <3>1
    <3> QED
      BY <1>1, <1>5, <1>6, <2>1, <2>2, <3>1, <3>2
  <2>4. ~ Knows(w, m, s)
    BY <1>4, <1>6, <2>2, <2>3
  <2>5. InDoubt(w, m)
    BY <2>1, <2>2, <2>4 DEF InDoubt
  <2> QED
    BY <2>3, <2>5 DEF AllTold
<1> QED
  BY <1>1, <1>6, <1>7, <1>9 DEF AllTold

\* Who is in no game, and who will be told a little later, is not in doubt.
LEMMA NoneBut ==
  ASSUME NEW w, NEW D, AllTold(w, D), NEW F,
         \A x \in D \ F : x \in DOMAIN w.conns => w.conns[x].game = 0 \/ w.conns[x].game \in ToSet(w.held)
  PROVE  AllTold(w, F)
BY DEF AllTold, InDoubt

\* Nothing was said, and there was nothing to say but to those in E.
LEMMA UnsaidTells ==
  ASSUME NEW w, NEW v, Unsaid(w, v), DOMAIN v.conns \subseteq People, ToSet(w.held) \subseteq ToSet(v.held),
         NEW D, NEW E, AllTold(w, D),
         \A x \in DOMAIN v.conns \ E : v.conns[x].game # 0 =>
           /\ x \in DOMAIN w.conns /\ w.conns[x].game = v.conns[x].game
           /\ GameRecord(v, v.conns[x].game) = GameRecord(w, v.conns[x].game)
  PROVE  AllTold(v, D \cup E)
<1>1. SUFFICES ASSUME NEW x \in DOMAIN v.conns, x \notin D, x \notin E PROVE ~ InDoubt(v, x)
  BY DEF AllTold
<1>2. CASE v.conns[x].game = 0
  BY <1>2 DEF InDoubt
<1>3. CASE v.conns[x].game # 0
  <2>1. x \in DOMAIN w.conns /\ w.conns[x].game = v.conns[x].game
        /\ GameRecord(v, v.conns[x].game) = GameRecord(w, v.conns[x].game)
    BY <1>1, <1>3
  <2>2. ~ InDoubt(w, x)
    BY <1>1, <2>1 DEF AllTold
  <2>3. KnowsSame(w, v, x)
    BY <1>1, UnsaidSame
  <2> QED
    BY <2>1, <2>2, <2>3, SureStill
<1> QED
  BY <1>2, <1>3

\* Who leaves its game is not in it, and the others in it are told.
LEMMA LeaveTells ==
  ASSUME NEW w, Linked(w), Agree(w), NEW m \in DOMAIN w.conns, NEW D, AllTold(w, D)
  PROVE  AllTold(LeaveGame(w, m), D \ {m})
<1>1. PICK g : g = w.conns[m].game
  OBVIOUS
<1>2. PICK u : /\ Thinned(w, u, m)
               /\ LeaveGame(w, m) = IF g \in DOMAIN u.games THEN SendGame(u, g) ELSE u
  BY <1>1, LeaveGameIs
<1>3. Placed(w, u, m, 0, w.conns[m].remote) /\ Wired(u) /\ u.held = w.held /\ u.links = w.links
  BY <1>2 DEF Thinned
<1>4. Unsaid(w, u)
  BY <1>2, <1>3 DEF Thinned, Unsaid, Placed
<1>5. DOMAIN u.conns = DOMAIN w.conns /\ DOMAIN u.conns \subseteq People
  BY <1>3, WorldHas DEF Wired, Placed
<1>6. \A x \in DOMAIN w.conns \ {m} : u.conns[x] = w.conns[x]
  BY <1>3 DEF Placed
<1>7. \A h \in DOMAIN w.games \ {g} : GameRecord(u, h) = GameRecord(w, h)
  <2>1. \A x \in DOMAIN w.conns : u.conns[x].user = w.conns[x].user
    BY <1>3 DEF Placed
  <2>2. \A h \in DOMAIN w.games \ {g} : u.games[h] = w.games[h]
    BY <1>1, <1>2 DEF Thinned
  <2> QED
    BY <1>5, <2>1, <2>2, GameRecordSame DEF Linked, Wired
<1>8. u.conns[m].game = 0
  BY <1>3 DEF Placed
<1>9. \A x \in DOMAIN w.conns \ {m} : w.conns[x].game # 0 /\ w.conns[x].game # g => w.conns[x].game \in DOMAIN w.games \ {g}
  BY DEF Agree
<1>10. CASE g \in DOMAIN u.games
  <2>1. PICK P : P = ToSet(u.games[g].players)
    OBVIOUS
  <2>2. g \in DOMAIN w.games /\ P = {x \in DOMAIN w.conns \ {m} : w.conns[x].game = g}
    <3>1. g \in DOMAIN w.games /\ P = ToSet(w.games[g].players) \ {m}
      BY <1>1, <1>2, <1>10, <2>1 DEF Thinned
    <3> QED
      BY <3>1 DEF Agree
  <2>3. AllTold(u, D \cup P)
    BY <1>3, <1>4, <1>5, <1>6, <1>7, <1>8, <1>9, <2>2, UnsaidTells
  <2>4. AllTold(u, (D \cup P) \ {m})
    BY <1>8, <2>3, NoneBut
  <2>5. \A x \in P : x \in DOMAIN u.conns /\ u.conns[x].game = g /\ (x \in Clients => u.conns[x].remote = 0)
    <3>1. \A x \in P : w.conns[x].remote = 0
      <4>1. g # 0
        BY <2>2, WorldHas DEF Linked, Wired
      <4> QED
        BY <2>2, <4>1 DEF Agree
    <3> QED
      BY <1>5, <1>6, <2>2, <3>1
  <2>6. Linked(u)
    BY <1>3, <1>5, <1>6 DEF Linked, Placed
  <2>7. PICK F, v : F = (D \cup P) \ {m} /\ v = SendGame(u, g)
    OBVIOUS
  <2>8. AllTold(v, F \ P)
    BY <1>10, <2>1, <2>4, <2>5, <2>6, <2>7, SendGameTells
  <2>9. F \ P \subseteq D \ {m}
    BY <2>7
  <2>10. AllTold(v, D \ {m})
    BY <2>8, <2>9 DEF AllTold
  <2> QED
    BY <1>2, <1>10, <2>7, <2>10
<1>11. CASE g \notin DOMAIN u.games
  <2>1. \A x \in DOMAIN w.conns \ {m} : w.conns[x].game # 0 => w.conns[x].game # g
    <3>1. CASE g \in DOMAIN w.games
      <4>1. ToSet(w.games[g].players) \subseteq {m}
        BY <1>1, <1>2, <1>11, <3>1 DEF Thinned
      <4> QED
        BY <3>1, <4>1 DEF Agree
    <3>2. CASE g \notin DOMAIN w.games
      BY <1>1, <3>2 DEF Agree
    <3> QED
      BY <3>1, <3>2
  <2>2. AllTold(u, D \cup {m})
    BY <1>3, <1>4, <1>5, <1>6, <1>7, <1>9, <2>1, UnsaidTells
  <2>3. AllTold(u, D \ {m})
    <3>1. \A x \in (D \cup {m}) \ (D \ {m}) : x = m
      OBVIOUS
    <3> QED
      BY <1>8, <2>2, <3>1, NoneBut
  <2> QED
    BY <1>2, <1>11, <2>3
<1> QED
  BY <1>10, <1>11

\* Games keep their records while who is in them stays.
LEMMA RecordsStay ==
  ASSUME NEW w, Linked(w), Agree(w), NEW v, NEW g \in DOMAIN w.games, v.games[g] = w.games[g],
         \A x \in DOMAIN w.conns : w.conns[x].game = g => x \in DOMAIN v.conns /\ v.conns[x].user = w.conns[x].user
  PROVE  GameRecord(v, g) = GameRecord(w, g)
<1>1. ToSet(w.games[g].players) = {x \in DOMAIN w.conns : w.conns[x].game = g}
  BY DEF Agree
<1>2. \A x \in ToSet(w.games[g].players) : x \in DOMAIN w.conns /\ x \in DOMAIN v.conns /\ v.conns[x].user = w.conns[x].user
  BY <1>1
<1> QED
  BY <1>2, GameRecordSame DEF Linked, Wired

\* Who goes when it is out of its game was none of those in games.
LEMMA GoneTells ==
  ASSUME NEW w, Linked(w), Agree(w), NEW m, m \in DOMAIN w.conns => w.conns[m].game = 0, NEW D, AllTold(w, D)
  PROVE  AllTold(Gone(w, m), D)
<1>1. PICK v : v = Gone(w, m)
  OBVIOUS
<1>2. /\ ButConns(w, v) /\ DOMAIN v.conns = DOMAIN w.conns \ {m}
      /\ \A x \in DOMAIN v.conns : v.conns[x] = w.conns[x]
  BY <1>1, GoneDoes DEF Linked, Wired
<1>3. Unsaid(w, v)
  BY <1>2 DEF Unsaid, ButConns
<1>4. \A g \in DOMAIN w.games : GameRecord(v, g) = GameRecord(w, g)
  <2>1. \A g \in DOMAIN w.games : g # 0 /\ v.games[g] = w.games[g]
    BY <1>2, WorldHas DEF Linked, Wired, ButConns
  <2>2. \A g \in DOMAIN w.games, x \in DOMAIN w.conns : w.conns[x].game = g => x \in DOMAIN v.conns /\ v.conns[x].user = w.conns[x].user
    BY <1>2, <2>1
  <2> QED
    BY <2>1, <2>2, RecordsStay
<1>5. DOMAIN v.conns \subseteq People /\ v.held = w.held
  BY <1>2, WorldHas DEF ButConns, Linked, Wired
<1>6. \A x \in DOMAIN v.conns : v.conns[x].game # 0 => v.conns[x].game \in DOMAIN w.games
  BY <1>2 DEF Agree
<1>7. AllTold(v, D \cup {})
  BY <1>2, <1>3, <1>4, <1>5, <1>6, UnsaidTells
<1> QED
  BY <1>1, <1>7

LEMMA RemovePlayerTells ==
  ASSUME NEW w, NEW m, Linked(w), Agree(w), NEW D, AllTold(w, D)
  PROVE  AllTold(RemovePlayer(w, m), D \ {m})
<1>1. CASE m \in DOMAIN w.conns
  <2>1. PICK u, E : u = LeaveGame(w, m) /\ E = D \ {m}
    OBVIOUS
  <2>2. RemovePlayer(w, m) = Gone(u, m)
    BY <1>1, <2>1 DEF RemovePlayer, Gone
  <2>3. Linked(u) /\ Agree(u) /\ u.conns[m].game = 0
    BY <1>1, <2>1, LeaveIsAtHome DEF AtHome, Left
  <2>4. AllTold(u, E)
    BY <1>1, <2>1, LeaveTells
  <2>5. AllTold(Gone(u, m), E)
    BY <2>3, <2>4, GoneTells
  <2> QED
    BY <2>1, <2>2, <2>5
<1>2. CASE m \notin DOMAIN w.conns
  <2>1. RemovePlayer(w, m) = w
    BY <1>2 DEF RemovePlayer
  <2>2. \A x \in D \ (D \ {m}) : x = m
    OBVIOUS
  <2>3. AllTold(w, D \ {m})
    BY <1>2, <2>2, NoneBut
  <2> QED
    BY <2>1, <2>3
<1> QED
  BY <1>1, <1>2

\* Who comes is in no game.
LEMMA TakePlayerTells ==
  ASSUME NEW w, Linked(w), Agree(w), NEW m \in People \ Clients, NEW user \in Clients, NEW D, AllTold(w, D)
  PROVE  AllTold(TakePlayer(w, m, user), D \ {m})
<1>1. PICK u, c, E : u = RemovePlayer(w, m) /\ c = [user |-> user, game |-> 0, remote |-> 0] /\ E = D \ {m}
  OBVIOUS
<1>2. PICK v : v = Came(u, m, c)
  OBVIOUS
<1>3. v = TakePlayer(w, m, user)
  BY <1>1, <1>2 DEF TakePlayer, Came
<1>4. Loses(w, u, {m}) /\ Linked(u) /\ Agree(u)
  BY <1>1, RemovePlayerDoes
<1>5. AllTold(u, E)
  BY <1>1, RemovePlayerTells
<1>6. c \in Connection
  BY <1>1, ZeroIs DEF Connection
<1>7. u \in Worlds
  BY <1>4 DEF Linked, Wired
<1>8. /\ ButConns(u, v)
      /\ DOMAIN v.conns = DOMAIN u.conns \cup {m}
      /\ \A x \in DOMAIN u.conns \ {m} : v.conns[x] = u.conns[x]
      /\ v.conns[m] = c
  BY <1>2, <1>6, <1>7, CameDoes
<1>9. m \notin DOMAIN u.conns
  BY <1>4 DEF Loses
<1>10. Unsaid(u, v)
  BY <1>8, <1>9 DEF Unsaid, ButConns
<1>11. \A g \in DOMAIN u.games : GameRecord(v, g) = GameRecord(u, g)
  <2>1. \A g \in DOMAIN u.games : v.games[g] = u.games[g]
    BY <1>8 DEF ButConns
  <2>2. \A x \in DOMAIN u.conns : x \in DOMAIN v.conns /\ v.conns[x].user = u.conns[x].user
    BY <1>8, <1>9
  <2> QED
    BY <1>4, <2>1, <2>2, RecordsStay
<1>12. DOMAIN v.conns \subseteq People /\ v.held = u.held
  BY <1>8, WorldHas DEF ButConns
<1>13. \A x \in DOMAIN v.conns : v.conns[x].game # 0 => /\ x \in DOMAIN u.conns /\ u.conns[x].game = v.conns[x].game
                                                        /\ v.conns[x].game \in DOMAIN u.games
  <2>1. v.conns[m].game = 0
    BY <1>1, <1>8
  <2> QED
    BY <1>4, <1>8, <1>9, <2>1 DEF Agree
<1>14. AllTold(v, E \cup {})
  BY <1>5, <1>10, <1>11, <1>12, <1>13, UnsaidTells
<1> QED
  BY <1>1, <1>3, <1>14

\* m takes a seat in g, and nobody is told yet.
LEMMA SeatIs ==
  ASSUME NEW w, Linked(w), Agree(w), NEW m \in DOMAIN w.conns, NEW g \in DOMAIN w.games
  PROVE  LET v == Seated(w, m, g) IN
         /\ Unsaid(w, v) /\ v.held = w.held /\ Placed(w, v, m, g, w.conns[m].remote)
         /\ \A i \in DOMAIN w.games \ {g} : v.games[i] = w.games[i]
<1> DEFINE v == Seated(w, m, g)
           list == w.games[g].players
           k == [w.games[g] EXCEPT !.players = Append(list, m)]
           u == PutGame(w, g, k)
<1>1. v = InGame(u, m, g)
  BY DEF InGame, Seated, PutGame
<1> HIDE DEF v
<1>2. w \in Worlds /\ m \in People /\ w.games[g] \in Game /\ g \in 1 .. MaxGames
  BY WorldHas DEF Linked, Wired
<1>3. list \in Seq(People) /\ w.games[g].host \in Clients
  BY <1>2 DEF Game
<1>4. k \in Game
  <2>1. PICK n, h : n = Append(list, m) /\ h = w.games[g].host
    OBVIOUS
  <2>2. n \in Seq(People) /\ h \in Clients
    BY <1>2, <1>3, <2>1
  <2> QED
    BY <1>2, <2>1, <2>2, GamesOf
<1> HIDE DEF k
<1>5. ButGames(w, u) /\ \A i \in DOMAIN w.games \ {g} : u.games[i] = w.games[i]
  BY <1>2, <1>4, PutGameDoes
<1> HIDE DEF u
<1>6. ButConns(u, v) /\ Placed(u, v, m, g, u.conns[m].remote)
  <2>1. g \in 0 .. MaxGames /\ u \in Worlds /\ m \in DOMAIN u.conns
    BY <1>2, <1>5 DEF ButGames
  <2> QED
    BY <1>1, <2>1, InGameDoes
<1>7. Placed(w, v, m, g, w.conns[m].remote)
  BY <1>5, <1>6 DEF ButGames, Placed
<1>8. v.links = w.links /\ v.wire = w.wire /\ v.told = w.told /\ v.held = w.held /\ v.games = u.games
  BY <1>5, <1>6 DEF ButGames, ButConns
<1>9. Unsaid(w, v)
  BY <1>7, <1>8 DEF Unsaid, Placed
<1> QED
  BY <1>5, <1>7, <1>8, <1>9 DEF v

\* Those in g.
In(w, g) == {x \in DOMAIN w.conns : w.conns[x].game = g}

\* A game is sent to all who are in it, at once or a little later.
LEMMA SendAfterTells ==
  ASSUME NEW w, Linked(w), Agree(w), NEW g \in DOMAIN w.games, NEW m \in DOMAIN w.conns, w.conns[m].game = g,
         AllTold(w, In(w, g))
  PROVE  AllTold(SendGameAfterRemoteJoin(w, g, m), {})
<1>1. ToSet(w.games[g].players) = In(w, g)
  BY DEF Agree, In
<1>2. g # 0 /\ g \in 1 .. MaxGames
  BY WorldHas DEF Linked, Wired
<1>3. CASE m \in Clients
  <2>1. PICK v : v = SendGame(w, g)
    OBVIOUS
  <2>2. \A x \in In(w, g) : x \in DOMAIN w.conns /\ w.conns[x].game = g /\ (x \in Clients => w.conns[x].remote = 0)
    BY <1>2 DEF Agree, In
  <2>3. AllTold(v, In(w, g) \ In(w, g))
    BY <1>1, <2>1, <2>2, SendGameTells
  <2>4. AllTold(v, {})
    BY <2>3
  <2> QED
    BY <1>3, <2>1, <2>4 DEF SendGameAfterRemoteJoin
<1>4. CASE m \notin Clients
  <2>1. PICK r, u : r = GameRecord(w, g) /\ u = Send(w, m, "push", r)
    OBVIOUS
  <2>2. PICK h : h = Append(u.held, g)
    OBVIOUS
  <2>3. PICK v : v = [u EXCEPT !.held = h]
    OBVIOUS
  <2>4. SendGameAfterRemoteJoin(w, g, m) = v
    BY <1>4, <2>1, <2>2, <2>3 DEF SendGameAfterRemoteJoin
  <2>5. r \in Records /\ r # NoRecord
    BY <2>1, GameRecordIs DEF Linked, Wired
  <2>6. Said(w, u) /\ AtHome(w, u)
    BY <2>1, <2>5, SendIsAtHome
  <2>7. AllTold(u, In(w, g) \ {m})
    BY <1>2, <1>4, <2>1, <2>5, SendTells
  <2>8. u.held \in Seq(1 .. MaxGames)
    BY <2>6, WorldHas DEF Said, Wired
  <2>9. h \in Seq(1 .. MaxGames) /\ ToSet(h) = ToSet(u.held) \cup {g}
    <3>1. PICK T, old : T = 1 .. MaxGames /\ old = u.held
      OBVIOUS
    <3>2. old \in Seq(T) /\ g \in T
      BY <1>2, <2>8, <3>1
    <3>3. ToSet(Append(old, g)) = ToSet(old) \cup {g}
      BY <3>2, AppendSet
    <3>4. Append(old, g) \in Seq(T)
      BY <3>2
    <3> QED
      BY <2>2, <3>1, <3>3, <3>4
  <2>10. ButHeld(u, v) /\ v.held = h
    BY <2>3, <2>6, <2>9, HoldIs DEF AtHome
  <2>11. Unsaid(u, v) /\ v.conns = u.conns /\ v.games = u.games
    BY <2>10 DEF Unsaid, ButHeld
  <2>12. \A i : GameRecord(v, i) = GameRecord(u, i)
    BY <2>11, RecordOf
  <2>13. DOMAIN v.conns \subseteq People
    BY <2>10, WorldHas DEF ButHeld
  <2>14. AllTold(v, (In(w, g) \ {m}) \cup {})
    BY <2>7, <2>9, <2>10, <2>11, <2>12, <2>13, UnsaidTells
  <2>15. \A x \in (In(w, g) \ {m}) \cup {} : x \in DOMAIN v.conns => v.conns[x].game \in ToSet(v.held)
    <3>1. v.conns = w.conns
      BY <2>6, <2>11 DEF Said
    <3> QED
      BY <2>9, <2>10, <3>1 DEF In
  <2>16. PICK E : E = (In(w, g) \ {m}) \cup {}
    OBVIOUS
  <2>17. AllTold(v, {})
    BY <2>14, <2>15, <2>16, NoneBut
  <2> QED
    BY <2>4, <2>17
<1> QED
  BY <1>3, <1>4

\* Who joins is told, and so are the others.
LEMMA TakeSeatTells ==
  ASSUME NEW w, Linked(w), Agree(w), NEW m \in DOMAIN w.conns, NEW g \in DOMAIN w.games,
         w.conns[m].remote = 0, AllTold(w, {})
  PROVE  AllTold(TakeSeat(w, m, g), {})
<1>1. PICK seated : seated = IF w.conns[m].game = g THEN w ELSE Seated(LeaveGame(w, m), m, g)
  OBVIOUS
<1>2. TakeSeat(w, m, g) = SendGameAfterRemoteJoin(Send(seated, m, "join", GameRecord(seated, g)), g, m)
  BY <1>1 DEF TakeSeat, Seated
<1>3. /\ AtHome(w, seated) /\ g \in DOMAIN seated.games /\ seated.conns[m].game = g
      /\ AllTold(seated, In(seated, g))
  <2>1. CASE w.conns[m].game = g
    <3>1. seated = w
      BY <1>1, <2>1
    <3>2. Said(w, w)
      BY SaidNothing DEF Linked
    <3> QED
      BY <2>1, <3>1, <3>2, SaidIsAtHome DEF AllTold
  <2>2. CASE w.conns[m].game # g
    <3>1. PICK u : u = LeaveGame(w, m)
      OBVIOUS
    <3>2. AtHome(w, u) /\ Left(w, u, m)
      BY <3>1, LeaveIsAtHome
    <3>3. u.conns[m].game = 0 /\ g \in DOMAIN u.games /\ m \in DOMAIN u.conns /\ u.conns[m].remote = 0
      BY <2>2, <3>2 DEF Left, Stays
    <3>4. AllTold(u, {})
      <4>1. AllTold(u, {} \ {m})
        BY <3>1, LeaveTells
      <4> QED
        BY <4>1 DEF AllTold
    <3>5. PICK v : v = Seated(u, m, g)
      OBVIOUS
    <3>6. Linked(u) /\ Agree(u)
      BY <3>2 DEF AtHome
    <3>7. AtHome(u, v) /\ g \in DOMAIN v.games /\ v.conns[m].game = g
      BY <3>3, <3>5, <3>6, SeatDoes
    <3>8. /\ Unsaid(u, v) /\ v.held = u.held /\ Placed(u, v, m, g, u.conns[m].remote)
          /\ \A i \in DOMAIN u.games \ {g} : v.games[i] = u.games[i]
      BY <3>3, <3>5, <3>6, SeatIs
    <3>9. DOMAIN v.conns = DOMAIN u.conns /\ DOMAIN v.conns \subseteq People
      BY <3>7, WorldHas DEF AtHome, Stays, Wired
    <3>10. \A i \in DOMAIN u.games \ {g} : GameRecord(v, i) = GameRecord(u, i)
      <4>1. \A x \in DOMAIN u.conns : x \in DOMAIN v.conns /\ v.conns[x].user = u.conns[x].user
        BY <3>7, <3>9 DEF AtHome, Stays
      <4> QED
        BY <3>6, <3>8, <4>1, RecordsStay
    <3>11. \A x \in DOMAIN v.conns \ In(v, g) : v.conns[x].game # 0 =>
             x \in DOMAIN u.conns /\ u.conns[x].game = v.conns[x].game /\ v.conns[x].game \in DOMAIN u.games \ {g}
      <4>1. SUFFICES ASSUME NEW x \in DOMAIN v.conns, x \notin In(v, g), v.conns[x].game # 0
            PROVE  x \in DOMAIN u.conns /\ u.conns[x].game = v.conns[x].game /\ v.conns[x].game \in DOMAIN u.games \ {g}
        OBVIOUS
      <4>2. v.conns[x].game # g /\ x # m
        BY <3>7, <4>1 DEF In
      <4>3. u.conns[x] = v.conns[x] /\ x \in DOMAIN u.conns
        BY <3>8, <3>9, <4>1, <4>2 DEF Placed
      <4> QED
        BY <3>6, <4>1, <4>2, <4>3 DEF Agree
    <3>12. PICK E : E = In(v, g)
      OBVIOUS
    <3>13. AllTold(v, {} \cup E)
      BY <3>4, <3>8, <3>9, <3>10, <3>11, <3>12, UnsaidTells
    <3>14. AllTold(v, E)
      BY <3>13 DEF AllTold
    <3> QED
      BY <1>1, <2>2, <3>1, <3>2, <3>5, <3>7, <3>12, <3>14, AtHomeTwice
  <2> QED
    BY <2>1, <2>2
<1>4. PICK r, u : r = GameRecord(seated, g) /\ u = Send(seated, m, "join", r)
  OBVIOUS
<1>5. Linked(seated) /\ Agree(seated) /\ m \in DOMAIN seated.conns /\ seated.conns[m].remote = 0
  BY <1>3 DEF AtHome, Stays
<1>6. r \in Records /\ r # NoRecord /\ g # 0
  BY <1>3, <1>4, <1>5, GameRecordIs, WorldHas DEF Linked, Wired
<1>7. AtHome(seated, u) /\ Said(seated, u)
  BY <1>4, <1>5, <1>6, SendIsAtHome
<1>8. In(u, g) = In(seated, g) /\ g \in DOMAIN u.games /\ m \in DOMAIN u.conns /\ u.conns[m].game = g
  BY <1>3, <1>5, <1>7 DEF In, Said
<1>9. AllTold(u, In(u, g))
  <2>1. PICK E : E = In(seated, g)
    OBVIOUS
  <2>2. AllTold(u, E \ {m})
    BY <1>3, <1>4, <1>5, <1>6, <2>1, SendTells
  <2> QED
    BY <1>8, <2>1, <2>2 DEF AllTold
<1>10. AllTold(SendGameAfterRemoteJoin(u, g, m), {})
  BY <1>7, <1>8, <1>9, SendAfterTells DEF AtHome
<1> QED
  BY <1>2, <1>4, <1>10

\* Who is taken out of a game is told so.
LEMMA DismissTells ==
  ASSUME NEW w, Linked(w), NEW p \in DOMAIN w.conns, p \in Clients => w.conns[p].remote = 0,
         \A x \in DOMAIN w.conns : w.conns[x].game \in DOMAIN w.games \cup {0},
         NEW D, AllTold(w, D)
  PROVE  AllTold(Dismiss(w, p), D)
<1>1. PICK u, v : u = InGame(w, p, 0) /\ v = Send(u, p, "push", Nowhere)
  OBVIOUS
<1>2. Dismiss(w, p) = v
  BY <1>1 DEF Dismiss, InGame
<1>3. ButConns(w, u) /\ Placed(w, u, p, 0, w.conns[p].remote)
  BY <1>1, ZeroIs, InGameDoes DEF Linked, Wired
<1>4. Linked(u) /\ p \in DOMAIN u.conns /\ u.conns[p].game = 0 /\ (p \in Clients => u.conns[p].remote = 0)
  <2>1. Stays(w, u)
    BY <1>3 DEF ButConns, Placed, Stays, Linked, Wired, SameServers
  <2> QED
    BY <1>3, <2>1, StaysLinked DEF Placed
<1>5. Unsaid(w, u) /\ u.held = w.held /\ u.games = w.games /\ DOMAIN u.conns = DOMAIN w.conns
  BY <1>3 DEF Unsaid, ButConns, Placed
<1>6. DOMAIN u.conns \subseteq People
  BY <1>3, WorldHas DEF ButConns
<1>7. \A g \in DOMAIN w.games : GameRecord(u, g) = GameRecord(w, g)
  <2>1. \A x \in DOMAIN w.conns : x \in DOMAIN u.conns /\ u.conns[x].user = w.conns[x].user
    BY <1>3 DEF Placed
  <2> QED
    BY <1>5, <2>1, GameRecordSame DEF Linked, Wired
<1>8. \A x \in DOMAIN u.conns : u.conns[x].game # 0 => x \in DOMAIN w.conns /\ w.conns[x].game = u.conns[x].game
                                                       /\ u.conns[x].game \in DOMAIN w.games
  BY <1>3 DEF Placed
<1>9. AllTold(u, D)
  <2>1. AllTold(u, D \cup {})
    BY <1>5, <1>6, <1>7, <1>8, UnsaidTells
  <2> QED
    BY <2>1
<1>10. AllTold(v, D)
  <2>1. PICK r : r = Nowhere
    OBVIOUS
  <2>2. r \in Records /\ r # NoRecord
    BY <2>1, RecordsHave
  <2>3. v = Send(u, p, "push", r)
    BY <1>1, <2>1
  <2> QED
    BY <1>4, <1>9, <2>2, <2>3, SendTells
<1> QED
  BY <1>2, <1>10

LEMMA DismissAllTells ==
  ASSUME NEW w, Linked(w), Agree(w), NEW list \in Seq(People), ToSet(list) \subseteq DOMAIN w.conns,
         \A p \in ToSet(list) : p \in Clients => w.conns[p].remote = 0, NEW D, AllTold(w, D)
  PROVE  AllTold(DismissAll(w, list), D)
<1> DEFINE Seats(v) == \A x \in DOMAIN v.conns : v.conns[x].game \in DOMAIN v.games \cup {0}
           W == {v \in Worlds : Linked(v) /\ Stays(w, v) /\ Seats(v) /\ v.games = w.games /\ AllTold(v, D)}
<1>1. w \in W
  <2>1. Linked(w) /\ Stays(w, w) /\ w \in Worlds
    BY SaidNothing, SaidStays DEF Linked, Wired
  <2>2. Seats(w)
    BY DEF Agree
  <2> HIDE DEF Seats
  <2> QED
    BY <2>1, <2>2
<1>2. ASSUME NEW v \in W, NEW p \in ToSet(list) PROVE Dismiss(v, p) \in W
  <2>1. Linked(v) /\ Stays(w, v) /\ Seats(v) /\ v.games = w.games /\ AllTold(v, D)
    BY <1>2
  <2>2. p \in DOMAIN v.conns /\ (p \in Clients => v.conns[p].remote = 0)
    BY <1>2, <2>1 DEF Stays
  <2>3. PICK u : u = Dismiss(v, p)
    OBVIOUS
  <2>4. /\ Stays(v, u) /\ Linked(u) /\ u.games = v.games
        /\ \A x \in DOMAIN v.conns : u.conns[x].game = IF x = p THEN 0 ELSE v.conns[x].game
    BY <2>1, <2>2, <2>3, DismissDoes
  <2>5. AllTold(u, D)
    BY <2>1, <2>2, <2>3, DismissTells
  <2>6. Seats(u)
    BY <2>1, <2>4 DEF Stays
  <2>7. Stays(w, u)
    BY <2>1, <2>4, StaysTwice
  <2>8. u \in Worlds
    BY <2>4 DEF Linked, Wired
  <2> HIDE DEF Seats
  <2>9. u \in W
    BY <2>1, <2>4, <2>5, <2>6, <2>7, <2>8
  <2> QED
    BY <2>3, <2>9
<1>3. \A v \in W : AllTold(v, D)
  OBVIOUS
<1> HIDE DEF W
<1>4. PICK f \in [0 .. Len(list) -> W] : DismissAll(w, list) = f[Len(list)]
  BY <1>1, <1>2, DismissGoes
<1>5. Len(list) \in 0 .. Len(list)
  OBVIOUS
<1>6. DismissAll(w, list) \in W
  BY <1>4, <1>5
<1> QED
  BY <1>3, <1>6

\* A game is left to m alone, as all the others are out of it: nobody is to be told
\* but m.
LEMMA LeftToTells ==
  ASSUME NEW u, Linked(u), NEW g \in DOMAIN u.games, NEW m \in DOMAIN u.conns, Agree(LeftTo(u, g, m)),
         NEW D, AllTold(u, D)
  PROVE  AllTold(LeftTo(u, g, m), D \cup {m})
<1> DEFINE k == [u.games[g] EXCEPT !.players = <<m>>]
           v == LeftTo(u, g, m)
<1>1. v = PutGame(u, g, k)
  BY DEF LeftTo, PutGame
<1>2. PICK x : x = v
  OBVIOUS
<1>3. Agree(x)
  BY <1>2
<1> HIDE DEF v
<1>4. u \in Worlds /\ m \in People /\ u.games[g] \in Game /\ DOMAIN u.conns \subseteq People
  BY WorldHas DEF Linked, Wired
<1>5. k \in Game /\ k.players = <<m>>
  <2>1. PICK n : n = <<m>>
    OBVIOUS
  <2>2. n \in Seq(People) /\ u.games[g].host \in Clients
    BY <1>4, <2>1 DEF Game
  <2>3. k \in Game /\ k.players = <<m>>
    BY <1>4, <2>1, <2>2, GamesOf
  <2> HIDE DEF k
  <2> QED
    BY <2>3
<1> HIDE DEF k
<1>6. /\ ButGames(u, x) /\ DOMAIN x.games = DOMAIN u.games /\ x.games[g] = k
      /\ \A i \in DOMAIN u.games \ {g} : x.games[i] = u.games[i]
  BY <1>1, <1>2, <1>4, <1>5, PutGameDoes
<1>7. Unsaid(u, x) /\ x.conns = u.conns /\ x.held = u.held
  BY <1>6 DEF Unsaid, ButGames
<1>8. \A y \in DOMAIN x.conns \ {m} : x.conns[y].game # 0 => x.conns[y].game \in DOMAIN u.games \ {g}
  <2>1. ToSet(x.games[g].players) = {m}
    BY <1>5, <1>6 DEF ToSet
  <2>2. {y \in DOMAIN x.conns : x.conns[y].game = g} = {m}
    BY <1>3, <1>6, <2>1 DEF Agree
  <2> QED
    BY <1>3, <1>6, <2>2 DEF Agree
<1>9. \A i \in DOMAIN u.games \ {g} : GameRecord(x, i) = GameRecord(u, i)
  BY <1>4, <1>6, <1>7, GameRecordSame
<1>10. AllTold(x, D \cup {m})
  BY <1>4, <1>7, <1>8, <1>9, UnsaidTells
<1> QED
  BY <1>2, <1>10 DEF v

\* Who leaves its game as a player does is in doubt no more; those whom its host's
\* end of the game puts out of it are told.
LEMMA LeavesTells ==
  ASSUME NEW w, Linked(w), Agree(w), NEW m \in DOMAIN w.conns, w.conns[m].remote = 0, NEW req,
         AllTold(w, {m})
  PROVE  AllTold(Leave(w, m, req), {})
<1> DEFINE g == w.conns[m].game
           others == Only(w.games[g].players, DOMAIN w.conns \ {m})
<1>1. PICK answered : answered = Send(w, m, "leave", NoRecord)
  OBVIOUS
<1>2. AtHome(w, answered) /\ Said(w, answered)
  BY <1>1, RecordsHave, SendIsAtHome
<1>3. AllTold(answered, {m})
  <2>1. PICK r : r = NoRecord
    OBVIOUS
  <2>2. r \in Records /\ answered = Send(w, m, "leave", r)
    BY <1>1, <2>1, RecordsHave
  <2> QED
    BY <2>1, <2>2, SendTells
<1>4. PICK u : u = DismissAll(answered, others)
  OBVIOUS
<1>5. PICK last : last = IF req.kind = "gdel" /\ g \in DOMAIN w.games /\ w.games[g].host = w.conns[m].user
                         THEN LeftTo(u, g, m) ELSE answered
  OBVIOUS
<1>6. Leave(w, m, req) = Send(LeaveGame(last, m), m, "push", Nowhere)
  BY <1>1, <1>4, <1>5 DEF Leave, DismissAll, LeftTo
<1>7. answered.conns = w.conns /\ answered.games = w.games
  BY <1>2 DEF Said
<1>8. AtHome(answered, last) /\ AllTold(last, {m})
  <2>1. CASE req.kind = "gdel" /\ g \in DOMAIN w.games /\ w.games[g].host = w.conns[m].user
    <3>1. w.games[g].players \in Seq(People) /\ g # 0
      BY <2>1, WorldHas DEF Linked, Wired, Game
    <3>2. others \in Seq(People) /\ ToSet(others) = ToSet(w.games[g].players) \cap (DOMAIN w.conns \ {m})
      BY <3>1, OnlyKeeps
    <3>3. ToSet(w.games[g].players) = {x \in DOMAIN w.conns : w.conns[x].game = g}
      BY <2>1 DEF Agree
    <3>4. /\ ToSet(others) \subseteq DOMAIN answered.conns
          /\ ToSet(others) = ToSet(answered.games[g].players) \ {m}
          /\ \A p \in ToSet(others) : p \in Clients => answered.conns[p].remote = 0
      BY <1>7, <3>1, <3>2, <3>3 DEF Agree
    <3>5. Linked(answered) /\ Agree(answered)
      BY <1>2 DEF AtHome
    <3> HIDE DEF others
    <3>6. Dismissed(answered, u, ToSet(others))
      BY <1>4, <3>2, <3>4, <3>5, DismissAllDoes
    <3>7. AllTold(u, {m})
      BY <1>3, <1>4, <3>2, <3>4, <3>5, DismissAllTells
    <3>8. Dismissed(answered, u, ToSet(answered.games[g].players) \ {m})
      BY <3>4, <3>6
    <3>9. m \in DOMAIN answered.conns /\ g \in DOMAIN answered.games /\ answered.conns[m].game = g
      BY <1>7, <2>1
    <3> HIDE DEF g
    <3>10. PICK v : v = LeftTo(u, g, m)
      OBVIOUS
    <3>11. AtHome(answered, v)
      BY <3>5, <3>8, <3>9, <3>10, LeftToDoes
    <3>12. Linked(u) /\ g \in DOMAIN u.games /\ m \in DOMAIN u.conns
      BY <3>6, <3>9 DEF Dismissed, Stays
    <3>13. AllTold(v, {m} \cup {m})
      BY <3>7, <3>10, <3>11, <3>12, LeftToTells DEF AtHome
    <3> QED
      BY <1>5, <2>1, <3>10, <3>11, <3>13
  <2>2. CASE ~ (req.kind = "gdel" /\ g \in DOMAIN w.games /\ w.games[g].host = w.conns[m].user)
    <3>1. last = answered
      BY <1>5, <2>2
    <3>2. Linked(answered) /\ Agree(answered) /\ Said(answered, answered)
      BY <1>2, SaidNothing DEF AtHome, Linked
    <3> QED
      BY <1>3, <3>1, <3>2, SaidIsAtHome
  <2> HIDE DEF g
  <2> QED
    BY <2>1, <2>2
<1>9. PICK left : left = LeaveGame(last, m)
  OBVIOUS
<1>10. m \in DOMAIN last.conns /\ Linked(last) /\ Agree(last) /\ last.conns[m].remote = 0
  BY <1>7, <1>8 DEF AtHome, Stays
<1>11. AtHome(last, left) /\ left.conns[m].game = 0
  BY <1>9, <1>10, LeaveIsAtHome DEF Left
<1>12. AllTold(left, {})
  <2>1. AllTold(left, {m} \ {m})
    BY <1>8, <1>9, <1>10, LeaveTells
  <2> QED
    BY <2>1
<1>13. m \in DOMAIN left.conns /\ Linked(left) /\ left.conns[m].remote = 0
  BY <1>10, <1>11 DEF AtHome, Stays
<1>14. PICK r : r = Nowhere
  OBVIOUS
<1>15. r \in Records /\ r # NoRecord
  BY <1>14, RecordsHave
<1>16. AllTold(Send(left, m, "push", r), {})
  BY <1>11, <1>12, <1>13, <1>15, SendTells
<1> QED
  BY <1>6, <1>9, <1>14, <1>16

\* Who is sent an answer with its game's record, and then those in the game how it is.
LEMMA SaidOfGameTells ==
  ASSUME NEW w, Linked(w), Agree(w), NEW m \in DOMAIN w.conns, w.conns[m].remote = 0,
         w.conns[m].game \in DOMAIN w.games, AllTold(w, {})
  PROVE  /\ AllTold(SaidOfGame(w, m, w.conns[m].game), {})
         /\ AllTold(SendGame(SaidOfGame(w, m, w.conns[m].game), w.conns[m].game), {})
<1>1. PICK g, r, u : g = w.conns[m].game /\ r = GameRecord(w, g) /\ u = Send(w, m, "play", r)
  OBVIOUS
<1>2. u = SaidOfGame(w, m, g)
  BY <1>1 DEF SaidOfGame
<1>3. r \in Records /\ r # NoRecord /\ g # 0 /\ g \in DOMAIN w.games
  BY <1>1, GameRecordIs, WorldHas DEF Linked, Wired
<1>4. AllTold(u, {})
  <2>1. AllTold(u, {} \ {m})
    BY <1>1, <1>3, SendTells
  <2> QED
    BY <2>1
<1>5. AtHome(w, u) /\ Said(w, u)
  BY <1>1, <1>3, SendIsAtHome
<1>6. Linked(u) /\ g \in DOMAIN u.games
  BY <1>3, <1>5 DEF AtHome, Said
<1>7. \A x \in ToSet(u.games[g].players) :
        x \in DOMAIN u.conns /\ u.conns[x].game = g /\ (x \in Clients => u.conns[x].remote = 0)
  BY <1>3, <1>5, <1>6 DEF AtHome, Agree
<1>8. PICK v : v = SendGame(u, g)
  OBVIOUS
<1>9. AllTold(v, {} \ ToSet(u.games[g].players))
  BY <1>4, <1>6, <1>7, <1>8, SendGameTells
<1>10. AllTold(v, {})
  BY <1>9
<1> QED
  BY <1>1, <1>2, <1>4, <1>8, <1>10

LEMMA LockTells ==
  ASSUME NEW w, Linked(w), Agree(w), NEW g \in DOMAIN w.games, AllTold(w, {})
  PROVE  AllTold(Lock(w, g), {}) /\ Lock(w, g).conns = w.conns
<1>1. PICK k, v : k = [w.games[g] EXCEPT !.locked = TRUE] /\ v = Lock(w, g)
  OBVIOUS
<1>2. v = PutGame(w, g, k)
  BY <1>1 DEF Lock, PutGame
<1>3. w \in Worlds /\ w.games[g] \in Game
  BY WorldHas DEF Linked, Wired
<1>4. k \in Game /\ k.players = w.games[g].players /\ k.host = w.games[g].host
  <2>1. PICK n, h : n = w.games[g].players /\ h = w.games[g].host
    OBVIOUS
  <2>2. n \in Seq(People) /\ h \in Clients
    BY <1>3, <2>1 DEF Game
  <2> QED
    BY <1>1, <1>3, <2>1, <2>2, GamesOf
<1>5. /\ ButGames(w, v) /\ DOMAIN v.games = DOMAIN w.games /\ v.games[g] = k
      /\ \A i \in DOMAIN w.games \ {g} : v.games[i] = w.games[i]
  BY <1>2, <1>3, <1>4, PutGameDoes
<1>6. Unsaid(w, v) /\ v.conns = w.conns /\ v.held = w.held
  BY <1>5 DEF Unsaid, ButGames
<1>7. \A i \in DOMAIN w.games : GameRecord(v, i) = GameRecord(w, i)
  <2>1. \A i \in DOMAIN w.games : v.games[i].players = w.games[i].players /\ v.games[i].host = w.games[i].host
    BY <1>4, <1>5
  <2> QED
    BY <1>3, <1>6, <2>1, GameRecordSame
<1>8. DOMAIN v.conns \subseteq People
  BY <1>3, <1>6, WorldHas
<1>9. AllTold(v, {} \cup {})
  BY <1>6, <1>7, <1>8, UnsaidTells DEF Agree
<1>10. AllTold(v, {})
  BY <1>9
<1> QED
  BY <1>1, <1>6, <1>10

\* Who is kicked is told so, and the others in the game that it left.
LEMMA KickTells ==
  ASSUME NEW w, Linked(w), Agree(w), NEW p \in DOMAIN w.conns, w.conns[p].game # 0, AllTold(w, {})
  PROVE  LET v == Send(LeaveGame(w, p), p, "push", Nowhere) IN
         AtHome(w, v) /\ AllTold(v, {}) /\ \A x \in DOMAIN w.conns \ {p} : v.conns[x] = w.conns[x]
<1>1. PICK left, r : left = LeaveGame(w, p) /\ r = Nowhere
  OBVIOUS
<1>2. r \in Records /\ r # NoRecord
  BY <1>1, RecordsHave
<1>3. PICK v : v = Send(left, p, "push", r)
  OBVIOUS
<1>4. AtHome(w, left) /\ Left(w, left, p)
  BY <1>1, LeaveIsAtHome
<1>5. Linked(left) /\ Agree(left) /\ p \in DOMAIN left.conns /\ left.conns[p].game = 0 /\ left.conns[p].remote = 0
  <2>1. w.conns[p].remote = 0
    BY DEF Agree
  <2> QED
    BY <1>4, <2>1 DEF AtHome, Stays, Left
<1>6. AllTold(left, {} \ {p})
  BY <1>1, LeaveTells
<1>7. AllTold(left, {})
  BY <1>6
<1>8. AllTold(v, {})
  BY <1>2, <1>3, <1>5, <1>7, SendTells
<1>9. AtHome(left, v) /\ Said(left, v)
  BY <1>2, <1>3, <1>5, SendIsAtHome
<1>10. AtHome(w, v)
  BY <1>4, <1>9, AtHomeTwice
<1>11. \A x \in DOMAIN w.conns \ {p} : v.conns[x] = w.conns[x]
  BY <1>4, <1>9 DEF Left, Said
<1> QED
  BY <1>1, <1>3, <1>8, <1>10, <1>11

LEMMA GsetTells ==
  ASSUME NEW w, Linked(w), Agree(w), NEW m \in DOMAIN w.conns, w.conns[m].remote = 0, NEW req, AllTold(w, {})
  PROVE  AllTold(Gset(w, m, req), {})
<1> DEFINE g == w.conns[m].game
           hosts == g \in DOMAIN w.games /\ Head(w.games[g].players) = m
           kicked == Only(w.games[g].players, {p \in DOMAIN w.conns \ {m} : w.conns[p].user = req.arg})
<1>1. PICK away, locked :
        /\ away = IF kicked = <<>> THEN w ELSE Send(LeaveGame(w, Head(kicked)), Head(kicked), "push", Nowhere)
        /\ locked = Lock(w, g)
  OBVIOUS
<1>2. Gset(w, m, req) =
        IF g \notin DOMAIN w.games THEN Send(w, m, "play", NoRecord)
        ELSE IF hosts /\ req.kind = "kick" THEN SaidOfGame(away, m, g)
        ELSE IF hosts /\ req.kind = "lock" THEN SendGame(SaidOfGame(locked, m, g), g)
        ELSE SendGame(SaidOfGame(w, m, g), g)
  BY <1>1 DEF Gset, Lock, SaidOfGame
<1>3. CASE g \notin DOMAIN w.games
  <2>1. PICK r : r = NoRecord
    OBVIOUS
  <2>2. r \in Records
    BY <2>1, RecordsHave
  <2>3. AllTold(Send(w, m, "play", r), {})
    BY <2>1, <2>2, SendTells
  <2> QED
    BY <1>2, <1>3, <2>1, <2>3
<1>4. CASE g \in DOMAIN w.games /\ hosts /\ req.kind = "kick"
  <2>1. Linked(away) /\ Agree(away) /\ m \in DOMAIN away.conns /\ away.conns[m] = w.conns[m] /\ AllTold(away, {})
    <3>1. CASE kicked = <<>>
      BY <1>1, <3>1
    <3>2. CASE kicked # <<>>
      <4>1. w.games[g].players \in Seq(People) /\ g # 0
        BY <1>4, WorldHas DEF Linked, Wired, Game
      <4> DEFINE S == {p \in DOMAIN w.conns \ {m} : w.conns[p].user = req.arg}
      <4>2. kicked \in Seq(People) /\ ToSet(kicked) = ToSet(w.games[g].players) \cap S
        <5> HIDE DEF S
        <5>1. kicked = Only(w.games[g].players, S)
          BY DEF S
        <5> HIDE DEF kicked
        <5> QED
          BY <4>1, <5>1, OnlyKeeps
      <4>3. PICK p : p = Head(kicked)
        OBVIOUS
      <4>4. p \in ToSet(kicked)
        <5> HIDE DEF kicked
        <5>1. Len(kicked) \in Nat /\ Len(kicked) # 0 /\ p = kicked[1]
          BY <3>2, <4>2, <4>3
        <5> QED
          BY <4>2, <5>1 DEF ToSet
      <4>5. p \in DOMAIN w.conns /\ p # m /\ w.conns[p].game = g
        BY <1>4, <4>2, <4>4 DEF Agree
      <4>6. PICK v : v = Send(LeaveGame(w, p), p, "push", Nowhere)
        OBVIOUS
      <4>7. AtHome(w, v) /\ AllTold(v, {}) /\ \A x \in DOMAIN w.conns \ {p} : v.conns[x] = w.conns[x]
        BY <4>1, <4>5, <4>6, KickTells
      <4>8. away = v
        BY <1>1, <3>2, <4>3, <4>6
      <4> QED
        BY <4>5, <4>7, <4>8 DEF AtHome, Stays
    <3> QED
      BY <3>1, <3>2
  <2>2. g \in DOMAIN away.games
    <3>1. g # 0
      BY <1>4, WorldHas DEF Linked, Wired
    <3> QED
      BY <2>1, <3>1 DEF Agree
  <2>3. AllTold(SaidOfGame(away, m, g), {})
    BY <2>1, <2>2, SaidOfGameTells
  <2> HIDE DEF g
  <2> QED
    BY <1>2, <1>4, <2>3
<1>5. CASE g \in DOMAIN w.games /\ ~ (hosts /\ req.kind = "kick") /\ hosts /\ req.kind = "lock"
  <2>1. AtHome(w, locked) /\ DOMAIN locked.games = DOMAIN w.games /\ AllTold(locked, {}) /\ locked.conns = w.conns
    BY <1>1, <1>5, LockDoes, LockTells
  <2>2. AllTold(SendGame(SaidOfGame(locked, m, g), g), {})
    BY <1>5, <2>1, SaidOfGameTells DEF AtHome
  <2> QED
    BY <1>2, <1>5, <2>2
<1>6. CASE g \in DOMAIN w.games /\ ~ (hosts /\ req.kind = "kick") /\ ~ (hosts /\ req.kind = "lock")
  <2>1. AllTold(SendGame(SaidOfGame(w, m, g), g), {})
    BY <1>6, SaidOfGameTells
  <2> QED
    BY <1>2, <1>6, <2>1
<1> QED
  BY <1>3, <1>4, <1>5, <1>6

-----------------------------------------------------------------------------
(* What is put on the links *)

\* A message to a host: whoever it is about is settled by it, or is as it was.
LEMMA PutsSame ==
  ASSUME NEW w, NEW v, Linked(w), NEW l, NEW x \in Message, Puts(w, v, l, x), v.links = w.links, v.told = w.told,
         \A k \in DOMAIN w.links : v.wire[k].back = w.wire[k].back,
         \A c \in Clients \cap DOMAIN v.conns :
           \/ v.conns[c].remote = 0
           \/ c \in DOMAIN w.conns /\ v.conns[c].remote = w.conns[c].remote
           \/ v.conns[c].remote = l /\ Settles(x, Id[c]),
         NEW m \in DOMAIN w.conns
  PROVE  KnowsSame(w, v, m)
<1>1. CASE m \in Clients
  BY <1>1 DEF KnowsSame
<1>2. CASE m \notin Clients
  <2>1. m[1] # 0 /\ m[1] \in DOMAIN w.links
    BY <1>2, WorldHas, PeopleAre DEF Linked, Wired
  <2>2. PICK out, k, id : out \in Seq(Message) /\ out = w.wire[m[1]].out /\ k = m[1] /\ id = m[2]
    BY <2>1, OnItsWay
  <2>3. v.wire[k].out = IF k = l /\ ~ w.links[k].broken THEN Append(out, x) ELSE out
    BY <2>1, <2>2 DEF Puts
  <2>4. Unsettled(Append(out, x), id) => Unsettled(out, id) /\ ~ Settles(x, id)
    <3>1. Len(Append(out, x)) = Len(out) + 1 /\ Append(out, x)[Len(out) + 1] = x /\ Len(out) \in Nat
          /\ \A j \in 1 .. Len(out) : Append(out, x)[j] = out[j]
      <4> HIDE DEF Message
      <4> QED
        OBVIOUS
    <3>2. PICK all, n : all = Append(out, x) /\ n = Len(out)
      OBVIOUS
    <3>3. Len(all) = n + 1 /\ all[n + 1] = x /\ n \in Nat /\ \A j \in 1 .. n : all[j] = out[j]
      BY <3>1, <3>2
    <3>4. n + 1 \in 1 .. n + 1 /\ \A j \in 1 .. n : j \in 1 .. n + 1
      BY <3>3
    <3>5. Unsettled(all, id) => Unsettled(out, id) /\ ~ Settles(x, id)
      BY <3>2, <3>3, <3>4 DEF Unsettled
    <3> QED
      BY <3>2, <3>5
  <2>5. SUFFICES ASSUME Stands(v, m)
                 PROVE  /\ Stands(w, m) /\ v.wire[m[1]].back = w.wire[m[1]].back
                        /\ \A c \in PlaysFor(v, m) : c \in PlaysFor(w, m) /\ v.told[c] = w.told[c]
    BY <1>2 DEF KnowsSame
  <2>6. ~ w.links[k].broken /\ Unsettled(v.wire[k].out, id)
    BY <2>2, <2>5 DEF Stands
  <2>7. Unsettled(out, id) /\ (k = l => ~ Settles(x, id))
    <3>1. CASE k = l
      BY <2>3, <2>4, <2>6, <3>1
    <3>2. CASE k # l
      BY <2>3, <2>6, <3>2
    <3> QED
      BY <3>1, <3>2
  <2>8. Stands(w, m)
    BY <2>2, <2>6, <2>7 DEF Stands
  <2>9. \A c \in PlaysFor(v, m) : c \in PlaysFor(w, m)
    <3>1. SUFFICES ASSUME NEW c \in PlaysFor(v, m) PROVE c \in PlaysFor(w, m)
      OBVIOUS
    <3>2. c \in Clients \cap DOMAIN v.conns /\ At[c] = w.links[k].from /\ v.conns[c].remote = k /\ Id[c] = id
      BY <2>2, <3>1 DEF PlaysFor
    <3>3. c \in DOMAIN w.conns /\ w.conns[c].remote = k
      BY <2>1, <2>2, <2>7, <3>2
    <3> QED
      BY <2>2, <3>2, <3>3 DEF PlaysFor
  <2> QED
    BY <2>1, <2>8, <2>9
<1> QED
  BY <1>1, <1>2

\* What a client's server passes on for one of its players changes nobody's mind.
LEMMA PassesTells ==
  ASSUME NEW w, Linked(w), Agree(w), NEW v, NEW m \in DOMAIN w.conns, NEW n \in {0, w.conns[m].remote},
         OwnEnd(w, v, m), Placed(w, v, m, w.conns[m].game, n), NEW x \in Message, Puts(w, v, w.conns[m].remote, x),
         NEW D, AllTold(w, D)
  PROVE  AllTold(v, D)
<1>1. SUFFICES ASSUME NEW y \in DOMAIN v.conns, y \notin D PROVE ~ InDoubt(v, y)
  BY DEF AllTold
<1>2. y \in DOMAIN w.conns /\ ~ InDoubt(w, y) /\ v.conns[y].game = w.conns[y].game
  BY <1>1 DEF AllTold, Placed
<1>3. v.links = w.links /\ v.told = w.told /\ v.held = w.held /\ v.games = w.games
      /\ \A k \in DOMAIN w.links : v.wire[k].back = w.wire[k].back
  BY DEF OwnEnd
<1>4. DOMAIN v.conns = DOMAIN w.conns
      /\ \A c \in DOMAIN v.conns : v.conns[c].remote \in {0, w.conns[c].remote} /\ v.conns[c].user = w.conns[c].user
  BY DEF Placed
<1>5. KnowsSame(w, v, y)
  BY <1>2, <1>3, <1>4, PutsSame
<1>6. v.conns[y].game # 0 => GameRecord(v, v.conns[y].game) = GameRecord(w, v.conns[y].game)
  <2>1. SUFFICES ASSUME v.conns[y].game # 0 PROVE GameRecord(v, v.conns[y].game) = GameRecord(w, v.conns[y].game)
    OBVIOUS
  <2>2. v.conns[y].game \in DOMAIN w.games
    BY <1>2, <2>1 DEF Agree
  <2> QED
    BY <1>3, <1>4, <2>2, RecordsStay
<1> QED
  BY <1>2, <1>3, <1>5, <1>6, SureStill

LEMMA DropRemoteTells ==
  ASSUME NEW w, Linked(w), Agree(w), NEW m \in DOMAIN w.conns, NEW D, AllTold(w, D)
  PROVE  AllTold(DropRemote(w, m), D)
<1>1. PICK v, x : v = DropRemote(w, m) /\ x = Xlea(w, m)
  OBVIOUS
<1>2. OwnEnd(w, v, m) /\ Placed(w, v, m, w.conns[m].game, 0) /\ Puts(w, v, w.conns[m].remote, x)
  BY <1>1, DropRemoteDoes
<1>3. x \in Message
  BY <1>1, MessagesAre DEF Linked, Wired
<1> QED
  BY <1>1, <1>2, <1>3, PassesTells

\* A new link has nobody on it.
LEMMA GrownTells ==
  ASSUME NEW w, Linked(w), Agree(w), NEW v, NEW s, NEW t, Grown(w, v, s, t), NEW D, AllTold(w, D)
  PROVE  AllTold(v, D)
<1>1. SUFFICES ASSUME NEW y \in DOMAIN v.conns, y \notin D PROVE ~ InDoubt(v, y)
  BY DEF AllTold
<1>2. /\ v.conns = w.conns /\ v.games = w.games /\ v.held = w.held /\ v.told = w.told
      /\ \A l \in DOMAIN w.links : v.links[l] = w.links[l] /\ v.wire[l] = w.wire[l]
  BY DEF Grown
<1>3. y \in DOMAIN w.conns /\ ~ InDoubt(w, y)
  BY <1>1, <1>2 DEF AllTold
<1>4. y \notin Clients => y[1] \in DOMAIN w.links
  BY <1>3 DEF Linked
<1>5. KnowsSame(w, v, y)
  BY <1>2, <1>4 DEF KnowsSame, Stands, PlaysFor
<1>6. v.conns[y].game # 0 => GameRecord(v, v.conns[y].game) = GameRecord(w, v.conns[y].game)
  BY <1>2, RecordOf
<1> QED
  BY <1>2, <1>3, <1>5, <1>6, SureStill

\* Who joins is in no game, and nothing is known of it at its new host before it is
\* asked for.
LEMMA AskedTells ==
  ASSUME NEW w, Linked(w), Agree(w), NEW v, NEW m \in DOMAIN w.conns, NEW l, Placed(w, v, m, 0, l),
         NEW x \in Message, x.kind = "xjoi", x.id = IdOf(m), Puts(w, v, l, x),
         v.links = w.links, v.told = w.told, v.held = w.held, v.games = w.games,
         \A k \in DOMAIN w.links : v.wire[k].back = w.wire[k].back,
         w.conns[m].game = 0, NEW D, AllTold(w, D)
  PROVE  AllTold(v, D)
<1>1. SUFFICES ASSUME NEW y \in DOMAIN v.conns, y \notin D PROVE ~ InDoubt(v, y)
  BY DEF AllTold
<1>2. y \in DOMAIN w.conns /\ ~ InDoubt(w, y) /\ v.conns[y].game = w.conns[y].game
  BY <1>1 DEF AllTold, Placed
<1>3. DOMAIN v.conns = DOMAIN w.conns /\ v.conns[m].remote = l
      /\ \A c \in DOMAIN v.conns : v.conns[c].user = w.conns[c].user /\ (c # m => v.conns[c].remote = w.conns[c].remote)
  BY DEF Placed
<1>4. m \in Clients => Settles(x, Id[m])
  BY DEF Settles, IdOf
<1>5. KnowsSame(w, v, y)
  BY <1>2, <1>3, <1>4, PutsSame
<1>6. v.conns[y].game # 0 => GameRecord(v, v.conns[y].game) = GameRecord(w, v.conns[y].game)
  <2>1. SUFFICES ASSUME v.conns[y].game # 0 PROVE GameRecord(v, v.conns[y].game) = GameRecord(w, v.conns[y].game)
    OBVIOUS
  <2>2. v.conns[y].game \in DOMAIN w.games
    BY <1>2, <2>1 DEF Agree
  <2> QED
    BY <1>3, <2>2, RecordsStay
<1> QED
  BY <1>2, <1>5, <1>6, SureStill

LEMMA JoinRemoteTells ==
  ASSUME NEW w, NEW m \in DOMAIN w.conns, Linked(w), Agree(w), w.conns[m].remote = 0,
         ServerOf(w, m) \in Servers, NEW t \in Servers, NEW reachable,
         CanLink(w, ServerOf(w, m), t, reachable), NEW req \in Requests, AllTold(w, {})
  PROVE  AllTold(JoinRemote(w, m, t, req), {})
<1>1. PICK s : s = ServerOf(w, m)
  OBVIOUS
<1>2. PICK linked : linked = LinkTo(w, s, t)
  OBVIOUS
<1>3. PICK l : l = CHOOSE k \in LinksTo(linked, s, t) : TRUE
  OBVIOUS
<1>4. PICK dropped : dropped = DropRemote(linked, m)
  OBVIOUS
<1>5. PICK out : out = LeaveGame(dropped, m)
  OBVIOUS
<1>6. PICK left : left = OnLink(out, m, l)
  OBVIOUS
<1>7. PICK x : x = Xjoi(w, m, req)
  OBVIOUS
<1>8. PICK asked : asked = Put(left, l, "out", x)
  OBVIOUS
<1>9. PICK v : v = Owes(asked, m, {"join"})
  OBVIOUS
<1>10. JoinRemote(w, m, t, req) = v
  BY <1>1, <1>2, <1>3, <1>4, <1>5, <1>6, <1>7, <1>8, <1>9 DEF JoinRemote, Xjoi, OnLink
<1>11. Grown(w, linked, s, t) /\ LinksTo(linked, s, t) # {}
  <2>1. s \in Servers /\ CanLink(w, s, t, reachable) /\ Wired(w)
    BY <1>1 DEF Linked
  <2> QED
    BY <1>2, <2>1, LinkToDoes
<1>12. Linked(linked) /\ Agree(linked) /\ linked.conns = w.conns
  BY <1>11 DEF Grown, Linked, Agree
<1>13. AllTold(linked, {})
  BY <1>11, GrownTells
<1>14. l \in DOMAIN linked.links
  BY <1>3, <1>11 DEF LinksTo
<1>15. /\ Linked(dropped) /\ OwnEnd(linked, dropped, m) /\ Placed(linked, dropped, m, linked.conns[m].game, 0)
  BY <1>4, <1>12, DropRemoteDoes
<1>16. Agree(dropped) /\ m \in DOMAIN dropped.conns /\ dropped.links = linked.links
  BY <1>12, <1>15 DEF Agree, Placed, OwnEnd
<1>17. AllTold(dropped, {})
  BY <1>4, <1>12, <1>13, DropRemoteTells
<1>18. AtHome(dropped, out) /\ Left(dropped, out, m)
  BY <1>5, <1>15, <1>16, LeaveIsAtHome
<1>19. AllTold(out, {})
  <2>1. AllTold(out, {} \ {m})
    BY <1>5, <1>15, <1>16, <1>17, LeaveTells
  <2> QED
    BY <2>1
<1>20. Linked(out) /\ Agree(out) /\ out.links = linked.links /\ m \in DOMAIN out.conns /\ out \in Worlds /\ out.conns[m].game = 0
  BY <1>16, <1>18 DEF AtHome, Left, Stays, Linked, Wired
<1>21. ButConns(out, left) /\ Placed(out, left, m, 0, l)
  <2>1. l \in 0 .. MaxLinks
    <3>1. l \in 1 .. MaxLinks
      BY <1>12, <1>14, WiredHas DEF Linked
    <3> QED
      BY <3>1
  <2> QED
    BY <1>6, <1>20, <2>1, OnLinkDoes
<1>22. Wired(left) /\ l \in DOMAIN left.links
  BY <1>14, <1>20, <1>21 DEF ButConns, Linked, Wired
<1>23. x \in Message /\ x.kind = "xjoi" /\ x.id = IdOf(m)
  <2>1. x \in Message
    BY <1>7, MessagesAre DEF Linked, Wired
  <2> QED
    BY <1>7, <2>1 DEF Xjoi
<1>24. PutOut(left, asked, l, x)
  BY <1>8, <1>22, <1>23, PutDoes
<1>25. ButOwed(asked, v)
  BY <1>9, <1>24, OwesDoes DEF PutOut, ButWire, Owed
<1>26. /\ v.conns = left.conns /\ v.links = out.links /\ v.told = out.told /\ v.held = out.held /\ v.games = out.games
       /\ v.wire = asked.wire /\ left.wire = out.wire /\ left.links = out.links
  BY <1>21, <1>24, <1>25 DEF ButConns, PutOut, ButWire, ButOwed
<1>27. Placed(out, v, m, 0, l)
  BY <1>21, <1>26 DEF Placed
<1>28. Puts(out, v, l, x) /\ \A k \in DOMAIN out.links : v.wire[k].back = out.wire[k].back
  BY <1>24, <1>26 DEF PutOut, Puts
<1>29. AllTold(v, {})
  BY <1>19, <1>20, <1>23, <1>26, <1>27, <1>28, AskedTells
<1> QED
  BY <1>10, <1>29

-----------------------------------------------------------------------------
(* Requests *)

LEMMA RefusedTells ==
  ASSUME NEW w, Linked(w), NEW m \in DOMAIN w.conns, w.conns[m].remote = 0,
         NEW a \in {"join", "play", "leave", "push"}, NEW D, AllTold(w, D)
  PROVE  AllTold(Send(w, m, a, NoRecord), D)
<1>1. PICK r : r = NoRecord
  OBVIOUS
<1>2. r \in Records
  BY <1>1, RecordsHave
<1>3. PICK v : v = Send(w, m, a, r)
  OBVIOUS
<1>4. AllTold(v, D)
  BY <1>1, <1>2, <1>3, SendTells
<1> QED
  BY <1>1, <1>3, <1>4

LEMMA PassedOnTells ==
  ASSUME NEW w, Linked(w), Agree(w), NEW m \in DOMAIN w.conns, w.conns[m].remote = 0,
         KnownOK, NEW t \in Heard(ServerOf(w, m)), NEW reachable,
         CanLink(w, ServerOf(w, m), t, reachable), NEW req \in Requests, AllTold(w, {})
  PROVE  AllTold(JoinRemote(w, m, t, req), {})
<1>1. PICK s : s = ServerOf(w, m)
  OBVIOUS
<1>2. s \in Servers /\ t \in Servers
  BY <1>1, ServerIs DEF KnownOK
<1> QED
  BY <1>1, <1>2, JoinRemoteTells

LEMMA GjoiTells ==
  ASSUME NEW w, Linked(w), Agree(w), NEW m \in DOMAIN w.conns, w.conns[m].remote = 0,
         KnownOK, NEW req \in Requests, NEW reachable, AllTold(w, {})
  PROVE  AllTold(Gjoi(w, m, req, reachable), {})
<1>1. PICK s, g : s = ServerOf(w, m) /\ g = req.arg
  OBVIOUS
<1>2. PICK v : v = Gjoi(w, m, req, reachable)
  OBVIOUS
<1>3. PICK refused : refused = Send(w, m, "join", NoRecord)
  OBVIOUS
<1>4. AllTold(refused, {})
  BY <1>3, RefusedTells
<1>5. CASE g \in OwnGames(w, s)
  <2>1. g \in DOMAIN w.games
    BY <1>5 DEF OwnGames
  <2>2. PICK u : u = TakeSeat(w, m, g)
    OBVIOUS
  <2>3. AllTold(u, {})
    BY <2>1, <2>2, TakeSeatTells
  <2>4. v = refused \/ v = u
    BY <1>1, <1>2, <1>3, <1>5, <2>2 DEF Gjoi
  <2> QED
    BY <1>2, <1>4, <2>3, <2>4
<1>6. CASE g \notin OwnGames(w, s) /\ g \in DOMAIN known[s] /\ CanLink(w, s, known[s][g].server, reachable)
  <2>1. PICK t : t = known[s][g].server
    OBVIOUS
  <2>2. v = JoinRemote(w, m, t, req)
    BY <1>1, <1>2, <1>6, <2>1 DEF Gjoi
  <2>3. t \in Heard(s) /\ CanLink(w, s, t, reachable)
    BY <1>6, <2>1 DEF Heard
  <2> QED
    BY <1>1, <1>2, <2>2, <2>3, PassedOnTells
<1>7. CASE g \notin OwnGames(w, s) /\ ~ (g \in DOMAIN known[s] /\ CanLink(w, s, known[s][g].server, reachable))
  <2>1. v = refused
    BY <1>1, <1>2, <1>3, <1>7 DEF Gjoi
  <2> QED
    BY <1>2, <1>4, <2>1
<1> QED
  BY <1>5, <1>6, <1>7

LEMMA GqwkTells ==
  ASSUME NEW w, Linked(w), Agree(w), NEW m \in DOMAIN w.conns, w.conns[m].remote = 0,
         KnownOK, NEW req \in Requests, NEW reachable, AllTold(w, {})
  PROVE  AllTold(Gqwk(w, m, req, reachable), {})
<1>1. PICK s : s = ServerOf(w, m)
  OBVIOUS
<1>2. PICK open : open = {g \in OwnGames(w, s) \ {w.conns[m].game} :
                            ~w.games[g].locked /\ Len(w.games[g].players) < MaxSize}
  OBVIOUS
<1>3. PICK elsewhere :
        elsewhere = {g \in DOMAIN known[s] : known[s][g].open /\ CanLink(w, s, known[s][g].server, reachable)}
  OBVIOUS
<1>4. PICK v : v = Gqwk(w, m, req, reachable)
  OBVIOUS
<1>5. v = IF open # {} THEN TakeSeat(w, m, Min(open))
          ELSE IF elsewhere # {} THEN JoinRemote(w, m, known[s][Min(elsewhere)].server, req)
          ELSE Send(w, m, "join", NoRecord)
  BY <1>1, <1>2, <1>3, <1>4 DEF Gqwk
<1>6. open \subseteq DOMAIN w.games /\ DOMAIN w.games \subseteq Nat
  <2>1. DOMAIN w.games \subseteq 1 .. MaxGames
    BY WorldHas DEF Linked, Wired
  <2> QED
    BY <1>2, <2>1 DEF OwnGames
<1>7. elsewhere \subseteq Nat
  BY <1>1, <1>3, ServerIs DEF KnownOK
<1>8. CASE open # {}
  <2>1. PICK g : g = Min(open)
    OBVIOUS
  <2>2. g \in DOMAIN w.games
    BY <1>6, <1>8, <2>1, MinOf
  <2>3. v = TakeSeat(w, m, g)
    BY <1>5, <1>8, <2>1
  <2> QED
    BY <1>4, <2>2, <2>3, TakeSeatTells
<1>9. CASE open = {} /\ elsewhere # {}
  <2>1. PICK g, t : g = Min(elsewhere) /\ t = known[s][g].server
    OBVIOUS
  <2>2. g \in elsewhere
    BY <1>7, <1>9, <2>1, MinOf
  <2>3. t \in Heard(s) /\ CanLink(w, s, t, reachable)
    BY <1>3, <2>1, <2>2 DEF Heard
  <2>4. v = JoinRemote(w, m, t, req)
    BY <1>5, <1>9, <2>1
  <2> QED
    BY <1>1, <1>4, <2>3, <2>4, PassedOnTells
<1>10. CASE open = {} /\ elsewhere = {}
  <2>1. v = Send(w, m, "join", NoRecord)
    BY <1>5, <1>10
  <2> QED
    BY <1>4, <2>1, RefusedTells
<1> QED
  BY <1>8, <1>9, <1>10

\* A request is handled, or passed on.
LEMMA HandleLobbyTells ==
  ASSUME NEW w, Linked(w), Agree(w), NEW m \in DOMAIN w.conns, KnownOK, NEW req \in Requests, NEW reachable,
         NEW D, AllTold(w, D), D = {} \/ (D = {m} /\ Answers(req) = "leave")
  PROVE  AllTold(HandleLobby(w, m, req, reachable), {})
<1> DEFINE away == w.conns[m].remote # 0
           joins == req.kind \in {"gjoi", "gqwk"}
<1>1. PICK here : here = IF away /\ joins THEN DropRemote(w, m) ELSE w
  OBVIOUS
<1>2. joins <=> Answers(req) = "join"
  BY DEF Answers
<1>3. PICK v : v = HandleLobby(w, m, req, reachable)
  OBVIOUS
<1>4. CASE away /\ ~ joins
  <2>1. Forwarded(w, v, m, req)
    BY <1>2, <1>3, <1>4, ForwardedIs
  <2>2. PICK n, x : n = (IF Answers(req) = "leave" THEN 0 ELSE w.conns[m].remote) /\ x = Xfwd(w, m, req)
    OBVIOUS
  <2>3. OwnEnd(w, v, m) /\ Placed(w, v, m, w.conns[m].game, n) /\ Puts(w, v, w.conns[m].remote, x)
    BY <2>1, <2>2 DEF Forwarded
  <2>4. x \in Message /\ n \in {0, w.conns[m].remote}
    BY <2>2, MessagesAre DEF Linked, Wired
  <2>5. \A y \in D \ {} : y \in DOMAIN w.conns => w.conns[y].game = 0 \/ w.conns[y].game \in ToSet(w.held)
    BY <1>4 DEF Agree
  <2>6. AllTold(w, {})
    BY <2>5, NoneBut
  <2>7. AllTold(v, {})
    BY <2>3, <2>4, <2>6, PassesTells
  <2> QED
    BY <1>3, <2>7
<1>5. CASE ~ (away /\ ~ joins)
  <2>1. v = IF req.kind = "gjoi" THEN Gjoi(here, m, req, reachable)
            ELSE IF req.kind = "gqwk" THEN Gqwk(here, m, req, reachable)
            ELSE IF Answers(req) = "leave" THEN Leave(here, m, req) ELSE Gset(here, m, req)
    BY <1>1, <1>3, <1>5 DEF HandleLobby
  <2>2. Linked(here) /\ Agree(here) /\ m \in DOMAIN here.conns /\ here.conns[m].remote = 0 /\ AllTold(here, D)
    <3>1. CASE away
      <4>1. here = DropRemote(w, m)
        BY <1>1, <1>5, <3>1
      <4>2. Linked(here) /\ OwnEnd(w, here, m) /\ Placed(w, here, m, w.conns[m].game, 0)
        BY <4>1, DropRemoteDoes
      <4>3. Agree(here)
        BY <4>2 DEF Agree, Placed, OwnEnd
      <4>4. AllTold(here, D)
        BY <4>1, DropRemoteTells
      <4> QED
        BY <4>2, <4>3, <4>4 DEF Placed
    <3>2. CASE ~ away
      <4>1. here = w
        BY <1>1, <3>2
      <4> QED
        BY <3>2, <4>1
    <3> QED
      BY <3>1, <3>2
  <2>3. CASE Answers(req) # "leave"
    <3>1. AllTold(here, {})
      BY <2>2, <2>3
    <3>2. CASE req.kind = "gjoi"
      BY <1>3, <2>1, <2>2, <3>1, <3>2, GjoiTells
    <3>3. CASE req.kind = "gqwk"
      BY <1>3, <2>1, <2>2, <3>1, <3>3, GqwkTells
    <3>4. CASE req.kind \notin {"gjoi", "gqwk"}
      BY <1>3, <2>1, <2>2, <2>3, <3>1, <3>4, GsetTells
    <3> QED
      BY <3>2, <3>3, <3>4
  <2>4. CASE Answers(req) = "leave"
    <3>1. AllTold(here, {m})
      BY <2>2 DEF AllTold
    <3>2. v = Leave(here, m, req)
      BY <2>1, <2>4 DEF Answers
    <3> QED
      BY <1>3, <2>2, <3>1, <3>2, LeavesTells
  <2> QED
    BY <2>3, <2>4
<1> QED
  BY <1>4, <1>5

\* So it is of a player who came by a link, which may go then.
LEMMA RunTells ==
  ASSUME NEW w, Well(w), NEW m \in DOMAIN w.conns, KnownOK, NEW req \in Requests, NEW reachable,
         NEW D, AllTold(w, D), D = {} \/ (D = {m} /\ Answers(req) = "leave")
  PROVE  AllTold(Run(w, m, req, reachable), {})
<1>1. PICK u, v : u = HandleLobby(w, m, req, reachable) /\ v = Run(w, m, req, reachable)
  OBVIOUS
<1>2. Linked(w) /\ Agree(w)
  BY DEF Well
<1>3. AllTold(u, {})
  BY <1>1, <1>2, HandleLobbyTells
<1>4. Ran(w, u, m, req) /\ (Answers(req) = "leave" => u.conns[m].game = 0)
  BY <1>1, <1>2, HandleLobbyDoes
<1>5. Linked(u) /\ Agree(u)
  BY <1>4, RanWell DEF Well
<1>6. CASE Answers(req) = "leave"
  <2>1. v = Gone(u, m)
    BY <1>1, <1>6 DEF Run, Gone
  <2>2. AllTold(v, {})
    BY <1>3, <1>4, <1>5, <1>6, <2>1, GoneTells
  <2> QED
    BY <1>1, <2>2
<1>7. CASE Answers(req) # "leave"
  <2>1. v = u
    BY <1>1, <1>7 DEF Run
  <2> QED
    BY <1>1, <1>3, <2>1
<1> QED
  BY <1>6, <1>7

-----------------------------------------------------------------------------
(* Links that end *)

LEMMA RemoveAllTells ==
  ASSUME NEW w, Linked(w), Agree(w), NEW list \in Seq(People), AllTold(w, {})
  PROVE  AllTold(RemoveAll(w, list), {})
<1> DEFINE W == {v \in Worlds : Linked(v) /\ Agree(v) /\ AllTold(v, {})}
<1>1. w \in W
  BY DEF Linked, Wired
<1>2. ASSUME NEW v \in W, NEW p \in ToSet(list) PROVE RemovePlayer(v, p) \in W
  <2>1. PICK u : u = RemovePlayer(v, p)
    OBVIOUS
  <2>2. Linked(u) /\ Agree(u)
    BY <2>1, RemovePlayerDoes
  <2>3. AllTold(u, {})
    <3>1. AllTold(u, {} \ {p})
      BY <2>1, RemovePlayerTells
    <3> QED
      BY <3>1
  <2>4. u \in Worlds
    BY <2>2 DEF Linked, Wired
  <2> QED
    BY <2>1, <2>2, <2>3, <2>4
<1>3. \A v \in W : AllTold(v, {})
  OBVIOUS
<1> HIDE DEF W
<1>4. PICK f \in [0 .. Len(list) -> W] : RemoveAll(w, list) = f[Len(list)]
  BY <1>1, <1>2, RemoveGoes
<1>5. Len(list) \in 0 .. Len(list)
  <2>1. Len(list) \in Nat
    OBVIOUS
  <2> QED
    BY <2>1
<1> QED
  BY <1>3, <1>4, <1>5

\* Who is told that its game is gone plays for nobody any more.
LEMMA GameIsGoneTells ==
  ASSUME NEW w, Linked(w), Agree(w), NEW c \in Clients \cap DOMAIN w.conns, w.conns[c].game = 0, AllTold(w, {})
  PROVE  AllTold(GameIsGone(w, c), {})
<1>1. PICK u : u = Deliver(w, c, "push", Nowhere)
  OBVIOUS
<1>2. PICK v : v = GameIsGone(w, c)
  OBVIOUS
<1>3. Delivered(w, u, c, "push", Nowhere)
  BY <1>1, RecordsHave, DeliverDoes DEF Linked, Wired
<1>4. v.told = u.told
  BY <1>1, <1>2 DEF GameIsGone
<1>5. Freed(w, v, {c}) /\ Linked(v)
  BY <1>2, GameIsGoneDoes
<1>6. \A x \in Clients \ {c} : v.told[x] = w.told[x]
  BY <1>3, <1>4 DEF Delivered
<1>7. SUFFICES ASSUME NEW y \in DOMAIN v.conns PROVE ~ InDoubt(v, y)
  BY <1>2 DEF AllTold
<1>8. y \in DOMAIN w.conns /\ ~ InDoubt(w, y) /\ v.conns[y].game = w.conns[y].game
  BY <1>5, <1>7 DEF AllTold, Freed
<1>9. CASE y = c
  BY <1>8, <1>9 DEF InDoubt
<1>10. CASE y # c
  <2>1. v.links = w.links /\ v.wire = w.wire /\ v.held = w.held /\ v.games = w.games
        /\ DOMAIN v.conns = DOMAIN w.conns
    BY <1>5 DEF Freed
  <2>2. y \notin Clients => y[1] # 0
    BY <1>8, WiredHas DEF Linked
  <2>3. KnowsSame(w, v, y)
    <3>1. y \in Clients => v.told[y] = w.told[y]
      BY <1>6, <1>10
    <3>2. Stands(v, y) => Stands(w, y)
      BY <2>1 DEF Stands
    <3>3. ASSUME y \notin Clients, NEW d \in PlaysFor(v, y) PROVE d \in PlaysFor(w, y) /\ v.told[d] = w.told[d]
      <4>1. d \in Clients \cap DOMAIN v.conns /\ At[d] = v.links[y[1]].from /\ v.conns[d].remote = y[1] /\ Id[d] = y[2]
        BY <3>3 DEF PlaysFor
      <4>2. d # c /\ v.conns[d].remote = w.conns[d].remote
        BY <1>5, <2>1, <2>2, <3>3, <4>1 DEF Freed
      <4> QED
        BY <1>6, <2>1, <4>1, <4>2 DEF PlaysFor
    <3> QED
      BY <2>1, <3>1, <3>2, <3>3 DEF KnowsSame
  <2>4. v.conns[y].game # 0 => GameRecord(v, v.conns[y].game) = GameRecord(w, v.conns[y].game)
    <3>1. SUFFICES ASSUME v.conns[y].game # 0 PROVE GameRecord(v, v.conns[y].game) = GameRecord(w, v.conns[y].game)
      OBVIOUS
    <3>2. v.conns[y].game \in DOMAIN w.games
      BY <1>8, <3>1 DEF Agree
    <3>3. \A x \in DOMAIN w.conns : x \in DOMAIN v.conns /\ v.conns[x].user = w.conns[x].user
      BY <1>5 DEF Freed
    <3> QED
      BY <2>1, <3>2, <3>3, RecordsStay
  <2> QED
    BY <1>8, <2>1, <2>3, <2>4, SureStill
<1> QED
  BY <1>9, <1>10

LEMMA GoneAllTells ==
  ASSUME NEW w, Linked(w), Agree(w), NEW list \in Seq(Clients), AllTold(w, {}),
         \A c \in ToSet(list) : c \in DOMAIN w.conns /\ w.conns[c].game = 0
  PROVE  AllTold(GoneAll(w, list), {})
<1> DEFINE W == {v \in Worlds : /\ Linked(v) /\ Agree(v) /\ AllTold(v, {})
                                /\ \A c \in ToSet(list) : c \in DOMAIN v.conns /\ v.conns[c].game = 0}
<1>1. w \in W
  BY DEF Linked, Wired
<1>2. ToSet(list) \subseteq Clients
  <2>1. DOMAIN list = 1 .. Len(list)
    OBVIOUS
  <2> QED
    BY <2>1 DEF ToSet
<1>3. ASSUME NEW v \in W, NEW p \in ToSet(list) PROVE GameIsGone(v, p) \in W
  <2>1. PICK u : u = GameIsGone(v, p)
    OBVIOUS
  <2>2. p \in Clients \cap DOMAIN v.conns /\ v.conns[p].game = 0
    BY <1>2
  <2>3. Linked(u) /\ Agree(u) /\ Freed(v, u, {p})
    BY <2>1, <2>2, GameIsGoneDoes
  <2>4. u \in Worlds
    BY <2>3 DEF Linked, Wired
  <2>5. AllTold(u, {})
    BY <2>1, <2>2, GameIsGoneTells
  <2>6. \A c \in ToSet(list) : c \in DOMAIN u.conns /\ u.conns[c].game = 0
    BY <2>3 DEF Freed
  <2> QED
    BY <2>1, <2>3, <2>4, <2>5, <2>6
<1>4. \A v \in W : AllTold(v, {})
  OBVIOUS
<1> HIDE DEF W
<1>5. PICK f \in [0 .. Len(list) -> W] : GoneAll(w, list) = f[Len(list)]
  BY <1>1, <1>3, TellsGoes
<1>6. Len(list) \in 0 .. Len(list)
  <2>1. Len(list) \in Nat
    OBVIOUS
  <2> QED
    BY <2>1
<1> QED
  BY <1>4, <1>5, <1>6

\* What the ends of links know of them is known to no player.
LEMMA RelinkedTells ==
  ASSUME NEW w, NEW v, v.conns = w.conns, v.games = w.games, v.held = w.held, v.told = w.told, Linked(w),
         \A k \in DOMAIN w.links : /\ v.links[k].from = w.links[k].from
                                   /\ ~ v.links[k].broken => ~ w.links[k].broken /\ v.wire[k] = w.wire[k],
         NEW D, AllTold(w, D)
  PROVE  AllTold(v, D)
<1>1. SUFFICES ASSUME NEW y \in DOMAIN v.conns, y \notin D PROVE ~ InDoubt(v, y)
  BY DEF AllTold
<1>2. y \in DOMAIN w.conns /\ ~ InDoubt(w, y)
  BY <1>1 DEF AllTold
<1>3. y \notin Clients => y[1] \in DOMAIN w.links
  BY <1>2 DEF Linked
<1>4. KnowsSame(w, v, y)
  BY <1>3 DEF KnowsSame, Stands, PlaysFor
<1>5. v.conns[y].game # 0 => GameRecord(v, v.conns[y].game) = GameRecord(w, v.conns[y].game)
  BY RecordOf
<1> QED
  BY <1>2, <1>4, <1>5, SureStill

LEMMA LinkLeftTells ==
  ASSUME NEW w, Well(w), NEW l \in DOMAIN w.links, NEW s \in DOMAIN w.links[l].ends, AllTold(w, {})
  PROVE  AllTold(LinkLeft(w, l, s), {})
<1> DEFINE came == {m \in DOMAIN w.conns \ Clients : m[1] = l /\ w.links[l].to = s}
           went == {c \in Clients \cap DOMAIN w.conns : At[c] = s /\ w.conns[c].remote = l}
<1>1. PICK u, x, v : /\ u = SetEnd(w, l, s, "gone")
                     /\ x = RemoveAll(u, SetToSeq(came))
                     /\ v = GoneAll(x, SetToSeq(went))
  OBVIOUS
<1>2. v = LinkLeft(w, l, s)
  BY <1>1 DEF LinkLeft
<1>3. /\ ButLinks(w, u) /\ Linked(u) /\ Agree(u)
      /\ \A k \in DOMAIN w.links \ {l} : u.links[k] = w.links[k]
      /\ u.links[l].from = w.links[l].from /\ u.links[l].broken = w.links[l].broken
  <2>1. PICK e \in {"up", "closed", "gone"} : e = "gone"
    OBVIOUS
  <2>2. u = SetEnd(w, l, s, e) /\ Linked(w) /\ Agree(w)
    BY <1>1, <2>1 DEF Well
  <2>3. Ended(w, u, l, s, e)
    BY <2>2, SetEndDoes
  <2> QED
    BY <2>3 DEF Ended
<1>4. AllTold(u, {})
  <2>1. \A k \in DOMAIN w.links : u.links[k].from = w.links[k].from /\ u.links[k].broken = w.links[k].broken
    BY <1>3
  <2> QED
    BY <1>3, <2>1, RelinkedTells DEF ButLinks, Well
<1>5. DOMAIN w.conns \subseteq People
  BY WorldHas DEF Well, Linked, Wired
<1>6. /\ SetToSeq(came) \in Seq(came) /\ ToSet(SetToSeq(came)) = came
      /\ SetToSeq(went) \in Seq(went) /\ ToSet(SetToSeq(went)) = went
  <2>1. came \in SUBSET People /\ went \in SUBSET People
    BY <1>5
  <2> HIDE DEF came, went
  <2> QED
    BY <2>1, PeopleAreFinite, ListOf
<1>7. PICK a, b : a = SetToSeq(came) /\ b = SetToSeq(went)
  OBVIOUS
<1>8. a \in Seq(People) /\ ToSet(a) = came /\ b \in Seq(Clients) /\ ToSet(b) = went
  <2>1. came \subseteq People /\ went \subseteq Clients
    BY <1>5
  <2> HIDE DEF came, went
  <2> QED
    BY <1>6, <1>7, <2>1
<1>9. Linked(x) /\ Agree(x) /\ Loses(u, x, came) /\ AllTold(x, {})
  <2> HIDE DEF came
  <2>1. x = RemoveAll(u, a)
    BY <1>1, <1>7
  <2>2. Linked(x) /\ Agree(x) /\ Loses(u, x, came)
    BY <1>3, <1>8, <2>1, RemoveAllDoes
  <2>3. AllTold(x, {})
    BY <1>3, <1>4, <1>8, <2>1, RemoveAllTells
  <2> QED
    BY <2>2, <2>3
<1>10. \A c \in ToSet(b) : c \in DOMAIN x.conns /\ x.conns[c].game = 0
  <2>1. \A c \in went : c \in DOMAIN w.conns /\ c \notin came /\ w.conns[c].remote = l /\ l # 0
    BY WiredHas DEF Well, Linked
  <2>2. u.conns = w.conns
    BY <1>3 DEF ButLinks
  <2> HIDE DEF came, went
  <2>3. \A c \in went : c \in DOMAIN x.conns /\ x.conns[c].remote # 0
    BY <1>9, <2>1, <2>2 DEF Loses
  <2> QED
    BY <1>8, <1>9, <2>3 DEF Agree
<1>11. v = GoneAll(x, b)
  BY <1>1, <1>7
<1> QED
  BY <1>2, <1>8, <1>9, <1>10, <1>11, GoneAllTells

-----------------------------------------------------------------------------
(* Nobody is in doubt, whatever happens *)

\* Whoever is in a game knows of it, or will be told a little later.
Sure == Inv /\ AllTold(World, {})

LEMMA SureFirst ==
  ASSUME Init
  PROVE  Sure
<1>1. World.conns = conns /\ conns = [c \in Clients |-> [user |-> c, game |-> 0, remote |-> 0]]
  BY WorldIs DEF Init
<1>2. \A m \in DOMAIN World.conns : World.conns[m].game = 0
  BY <1>1
<1>3. AllTold(World, {})
  BY <1>2 DEF AllTold, InDoubt
<1> QED
  BY <1>3, Initially DEF Sure

LEMMA RequestTells ==
  ASSUME NEW c \in Clients, Sure, Request(c)
  PROVE  AllTold(World, {})'
<1>1. PICK reachable \in Reachable,
           req \in [kind : {"gqwk", "gset", "lock", "glea", "gdel"}, arg : {0}]
                   \cup [kind : {"gjoi"}, arg : 1 .. nextGame - 1]
                   \cup [kind : {"kick"}, arg : Clients \ {c}] :
             Becomes(HandleLobby(World, c, req, reachable))
  BY DEF Request
<1>2. req \in Requests
  <2>1. 0 \in 0 .. MaxGames /\ 1 .. nextGame - 1 \subseteq 0 .. MaxGames
    <3>1. MaxGames \in Nat /\ nextGame \in 1 .. MaxGames + 1
      BY BoundsAssumption DEF Sure, Inv
    <3> QED
      BY <3>1
  <2>2. req.kind \in {"gqwk", "gset", "lock", "glea", "gdel", "gjoi", "kick"} /\ req.arg \in (0 .. MaxGames) \cup Clients
    BY <2>1
  <2>3. req = [kind |-> req.kind, arg |-> req.arg]
    OBVIOUS
  <2> QED
    BY <2>2, <2>3 DEF Requests
<1>3. PICK w, v : w = World /\ v = HandleLobby(w, c, req, reachable)
  OBVIOUS
<1>4. Well(w) /\ c \in DOMAIN w.conns /\ KnownOK /\ AllTold(w, {})
  BY <1>3, WorldIs DEF Sure, Inv, Request
<1>5. Ran(w, v, c, req)
  BY <1>2, <1>3, <1>4, HandleLobbyDoes DEF Well
<1>6. Well(v)
  BY <1>4, <1>5, RanWell
<1>7. World' = v
  BY <1>1, <1>3, <1>6, StepIs
<1>8. AllTold(v, {})
  BY <1>2, <1>3, <1>4, HandleLobbyTells DEF Well
<1> QED
  BY <1>7, <1>8

\* Who leaves what it plays in, here or elsewhere, leaves nobody in doubt.
LEMMA QuitTells ==
  ASSUME NEW w, Well(w), NEW c \in DOMAIN w.conns, AllTold(w, {})
  PROVE  AllTold(LeaveGame(DropRemote(w, c), c), {})
<1>1. PICK u : u = DropRemote(w, c)
  OBVIOUS
<1>2. Well(u) /\ AllTold(u, {})
  BY <1>1, DropRemoteWell, DropRemoteTells DEF Well
<1>3. c \in DOMAIN u.conns
  BY <1>1, DropRemoteDoes DEF Well, Placed
<1>4. AllTold(LeaveGame(u, c), {} \ {c})
  BY <1>2, <1>3, LeaveTells DEF Well
<1>5. AllTold(LeaveGame(u, c), {})
  BY <1>4
<1> QED
  BY <1>1, <1>5

LEMMA GcreTells ==
  ASSUME NEW c \in Clients, Sure, Gcre(c)
  PROVE  AllTold(World, {})'
<1>1. PICK w, left, n, made :
        w = World /\ left = LeaveGame(DropRemote(w, c), c) /\ n = nextGame /\ made = Made(left, c, n)
  OBVIOUS
<1>2. /\ Well(left) /\ Well(made) /\ World' = SendGame(made, n) /\ n \in DOMAIN made.games
      /\ Opens(left, made, c, n)
  BY <1>1, GcreIs DEF Sure
<1>3. Well(w) /\ c \in DOMAIN w.conns /\ AllTold(w, {}) /\ \A g \in DOMAIN w.games : g < n
  BY <1>1, WorldIs DEF Sure, Inv, Gcre
<1>4. AllTold(left, {})
  BY <1>1, <1>3, QuitTells
<1>5. DOMAIN left.games \subseteq DOMAIN w.games
  BY <1>1, <1>3, QuitWell
<1>6. n \notin DOMAIN left.games
  <2>1. n \in Int
    BY <1>1 DEF Sure, Inv
  <2> QED
    BY <1>3, <1>5, <2>1
<1>7. left \in Worlds /\ made \in Worlds
  BY <1>2 DEF Well, Linked, Wired
<1>8. made.told = left.told
  BY <1>1, <1>7 DEF Made
<1>9. Unsaid(left, made) /\ made.held = left.held
  BY <1>2, <1>8 DEF Unsaid, Opens, Placed
<1>10. DOMAIN made.conns \subseteq People
  BY <1>7, WorldHas
<1>11. ASSUME NEW x \in DOMAIN made.conns \ {c}, made.conns[x].game # 0
       PROVE  /\ x \in DOMAIN left.conns /\ left.conns[x].game = made.conns[x].game
              /\ GameRecord(made, made.conns[x].game) = GameRecord(left, made.conns[x].game)
  <2>1. x \in DOMAIN left.conns /\ made.conns[x] = left.conns[x]
    BY <1>2 DEF Opens, Placed
  <2>2. PICK g : g = left.conns[x].game
    OBVIOUS
  <2>3. g \in DOMAIN left.games /\ g # n
    BY <1>2, <1>6, <1>11, <2>1, <2>2 DEF Well, Agree
  <2>4. made.games[g] = left.games[g]
    BY <1>2, <2>3 DEF Opens
  <2>5. \A y \in DOMAIN left.conns : y \in DOMAIN made.conns /\ made.conns[y].user = left.conns[y].user
    BY <1>2 DEF Opens, Placed
  <2>6. GameRecord(made, g) = GameRecord(left, g)
    BY <1>2, <2>3, <2>4, <2>5, RecordsStay DEF Well
  <2> QED
    BY <2>1, <2>2, <2>6
<1>12. AllTold(made, {} \cup {c})
  BY <1>4, <1>9, <1>10, <1>11, UnsaidTells
<1>13. ToSet(made.games[n].players) = {x \in DOMAIN made.conns : made.conns[x].game = n}
  BY <1>2 DEF Well, Agree
<1>14. \A x \in ToSet(made.games[n].players) :
         x \in DOMAIN made.conns /\ made.conns[x].game = n /\ (x \in Clients => made.conns[x].remote = 0)
  <2>1. n # 0
    BY <1>2, <1>7, WorldHas
  <2> QED
    BY <1>2, <1>13, <2>1 DEF Well, Agree
<1>15. c \in ToSet(made.games[n].players)
  <2>1. c \in DOMAIN made.conns /\ made.conns[c].game = n
    <3>1. DOMAIN made.conns = DOMAIN left.conns /\ DOMAIN left.conns = DOMAIN w.conns /\ made.conns[c].game = n
      BY <1>1, <1>2, <1>3, QuitWell DEF Opens, Placed
    <3> QED
      BY <1>3, <3>1
  <2> QED
    BY <1>13, <2>1
<1>16. PICK D : D = {} \cup {c}
  OBVIOUS
<1>17. AllTold(SendGame(made, n), D \ ToSet(made.games[n].players))
  BY <1>2, <1>12, <1>14, <1>16, SendGameTells DEF Well
<1>18. D \ ToSet(made.games[n].players) = {}
  BY <1>15, <1>16
<1>19. PICK v : v = SendGame(made, n)
  OBVIOUS
<1>20. AllTold(v, {})
  BY <1>17, <1>18, <1>19
<1>21. World' = v
  BY <1>2, <1>19
<1> QED
  BY <1>20, <1>21

LEMMA HangupTells ==
  ASSUME NEW c \in Clients, Sure, Hangup(c)
  PROVE  AllTold(World, {})'
<1>1. PICK w, left, v : w = World /\ left = LeaveGame(DropRemote(w, c), c) /\ v = Gone(left, c)
  OBVIOUS
<1>2. Becomes(v)
  BY <1>1 DEF Hangup, Gone
<1>3. Well(w) /\ c \in DOMAIN w.conns /\ AllTold(w, {})
  BY <1>1, WorldIs DEF Sure, Inv, Hangup
<1>4. Well(left) /\ left.conns[c].game = 0
  BY <1>1, <1>3, QuitWell
<1>5. Loses(left, v, {c}) /\ Agree(v)
  BY <1>1, <1>4, GoneAgrees DEF Well
<1>6. Well(v)
  BY <1>4, <1>5, LosesWell
<1>7. World' = v
  BY <1>2, <1>6, StepIs
<1>8. AllTold(left, {})
  BY <1>1, <1>3, QuitTells
<1>9. AllTold(v, {})
  BY <1>1, <1>4, <1>8, GoneTells DEF Well
<1> QED
  BY <1>7, <1>9

LEMMA SendHeldTells ==
  ASSUME Sure, SendHeld
  PROVE  AllTold(World, {})'
<1>1. held # <<>>
  BY DEF SendHeld
<1>2. PICK w, h, g : w = World /\ h = Tail(w.held) /\ g = Head(held)
  OBVIOUS
<1>3. PICK u : u = [w EXCEPT !.held = h]
  OBVIOUS
<1>4. PICK v : v = IF g \in DOMAIN games THEN SendGame(u, g) ELSE u
  OBVIOUS
<1>5. Becomes(v)
  BY <1>2, <1>3, <1>4 DEF SendHeld
<1>6. Well(w) /\ AllTold(w, {}) /\ w.held = held /\ w.games = games
  BY <1>2, WorldIs DEF Sure, Inv
<1>7. held \in Seq(1 .. MaxGames)
  BY <1>6, WorldHas DEF Well, Linked, Wired
<1>8. h \in Seq(1 .. MaxGames) /\ h = Tail(held) /\ g \in 1 .. MaxGames
  <2>1. ASSUME NEW T, NEW list \in Seq(T), list # <<>> PROVE Tail(list) \in Seq(T) /\ Head(list) \in T
    BY <2>1
  <2> QED
    BY <1>1, <1>2, <1>6, <1>7, <2>1
<1>9. AtHome(w, u) /\ ButHeld(w, u) /\ u.held = h
  BY <1>3, <1>6, <1>8, HoldIs DEF Well
<1>10. Linked(u) /\ Agree(u) /\ Well(u)
  BY <1>6, <1>9, StaysWell DEF AtHome
<1>11. AllTold(u, In(u, g))
  <2>1. SUFFICES ASSUME NEW y \in DOMAIN u.conns, y \notin In(u, g) PROVE ~ InDoubt(u, y)
    BY DEF AllTold
  <2>2. /\ y \in DOMAIN w.conns /\ ~ InDoubt(w, y) /\ u.conns[y].game = w.conns[y].game /\ u.conns[y].game # g
        /\ u.conns = w.conns /\ u.games = w.games /\ u.links = w.links /\ u.wire = w.wire /\ u.told = w.told
    BY <1>6, <1>9, <2>1 DEF AllTold, ButHeld, In
  <2>3. KnowsSame(w, u, y)
    BY <2>2 DEF KnowsSame, Stands, PlaysFor
  <2>4. u.conns[y].game # 0 => GameRecord(u, u.conns[y].game) = GameRecord(w, u.conns[y].game)
    BY <2>2, RecordOf
  <2>5. u.conns[y].game \in ToSet(w.held) => u.conns[y].game \in ToSet(u.held)
    BY <1>1, <1>2, <1>6, <1>7, <1>8, <1>9, <2>2, ToSetTail
  <2> QED
    BY <2>2, <2>3, <2>4, <2>5, SureStill
<1>12. g # 0
  BY <1>8
<1>13. Well(v) /\ AllTold(v, {})
  <2>1. CASE g \in DOMAIN games
    <3>1. v = SendGame(u, g) /\ g \in DOMAIN u.games
      BY <1>4, <1>6, <1>9, <2>1 DEF ButHeld
    <3>2. AtHome(u, v)
      BY <1>10, <3>1, SendGameIsAtHome
    <3>3. Well(v)
      BY <1>10, <3>2, StaysWell
    <3>4. ToSet(u.games[g].players) = In(u, g)
      BY <1>10, <3>1 DEF Agree, In
    <3>5. \A x \in ToSet(u.games[g].players) :
            x \in DOMAIN u.conns /\ u.conns[x].game = g /\ (x \in Clients => u.conns[x].remote = 0)
      BY <1>10, <1>12, <3>4 DEF Agree, In
    <3>6. PICK D : D = In(u, g)
      OBVIOUS
    <3>7. AllTold(SendGame(u, g), D \ ToSet(u.games[g].players))
      BY <1>10, <1>11, <3>1, <3>5, <3>6, SendGameTells
    <3>8. D \ ToSet(u.games[g].players) = {}
      BY <3>4, <3>6
    <3> QED
      BY <3>1, <3>3, <3>7, <3>8
  <2>2. CASE g \notin DOMAIN games
    <3>1. v = u
      BY <1>4, <2>2
    <3>2. In(u, g) = {}
      BY <1>6, <1>9, <1>10, <1>12, <2>2 DEF Agree, In, ButHeld
    <3> QED
      BY <1>10, <1>11, <3>1, <3>2
  <2> QED
    BY <2>1, <2>2
<1>14. World' = v
  BY <1>5, <1>13, StepIs
<1> QED
  BY <1>13, <1>14

\* Whoever knew something still does, and the games are as they were.
LEMMA SureKnown ==
  ASSUME NEW w, NEW v, v.conns = w.conns, v.games = w.games, v.held = w.held,
         NEW y, \A r : Knows(w, y, r) => Knows(v, y, r), ~ InDoubt(w, y)
  PROVE  ~ InDoubt(v, y)
<1>1. PICK g, r : g = w.conns[y].game /\ r = GameRecord(w, g)
  OBVIOUS
<1>2. GameRecord(v, g) = r
  BY <1>1, RecordOf
<1>3. g = 0 \/ Knows(w, y, r) \/ g \in ToSet(w.held)
  BY <1>1 DEF InDoubt
<1>4. g = 0 \/ Knows(v, y, r) \/ g \in ToSet(v.held)
  BY <1>3
<1> QED
  BY <1>1, <1>2, <1>4 DEF InDoubt

LEMMA UnsettledTail ==
  ASSUME NEW out \in Seq(Message), out # <<>>, NEW id, ~ Settles(Head(out), id), Unsettled(Tail(out), id)
  PROVE  Unsettled(out, id)
<1>1. PICK n, rest : n = Len(out) /\ rest = Tail(out)
  OBVIOUS
<1>2. n \in Nat \ {0} /\ Len(rest) = n - 1 /\ Head(out) = out[1] /\ \A k \in 1 .. n - 1 : rest[k] = out[k + 1]
  <2> HIDE DEF Message
  <2> QED
    BY <1>1
<1>3. \A j \in 1 .. n - 1 : ~ Settles(rest[j], id)
  BY <1>1, <1>2 DEF Unsettled
<1>4. ASSUME NEW j \in 1 .. n PROVE ~ Settles(out[j], id)
  <2>1. CASE j = 1
    BY <1>2, <2>1
  <2>2. CASE j # 1
    <3>1. j - 1 \in 1 .. n - 1 /\ (j - 1) + 1 = j
      BY <1>2, <2>2
    <3> QED
      BY <1>2, <1>3, <3>1
  <2> QED
    BY <2>1, <2>2
<1> QED
  BY <1>1, <1>4 DEF Unsettled

\* While a message is handled only the player it settles may be in doubt.
LEMMA TakenOutTells ==
  ASSUME NEW w, Well(w), NEW l \in DOMAIN w.links, w.wire[l].out # <<>>, AllTold(w, {}),
         NEW x, x = Head(w.wire[l].out)
  PROVE  /\ AllTold(TakenOut(w, l), {<<l, x.id>>})
         /\ ~ Settles(x, x.id) => AllTold(TakenOut(w, l), {})
<1>1. PICK u, m : u = TakenOut(w, l) /\ m = <<l, x.id>>
  OBVIOUS
<1>2. /\ Well(u) /\ ButWire(w, u)
      /\ \A k \in DOMAIN w.links \ {l} : u.wire[k] = w.wire[k]
      /\ u.wire[l].out = Tail(w.wire[l].out) /\ u.wire[l].back = w.wire[l].back
  BY <1>1, TakenOutDoes
<1>3. PICK out \in Seq(Message) : out = w.wire[l].out
  BY OnItsWay DEF Well
<1>4. ASSUME NEW y \in DOMAIN u.conns, y \notin Clients /\ y[1] = l => ~ Settles(x, y[2])
      PROVE  ~ InDoubt(u, y)
  <2>1. y \in DOMAIN w.conns /\ ~ InDoubt(w, y) /\ u.conns = w.conns /\ u.games = w.games /\ u.held = w.held
        /\ u.told = w.told /\ u.links = w.links
    BY <1>2, <1>4 DEF AllTold, ButWire
  <2>2. y \notin Clients => y[1] \in DOMAIN w.links
    BY <2>1 DEF Well, Linked
  <2>3. y \notin Clients /\ Stands(u, y) => Stands(w, y)
    <3>1. CASE y[1] = l
      <4>1. PICK i : i = y[2]
        OBVIOUS
      <4>2. y \notin Clients /\ Unsettled(Tail(out), i) => Unsettled(out, i)
        BY <1>3, <1>4, <3>1, <4>1, UnsettledTail
      <4> QED
        BY <1>2, <1>3, <2>1, <3>1, <4>1, <4>2 DEF Stands
    <3>2. CASE y[1] # l
      BY <1>2, <2>1, <2>2, <3>2 DEF Stands
    <3> QED
      BY <3>1, <3>2
  <2>4. y \notin Clients => u.wire[y[1]].back = w.wire[y[1]].back
    BY <1>2, <2>2
  <2>5. KnowsSame(w, u, y)
    BY <2>1, <2>3, <2>4 DEF KnowsSame, PlaysFor
  <2>6. u.conns[y].game # 0 => GameRecord(u, u.conns[y].game) = GameRecord(w, u.conns[y].game)
    BY <2>1, RecordOf
  <2> QED
    BY <2>1, <2>5, <2>6, SureStill
<1>5. DOMAIN u.conns \subseteq People
  BY <1>2, WorldHas DEF Well, Linked, Wired
<1>6. ASSUME NEW y \in DOMAIN u.conns, y # m PROVE ~ InDoubt(u, y)
  <2>1. y \notin Clients => y = <<y[1], y[2]>>
    BY <1>5, PeopleAre
  <2>2. y \notin Clients /\ y[1] = l => y[2] # x.id
    BY <1>1, <1>6, <2>1
  <2>3. y \notin Clients /\ y[1] = l => ~ Settles(x, y[2])
    BY <2>2 DEF Settles
  <2> QED
    BY <1>4, <2>3
<1>7. AllTold(u, {m})
  BY <1>6 DEF AllTold
<1>8. ASSUME ~ Settles(x, x.id) PROVE AllTold(u, {})
  <2>1. \A i : ~ Settles(x, i)
    BY <1>8 DEF Settles
  <2> QED
    BY <1>4, <2>1 DEF AllTold
<1> QED
  BY <1>1, <1>7, <1>8

LEMMA HandleOutTells ==
  ASSUME NEW l \in DOMAIN links, Sure, HandleOut(l)
  PROVE  AllTold(World, {})'
<1>1. wire[l].out # <<>> /\ links[l].ends[links[l].to] = "up"
  BY DEF HandleOut
<1>2. PICK w, message, m, u :
        /\ w = World /\ message = Head(wire[l].out) /\ m = <<l, message.id>> /\ u = TakenOut(w, l)
  OBVIOUS
<1>3. PICK reachable \in Reachable :
        Becomes(IF message.kind = "xjoi" THEN Run(TakePlayer(u, m, message.user), m, message.req, reachable)
                ELSE IF m \notin DOMAIN conns THEN u
                ELSE IF message.kind = "xlea" THEN RemovePlayer(u, m)
                ELSE Run(u, m, message.req, reachable))
  BY <1>2 DEF HandleOut, TakenOut
<1>4. Well(w) /\ w.conns = conns /\ w.wire = wire /\ w.links = links /\ AllTold(w, {}) /\ KnownOK
  BY <1>2, WorldIs DEF Sure, Inv
<1>5. message \in Message /\ m \in People \ Clients /\ Well(u)
  BY <1>2, HandleOutIs DEF Sure
<1>6. ButWire(w, u)
  BY <1>1, <1>2, <1>4, TakenOutDoes
<1>7. u.links = links /\ u.conns = conns
  BY <1>4, <1>6 DEF ButWire
<1>8. message.user \in Clients /\ message.req \in Requests /\ message.kind \in {"xjoi", "xlea", "xfwd"} /\ m[1] = l
  BY <1>2, <1>5 DEF Message
<1>9. AllTold(u, {m}) /\ (~ Settles(message, message.id) => AllTold(u, {}))
  BY <1>1, <1>2, <1>4, TakenOutTells
<1>10. CASE message.kind = "xjoi"
  <2>1. PICK t, v : t = TakePlayer(u, m, message.user) /\ v = Run(t, m, message.req, reachable)
    OBVIOUS
  <2>2. Becomes(v)
    BY <1>3, <1>10, <2>1
  <2>3. "up" # "gone" /\ m[1] \in DOMAIN u.links /\ u.links[m[1]].ends[u.links[m[1]].to] # "gone"
    BY <1>1, <1>7, <1>8
  <2>4. Well(t) /\ Taken(u, t, m, message.user)
    BY <1>5, <1>8, <2>1, <2>3, TakePlayerDoes
  <2>5. m \in DOMAIN t.conns
    BY <2>4 DEF Taken
  <2>6. AllTold(t, {})
    <3>1. AllTold(t, {m} \ {m})
      BY <1>5, <1>8, <1>9, <2>1, TakePlayerTells DEF Well
    <3> QED
      BY <3>1
  <2>7. Well(v)
    BY <1>4, <1>8, <2>1, <2>4, <2>5, RunDoes
  <2>8. World' = v
    BY <2>2, <2>7, StepIs
  <2>9. AllTold(v, {})
    BY <1>4, <1>8, <2>1, <2>4, <2>5, <2>6, RunTells
  <2> QED
    BY <2>8, <2>9
<1>11. CASE message.kind # "xjoi" /\ m \notin DOMAIN conns
  <2>1. World' = u
    BY <1>3, <1>5, <1>11, StepIs
  <2>2. AllTold(u, {})
    BY <1>7, <1>9, <1>11 DEF AllTold
  <2> QED
    BY <2>1, <2>2
<1>12. CASE message.kind = "xlea" /\ m \in DOMAIN conns
  <2>1. PICK v : v = RemovePlayer(u, m)
    OBVIOUS
  <2>2. Becomes(v)
    BY <1>3, <1>12, <2>1
  <2>3. Loses(u, v, {m}) /\ Agree(v)
    BY <1>5, <2>1, RemovePlayerDoes DEF Well
  <2>4. Well(v)
    BY <1>5, <2>3, LosesWell
  <2>5. World' = v
    BY <2>2, <2>4, StepIs
  <2>6. AllTold(v, {m} \ {m})
    BY <1>5, <1>9, <2>1, RemovePlayerTells DEF Well
  <2>7. AllTold(v, {})
    BY <2>6
  <2> QED
    BY <2>5, <2>7
<1>13. CASE message.kind = "xfwd" /\ m \in DOMAIN conns
  <2>1. PICK v : v = Run(u, m, message.req, reachable)
    OBVIOUS
  <2>2. Becomes(v)
    BY <1>3, <1>13, <2>1
  <2>3. m \in DOMAIN u.conns
    BY <1>7, <1>13
  <2>4. Well(v)
    BY <1>4, <1>5, <1>8, <2>1, <2>3, RunDoes
  <2>5. World' = v
    BY <2>2, <2>4, StepIs
  <2>6. AllTold(v, {})
    <3>1. CASE Answers(message.req) = "leave"
      BY <1>4, <1>5, <1>8, <1>9, <2>1, <2>3, <3>1, RunTells
    <3>2. CASE Answers(message.req) # "leave"
      <4>1. AllTold(u, {})
        BY <1>9, <1>13, <3>2 DEF Settles
      <4> QED
        BY <1>4, <1>5, <1>8, <2>1, <2>3, <4>1, RunTells
    <3> QED
      BY <3>1, <3>2
  <2> QED
    BY <2>5, <2>6
<1> QED
  BY <1>8, <1>10, <1>11, <1>12, <1>13

\* What comes back is told to who was on it to learn of it.
LEMMA HandleBackTells ==
  ASSUME NEW l \in DOMAIN links, Sure, HandleBack(l)
  PROVE  AllTold(World, {})'
<1>1. PICK w, x, clients, u, c, v :
        /\ w = World /\ x = Head(wire[l].back) /\ clients = Addressees(l, x.id) /\ u = TakenBack(w, l)
        /\ c = (CHOOSE d \in clients : TRUE) /\ v = World'
  OBVIOUS
<1>2. wire[l].back # <<>> /\ x \in Answer /\ IF clients = {} THEN v = u ELSE Delivered(u, v, c, x.answers, x.record)
  BY <1>1, HandleBackIs DEF Sure
<1>3. /\ Well(w) /\ w.conns = conns /\ w.wire = wire /\ w.links = links /\ AllTold(w, {})
  BY <1>1, WorldIs DEF Sure, Inv
<1>4. /\ ButWire(w, u) /\ \A k \in DOMAIN w.links \ {l} : u.wire[k] = w.wire[k]
      /\ u.wire[l].back = Tail(w.wire[l].back) /\ u.wire[l].out = w.wire[l].out
  BY <1>1, <1>2, <1>3, TakenBackDoes
<1>5. /\ v.conns = w.conns /\ v.games = w.games /\ v.held = w.held /\ v.links = w.links /\ v.wire = u.wire
      /\ clients = {} => v.told = w.told
      /\ clients # {} => \A d \in Clients : v.told[d] = IF d = c /\ x.record # NoRecord THEN x.record ELSE w.told[d]
  BY <1>2, <1>4 DEF ButWire, Delivered
<1>6. \A d : d \in clients <=> d \in Clients \cap DOMAIN w.conns /\ At[d] = w.links[l].from /\ Id[d] = x.id /\ w.conns[d].remote = l
  BY <1>1, <1>3 DEF Addressees
<1>7. clients # {} => c \in clients
  BY <1>1
<1>8. PICK back \in Seq(Answer) : back = w.wire[l].back /\ back # <<>> /\ x = Head(back)
  BY <1>1, <1>2, <1>3, WiredHas DEF Well, Linked
<1>9. \A k \in DOMAIN w.links : k # 0
  BY <1>3, WiredHas DEF Well, Linked
<1>10. SUFFICES ASSUME NEW y \in DOMAIN v.conns PROVE ~ InDoubt(v, y)
  BY <1>1 DEF AllTold
<1>11. y \in DOMAIN w.conns /\ ~ InDoubt(w, y)
  BY <1>3, <1>5, <1>10 DEF AllTold
<1>12. CASE y \in Clients
  <2>1. CASE y \in clients
    <3>1. w.conns[y].game = 0
      BY <1>3, <1>6, <1>9, <2>1 DEF Well, Agree
    <3> QED
      BY <1>5, <3>1 DEF InDoubt
  <2>2. CASE y \notin clients
    <3>1. v.told[y] = w.told[y]
      BY <1>5, <1>7, <1>12, <2>2
    <3>2. \A r : Knows(w, y, r) => Knows(v, y, r)
      BY <1>12, <3>1 DEF Knows
    <3> QED
      BY <1>5, <1>11, <3>2, SureKnown
  <2> QED
    BY <2>1, <2>2
<1>13. CASE y \notin Clients
  <2>1. y[1] \in DOMAIN w.links
    BY <1>3, <1>11, <1>13 DEF Well, Linked
  <2>2. Stands(v, y) => Stands(w, y)
    BY <1>4, <1>5, <2>1 DEF Stands
  <2>3. PlaysFor(v, y) = PlaysFor(w, y)
    BY <1>5 DEF PlaysFor
  <2>4. CASE y[1] # l
    <3>1. ASSUME NEW d \in PlaysFor(w, y) PROVE v.told[d] = w.told[d]
      <4>1. d \in Clients /\ d \notin clients
        BY <1>6, <2>4 DEF PlaysFor
      <4> QED
        BY <1>5, <1>7, <4>1
    <3>2. v.wire[y[1]].back = w.wire[y[1]].back
      BY <1>4, <1>5, <2>1, <2>4
    <3>3. KnowsSame(w, v, y)
      BY <1>13, <2>2, <2>3, <3>1, <3>2 DEF KnowsSame
    <3>4. \A r : Knows(w, y, r) => Knows(v, y, r)
      BY <3>3, KnowsStill
    <3> QED
      BY <1>5, <1>11, <3>4, SureKnown
  <2>5. CASE y[1] = l
    <3>1. PICK id : id = y[2]
      OBVIOUS
    <3>2. ASSUME NEW d \in PlaysFor(w, y)
          PROVE  v.told[d] = IF Says(x, id) THEN x.record ELSE w.told[d]
      <4>1. d \in Clients \cap DOMAIN w.conns /\ At[d] = w.links[l].from /\ w.conns[d].remote = l /\ Id[d] = id
        BY <2>5, <3>1 DEF PlaysFor
      <4>2. CASE Says(x, id)
        <5>1. d \in clients
          BY <1>6, <4>1, <4>2 DEF Says
        <5>2. c = d
          BY <1>6, <1>7, <5>1, IdsAssumption
        <5> QED
          BY <1>5, <4>1, <4>2, <5>1, <5>2 DEF Says
      <4>3. CASE ~ Says(x, id)
        <5>1. x.record = NoRecord \/ d \notin clients
          BY <1>6, <4>1, <4>3 DEF Says
        <5> QED
          BY <1>5, <1>7, <4>1, <4>3, <5>1
      <4> QED
        BY <4>2, <4>3
    <3>3. ASSUME NEW r, Knows(w, y, r) PROVE Knows(v, y, r)
      <4>1. SUFFICES ASSUME Stands(v, y), NEW d \in PlaysFor(v, y) PROVE Latest(v.wire[y[1]].back, y[2], v.told[d], r)
        BY <1>13 DEF Knows
      <4>2. d \in PlaysFor(w, y) /\ Stands(w, y)
        BY <2>2, <2>3, <4>1
      <4>3. Latest(w.wire[y[1]].back, y[2], w.told[d], r)
        BY <1>13, <3>3, <4>2 DEF Knows
      <4>4. PICK old : old = w.told[d]
        OBVIOUS
      <4>5. Latest(back, id, old, r)
        BY <1>8, <2>5, <3>1, <4>3, <4>4
      <4>6. Latest(Tail(back), id, IF Says(Head(back), id) THEN Head(back).record ELSE old, r)
        BY <1>8, <4>5, LatestTail
      <4>7. v.told[d] = IF Says(Head(back), id) THEN Head(back).record ELSE old
        BY <1>8, <3>2, <4>2, <4>4
      <4>8. v.wire[y[1]].back = Tail(back)
        BY <1>4, <1>5, <1>8, <2>5
      <4> QED
        BY <3>1, <4>6, <4>7, <4>8
    <3> QED
      BY <1>5, <1>11, <3>3, SureKnown
  <2> QED
    BY <2>4, <2>5
<1> QED
  BY <1>12, <1>13

LEMMA BreakTells ==
  ASSUME NEW l \in DOMAIN links, Sure, Break(l)
  PROVE  AllTold(World, {})'
<1>1. PICK w, v : w = World /\ v = World'
  OBVIOUS
<1>2. /\ links' = [links EXCEPT ![l].broken = TRUE] /\ wire' = [wire EXCEPT ![l] = [out |-> <<>>, back |-> <<>>]]
      /\ UNCHANGED <<conns, games, held, told, owed>>
  BY BreakIs DEF Sure
<1>3. /\ Linked(w) /\ AllTold(w, {}) /\ w.links = links /\ w.wire = wire /\ w.conns = conns /\ w.games = games
      /\ w.held = held /\ w.told = told
  BY <1>1, WorldIs DEF Sure, Inv, Well
<1>4. v.links = links' /\ v.wire = wire' /\ v.conns = conns /\ v.games = games /\ v.held = held /\ v.told = told
  BY <1>1, <1>2 DEF World
<1>5. links \in Seq(Link) /\ links[l] \in Link /\ wire \in Seq(Wire) /\ DOMAIN wire = DOMAIN links
  BY <1>3, WorldHas, WiredHas DEF Linked, Wired
<1>6. \A k \in DOMAIN w.links : /\ v.links[k].from = w.links[k].from
                                /\ ~ v.links[k].broken => ~ w.links[k].broken /\ v.wire[k] = w.wire[k]
  <2>1. SUFFICES ASSUME NEW k \in DOMAIN links
                 PROVE  /\ v.links[k].from = links[k].from
                        /\ ~ v.links[k].broken => ~ links[k].broken /\ v.wire[k] = wire[k]
    BY <1>3
  <2>2. CASE k = l
    <3>1. v.links[l] = [links[l] EXCEPT !.broken = TRUE]
      BY <1>2, <1>4, <1>5
    <3>2. v.links[l].broken /\ v.links[l].from = links[l].from
      BY <1>5, <3>1 DEF Link
    <3> QED
      BY <2>2, <3>2
  <2>3. CASE k # l
    BY <1>2, <1>4, <1>5, <2>1, <2>3
  <2> QED
    BY <2>2, <2>3
<1>7. AllTold(v, {})
  BY <1>3, <1>4, <1>6, RelinkedTells
<1> QED
  BY <1>1, <1>7

LEMMA NoticeTells ==
  ASSUME NEW l \in DOMAIN links, NEW s, Sure, Notice(l, s)
  PROVE  AllTold(World, {})'
<1>1. PICK w, v : w = World /\ v = World'
  OBVIOUS
<1>2. /\ links' = [links EXCEPT ![l].ends[s] = "closed"] /\ UNCHANGED <<conns, games, wire, held, told, owed>>
  BY NoticeIs DEF Sure
<1>3. /\ Linked(w) /\ AllTold(w, {}) /\ w.links = links /\ w.wire = wire /\ w.conns = conns /\ w.games = games
      /\ w.held = held /\ w.told = told
  BY <1>1, WorldIs DEF Sure, Inv, Well
<1>4. v.links = links' /\ v.wire = wire /\ v.conns = conns /\ v.games = games /\ v.held = held /\ v.told = told
  BY <1>1, <1>2 DEF World
<1>5. links \in Seq(Link) /\ links[l] \in Link
  BY <1>3, WorldHas, WiredHas DEF Linked, Wired
<1>6. PICK e : e = [links[l].ends EXCEPT ![s] = "closed"]
  OBVIOUS
<1>7. /\ \A k \in DOMAIN links \ {l} : v.links[k] = links[k]
      /\ v.links[l] = [links[l] EXCEPT !.ends = e]
  BY <1>2, <1>4, <1>5, <1>6
<1>8. v.links[l].from = links[l].from /\ v.links[l].broken = links[l].broken
  BY <1>5, <1>7 DEF Link
<1>9. \A k \in DOMAIN w.links : /\ v.links[k].from = w.links[k].from
                                /\ ~ v.links[k].broken => ~ w.links[k].broken /\ v.wire[k] = w.wire[k]
  BY <1>3, <1>4, <1>7, <1>8
<1>10. AllTold(v, {})
  BY <1>3, <1>4, <1>9, RelinkedTells
<1> QED
  BY <1>1, <1>10

LEMMA OnLinkClosedTells ==
  ASSUME NEW l \in DOMAIN links, NEW s, Sure, OnLinkClosed(l, s)
  PROVE  AllTold(World, {})'
<1>1. s \in DOMAIN links[l].ends
  BY DEF OnLinkClosed
<1>2. PICK w, v : w = World /\ v = LinkLeft(w, l, s)
  OBVIOUS
<1>3. Well(w) /\ w.links = links /\ w.conns = conns /\ AllTold(w, {})
  BY <1>2, WorldIs DEF Sure, Inv
<1>4. Becomes(v)
  BY <1>2, <1>3 DEF OnLinkClosed, LinkLeft, SetEnd, GoneAll, RemoveAll
<1>5. Well(v)
  BY <1>1, <1>2, <1>3, LinkLeftDoes
<1>6. World' = v
  BY <1>4, <1>5, StepIs
<1>7. AllTold(v, {})
  BY <1>1, <1>2, <1>3, LinkLeftTells
<1> QED
  BY <1>6, <1>7

LEMMA SureKept ==
  ASSUME Sure, [Next]_vars
  PROVE  Sure'
<1>0. Inv /\ Inv'
  BY Inductive DEF Sure
<1>1. ASSUME NEW c \in Clients, Request(c) PROVE Sure'
  BY <1>0, <1>1, RequestTells DEF Sure
<1>2. ASSUME NEW c \in Clients, Gcre(c) PROVE Sure'
  BY <1>0, <1>2, GcreTells DEF Sure
<1>3. ASSUME NEW c \in Clients, Hangup(c) PROVE Sure'
  BY <1>0, <1>3, HangupTells DEF Sure
<1>4. ASSUME NEW g \in 1 .. MaxGames, NEW t \in Servers, Beacon(g, t) PROVE Sure'
  BY <1>0, <1>4, BeaconIs DEF Sure
<1>5. ASSUME NEW g \in 1 .. MaxGames, NEW t \in Servers, Expire(g, t) PROVE Sure'
  BY <1>0, <1>5, ExpireIs DEF Sure
<1>6. CASE SendHeld
  BY <1>0, <1>6, SendHeldTells DEF Sure
<1>7. ASSUME NEW l \in DOMAIN links, HandleOut(l) PROVE Sure'
  BY <1>0, <1>7, HandleOutTells DEF Sure
<1>8. ASSUME NEW l \in DOMAIN links, HandleBack(l) PROVE Sure'
  BY <1>0, <1>8, HandleBackTells DEF Sure
<1>9. ASSUME NEW l \in DOMAIN links, NEW s \in Servers, Notice(l, s) PROVE Sure'
  BY <1>0, <1>9, NoticeTells DEF Sure
<1>10. ASSUME NEW l \in DOMAIN links, NEW s \in Servers, OnLinkClosed(l, s) PROVE Sure'
  BY <1>0, <1>10, OnLinkClosedTells DEF Sure
<1>11. ASSUME NEW l \in DOMAIN links, Break(l) PROVE Sure'
  BY <1>0, <1>11, BreakTells DEF Sure
<1>12. CASE UNCHANGED vars
  <2>1. UNCHANGED <<conns, games, links, wire, held, told, owed, nextGame, known, events>>
    BY <1>12 DEF vars, world
  <2>2. World' = World
    BY <2>1 DEF World
  <2> QED
    BY <1>0, <2>2 DEF Sure
<1> QED
  BY <1>1, <1>2, <1>3, <1>4, <1>5, <1>6, <1>7, <1>8, <1>9, <1>10, <1>11, <1>12 DEF Next, ServeLinks

-----------------------------------------------------------------------------
(* Through whose links clients play *)

\* A client plays through a link of its own server's.
Own(w) ==
  \A c \in Clients \cap DOMAIN w.conns : w.conns[c].remote # 0 => w.links[w.conns[c].remote].from = At[c]

\* So does any client that changed links.
Ours(w, v) ==
  /\ \A k \in DOMAIN w.links : v.links[k].from = w.links[k].from
  /\ \A c \in Clients \cap DOMAIN v.conns :
       \/ v.conns[c].remote = 0
       \/ c \in DOMAIN w.conns /\ v.conns[c].remote = w.conns[c].remote
       \/ v.links[v.conns[c].remote].from = At[c]

LEMMA OursOwn ==
  ASSUME NEW w, NEW v, Own(w), Linked(w), Ours(w, v)
  PROVE  Own(v)
<1>1. SUFFICES ASSUME NEW c \in Clients \cap DOMAIN v.conns, v.conns[c].remote # 0
               PROVE  v.links[v.conns[c].remote].from = At[c]
  BY DEF Own
<1>2. CASE c \in DOMAIN w.conns /\ v.conns[c].remote = w.conns[c].remote
  <2>1. w.conns[c].remote \in DOMAIN w.links /\ w.links[w.conns[c].remote].from = At[c]
    BY <1>1, <1>2 DEF Own, Linked
  <2> QED
    BY <1>2, <2>1 DEF Ours
<1> QED
  BY <1>1, <1>2 DEF Ours

LEMMA OwnStays ==
  ASSUME NEW w, NEW v, Own(w), Linked(w), Stays(w, v)
  PROVE  Own(v)
<1>1. Ours(w, v)
  BY DEF Ours, Stays
<1> QED
  BY <1>1, OursOwn

LEMMA OwnLoses ==
  ASSUME NEW w, NEW v, NEW S, Own(w), Linked(w), Loses(w, v, S)
  PROVE  Own(v)
<1>1. Ours(w, v)
  BY DEF Ours, Loses
<1> QED
  BY <1>1, OursOwn

LEMMA OwnPlaced ==
  ASSUME NEW w, NEW v, Own(w), Linked(w), v.links = w.links, NEW m \in DOMAIN w.conns, NEW g,
         NEW n \in {0, w.conns[m].remote}, Placed(w, v, m, g, n)
  PROVE  Own(v)
<1>1. Ours(w, v)
  BY DEF Ours, Placed
<1> QED
  BY <1>1, OursOwn

LEMMA OwnRan ==
  ASSUME NEW w, NEW v, Own(w), Linked(w), NEW m \in DOMAIN w.conns, NEW req, Ran(w, v, m, req)
  PROVE  Own(v)
<1>1. CASE Forwarded(w, v, m, req)
  BY <1>1, OwnPlaced DEF Forwarded, OwnEnd
<1>2. ASSUME NEW u, Here(w, u, m, req), Serves(u, v, m, Answers(req)) \/ JoinsOut(u, v, m, req)
      PROVE  Own(v)
  <2>1. Linked(u)
    BY <1>2 DEF Here
  <2>2. Own(u)
    <3>1. CASE u = w
      BY <3>1
    <3>2. CASE OwnEnd(w, u, m) /\ Placed(w, u, m, w.conns[m].game, 0)
      BY <3>2, OwnPlaced DEF OwnEnd
    <3> QED
      BY <1>2, <3>1, <3>2 DEF Here
  <2>3. CASE Serves(u, v, m, Answers(req))
    BY <2>1, <2>2, <2>3, OwnStays DEF Serves, AtHome
  <2>4. CASE JoinsOut(u, v, m, req)
    <3>1. PICK t, l : Joined(u, v, m, t, l, req)
      BY <2>4 DEF JoinsOut
    <3>2. PICK s : s = ServerOf(u, m)
      OBVIOUS
    <3>3. /\ DOMAIN v.conns = DOMAIN u.conns /\ \A x \in DOMAIN u.conns \ {m} : v.conns[x].remote = u.conns[x].remote
          /\ v.conns[m].remote = l /\ v.links[l].from = s /\ \A k \in DOMAIN u.links : v.links[k] = u.links[k]
      BY <3>1, <3>2 DEF Joined
    <3>4. m \in Clients => s = At[m]
      BY <3>2 DEF ServerOf
    <3>5. Ours(u, v)
      BY <3>3, <3>4 DEF Ours
    <3> QED
      BY <2>1, <2>2, <3>5, OursOwn
  <2> QED
    BY <1>2, <2>3, <2>4
<1> QED
  BY <1>1, <1>2 DEF Ran

LEMMA OwnQuit ==
  ASSUME NEW w, Own(w), Well(w), NEW c \in DOMAIN w.conns
  PROVE  Own(LeaveGame(DropRemote(w, c), c))
<1>1. PICK u, v : u = DropRemote(w, c) /\ v = LeaveGame(u, c)
  OBVIOUS
<1>2. Linked(u) /\ OwnEnd(w, u, c) /\ Placed(w, u, c, w.conns[c].game, 0)
  BY <1>1, DropRemoteDoes DEF Well
<1>3. Own(u)
  BY <1>2, OwnPlaced DEF Well, OwnEnd
<1>4. Stays(u, v)
  BY <1>1, <1>2, LeaveGameDoes DEF Left, Placed
<1>5. Own(v)
  BY <1>2, <1>3, <1>4, OwnStays
<1> QED
  BY <1>1, <1>5

\* Who was sent what, and what is on its way, is not about whose links they are.
LEMMA OwnSame ==
  ASSUME NEW w, NEW v, Own(w), v.conns = w.conns, v.links = w.links
  PROVE  Own(v)
BY DEF Own


\* Clients play through links of their own servers' only.
Owning == Inv /\ Own(World)

LEMMA OwningFirst ==
  ASSUME Init
  PROVE  Owning
<1>1. World.conns = conns /\ conns = [c \in Clients |-> [user |-> c, game |-> 0, remote |-> 0]]
  BY WorldIs DEF Init
<1>2. Own(World)
  BY <1>1 DEF Own
<1> QED
  BY <1>2, Initially DEF Owning

LEMMA GcreOwns ==
  ASSUME NEW c \in Clients, Owning, Gcre(c)
  PROVE  Own(World)'
<1>1. PICK w, left, n, made, v :
        /\ w = World /\ left = LeaveGame(DropRemote(w, c), c) /\ n = nextGame /\ made = Made(left, c, n)
        /\ v = World'
  OBVIOUS
<1>2. Well(left) /\ Well(made) /\ Opens(left, made, c, n) /\ AtHome(made, v)
  BY <1>1, GcreIs DEF Owning
<1>3. Well(w) /\ c \in DOMAIN w.conns /\ Own(w)
  BY <1>1, WorldIs DEF Owning, Inv, Gcre
<1>4. Own(left)
  BY <1>1, <1>3, OwnQuit
<1>5. c \in DOMAIN left.conns
  BY <1>1, <1>3, QuitWell
<1>6. Own(made)
  BY <1>2, <1>4, <1>5, OwnPlaced DEF Opens, Well
<1>7. Own(v)
  BY <1>2, <1>6, OwnStays DEF AtHome, Well
<1> QED
  BY <1>1, <1>7

LEMMA HangupOwns ==
  ASSUME NEW c \in Clients, Owning, Hangup(c)
  PROVE  Own(World)'
<1>1. PICK w, left, v : w = World /\ left = LeaveGame(DropRemote(w, c), c) /\ v = World'
  OBVIOUS
<1>2. Well(left) /\ Loses(left, v, {c})
  BY <1>1, HangupIs DEF Owning
<1>3. Well(w) /\ c \in DOMAIN w.conns /\ Own(w)
  BY <1>1, WorldIs DEF Owning, Inv, Hangup
<1>4. Own(left)
  BY <1>1, <1>3, OwnQuit
<1>5. Own(v)
  BY <1>2, <1>4, OwnLoses DEF Well
<1> QED
  BY <1>1, <1>5

LEMMA HandleOutOwns ==
  ASSUME NEW l \in DOMAIN links, Owning, HandleOut(l)
  PROVE  Own(World)'
<1>1. PICK w, x, m, u, v :
        w = World /\ x = Head(wire[l].out) /\ m = <<l, x.id>> /\ u = TakenOut(w, l) /\ v = World'
  OBVIOUS
<1>2. wire[l].out # <<>> /\ m \in People \ Clients /\ Well(u) /\ HandlesOut(u, v, m, x)
  BY <1>1, HandleOutIs DEF Owning
<1>3. Well(w) /\ Own(w) /\ w.wire = wire /\ w.links = links
  BY <1>1, WorldIs DEF Owning, Inv
<1>4. ButWire(w, u)
  BY <1>1, <1>2, <1>3, TakenOutDoes
<1>5. Own(u)
  BY <1>3, <1>4, OwnSame DEF ButWire
<1>6. ASSUME NEW t, Own(t), Well(t), m \in DOMAIN t.conns, NEW y, Ran(t, y, m, x.req), Well(y),
             IF Answers(x.req) = "leave" THEN Loses(y, v, {m}) ELSE v = y
      PROVE  Own(v)
  <2>1. Own(y)
    BY <1>6, OwnRan DEF Well
  <2> QED
    BY <1>6, <2>1, OwnLoses DEF Well
<1>7. ASSUME NEW t, Taken(u, t, m, x.user) PROVE Own(t) /\ m \in DOMAIN t.conns
  <2>1. Ours(u, t) /\ m \in DOMAIN t.conns
    BY <1>2, <1>7 DEF Taken, Ours
  <2> QED
    BY <1>2, <1>5, <2>1, OursOwn DEF Well
<1>8. Own(v)
  <2>1. CASE \E t : Taken(u, t, m, x.user) /\ Well(t)
               /\ \E y : /\ Ran(t, y, m, x.req) /\ Well(y)
                         /\ IF Answers(x.req) = "leave" THEN Loses(y, v, {m}) ELSE v = y
    BY <1>6, <1>7, <2>1
  <2>2. CASE v = u
    BY <1>5, <2>2
  <2>3. CASE Loses(u, v, {m})
    BY <1>2, <1>5, <2>3, OwnLoses DEF Well
  <2>4. CASE m \in DOMAIN u.conns /\ \E y : /\ Ran(u, y, m, x.req) /\ Well(y)
                         /\ IF Answers(x.req) = "leave" THEN Loses(y, v, {m}) ELSE v = y
    BY <1>2, <1>5, <1>6, <2>4
  <2> QED
    BY <1>2, <2>1, <2>2, <2>3, <2>4 DEF HandlesOut
<1> QED
  BY <1>1, <1>8

LEMMA OnLinkClosedOwns ==
  ASSUME NEW l \in DOMAIN links, NEW s, Owning, OnLinkClosed(l, s)
  PROVE  Own(World)'
<1>1. PICK w, v : w = World /\ v = World'
  OBVIOUS
<1>2. s \in DOMAIN links[l].ends /\ Leaves(w, v, l, s)
  BY <1>1, OnLinkClosedIs DEF Owning
<1>3. Well(w) /\ Own(w) /\ w.links = links
  BY <1>1, WorldIs DEF Owning, Inv
<1>4. PICK u, x, came, went : u = SetEnd(w, l, s, "gone") /\ Loses(u, x, came) /\ Freed(x, v, went)
  BY <1>2 DEF Leaves
<1>5. ButLinks(w, u) /\ Linked(u) /\ \A k \in DOMAIN w.links : u.links[k].from = w.links[k].from
  <2>1. PICK e \in {"up", "closed", "gone"} : e = "gone"
    OBVIOUS
  <2>2. Ended(w, u, l, s, e)
    BY <1>2, <1>3, <1>4, <2>1, SetEndDoes DEF Well
  <2> QED
    BY <2>2 DEF Ended
<1>6. Own(u)
  <2>1. Ours(w, u)
    BY <1>5 DEF Ours, ButLinks
  <2> QED
    BY <1>3, <2>1, OursOwn DEF Well
<1>7. Own(x) /\ Linked(x)
  BY <1>4, <1>5, <1>6, OwnLoses, LosesLinked
<1>8. Ours(x, v)
  BY <1>4 DEF Freed, Ours
<1>9. Own(v)
  BY <1>7, <1>8, OursOwn
<1> QED
  BY <1>1, <1>9

LEMMA CutOwns ==
  ASSUME Owning, UNCHANGED conns, NEW l \in DOMAIN links, NEW k \in Link, k.from = links[l].from,
         links' = [links EXCEPT ![l] = k]
  PROVE  Own(World)'
<1>1. PICK w, v : w = World /\ v = World'
  OBVIOUS
<1>2. Well(w) /\ Own(w) /\ w.links = links /\ w.conns = conns
  BY <1>1, WorldIs DEF Owning, Inv
<1>3. v.links = links' /\ v.conns = conns
  BY <1>1 DEF World
<1>4. \A i \in DOMAIN links : links'[i].from = links[i].from
  OBVIOUS
<1>5. Ours(w, v)
  BY <1>2, <1>3, <1>4 DEF Ours
<1>6. Own(v)
  BY <1>2, <1>5, OursOwn DEF Well
<1> QED
  BY <1>1, <1>6

LEMMA OwningKept ==
  ASSUME Owning, [Next]_vars
  PROVE  Owning'
<1>0. Inv /\ Inv' /\ Own(World) /\ Linked(World) /\ World.links = links /\ World.conns = conns
  BY Inductive, WorldIs DEF Owning, Inv, Well
<1>1. ASSUME NEW c \in Clients, Request(c) PROVE Own(World)'
  <2>1. PICK w, v : w = World /\ v = World'
    OBVIOUS
  <2>2. c \in DOMAIN w.conns /\ \E req \in Requests : Ran(w, v, c, req)
    BY <1>0, <1>1, <2>1, RequestIs
  <2>3. Own(v)
    BY <1>0, <2>1, <2>2, OwnRan
  <2> QED
    BY <2>1, <2>3
<1>2. ASSUME NEW c \in Clients, Gcre(c) PROVE Own(World)'
  BY <1>2, GcreOwns
<1>3. ASSUME NEW c \in Clients, Hangup(c) PROVE Own(World)'
  BY <1>3, HangupOwns
<1>4. ASSUME World' = World PROVE Own(World)'
  BY <1>0, <1>4
<1>5. ASSUME SendHeld PROVE Own(World)'
  <2>1. PICK w, v : w = World /\ v = World'
    OBVIOUS
  <2>2. Own(v)
    BY <1>0, <1>5, <2>1, SendHeldIs, OwnStays DEF AtHome
  <2> QED
    BY <2>1, <2>2
<1>6. ASSUME NEW l \in DOMAIN links, HandleOut(l) PROVE Own(World)'
  BY <1>6, HandleOutOwns
<1>7. ASSUME NEW l \in DOMAIN links, HandleBack(l) PROVE Own(World)'
  <2>1. PICK w, u, v, x, c : w = World /\ v = World' /\ u = TakenBack(w, l) /\ x = Head(wire[l].back)
                             /\ c = CHOOSE d \in Addressees(l, x.id) : TRUE
    OBVIOUS
  <2>2. wire[l].back # <<>> /\ (v = u \/ Delivered(u, v, c, x.answers, x.record))
    BY <1>0, <1>7, <2>1, HandleBackIs
  <2>3. ButWire(w, u)
    BY <1>0, <2>1, <2>2, WorldIs, TakenBackDoes DEF Inv
  <2>4. v.conns = w.conns /\ v.links = w.links
    BY <2>2, <2>3 DEF ButWire, Delivered
  <2>5. Own(v)
    BY <1>0, <2>1, <2>4, OwnSame
  <2> QED
    BY <2>1, <2>5
<1>8. links \in Seq(Link)
  BY <1>0, WorldHas DEF Linked, Wired
<1>9. ASSUME NEW l \in DOMAIN links, NEW s \in Servers, Notice(l, s) PROVE Own(World)'
  <2>1. PICK k, e : k = [links[l] EXCEPT !.ends = e] /\ e = [links[l].ends EXCEPT ![s] = "closed"]
    OBVIOUS
  <2>2. links' = [links EXCEPT ![l] = k] /\ UNCHANGED conns
    BY <1>0, <1>9, <2>1, NoticeIs
  <2>3. k.from = links[l].from
    BY <1>8, <2>1 DEF Link
  <2>4. k \in Link
    <3>1. PICK v : v = World'
      OBVIOUS
    <3>2. Well(v)
      BY <1>0, <3>1 DEF Inv
    <3>3. v.links = links'
      BY <3>1 DEF World
    <3>4. v.links \in Seq(Link)
      BY <3>2, WorldHas DEF Well, Linked, Wired
    <3>5. links'[l] = k /\ DOMAIN links' = DOMAIN links
      BY <1>8, <2>2
    <3> QED
      BY <3>3, <3>4, <3>5
  <2> QED
    BY <2>2, <2>3, <2>4, CutOwns
<1>10. ASSUME NEW l \in DOMAIN links, NEW s \in Servers, OnLinkClosed(l, s) PROVE Own(World)'
  BY <1>10, OnLinkClosedOwns
<1>11. ASSUME NEW l \in DOMAIN links, Break(l) PROVE Own(World)'
  <2>1. PICK k : k = [links[l] EXCEPT !.broken = TRUE]
    OBVIOUS
  <2>2. links' = [links EXCEPT ![l] = k] /\ UNCHANGED conns
    BY <1>0, <1>11, <2>1, BreakIs
  <2>3. k.from = links[l].from /\ k \in Link
    <3>1. links[l] \in Link
      BY <1>8
    <3> QED
      BY <2>1, <3>1 DEF Link
  <2> QED
    BY <2>2, <2>3, CutOwns
<1>12. ASSUME UNCHANGED vars PROVE Own(World)'
  <2>1. UNCHANGED <<conns, games, links, wire, held, told, owed>>
    BY <1>12 DEF vars, world
  <2>2. World' = World
    BY <2>1 DEF World
  <2> QED
    BY <1>4, <2>2
<1>13. ASSUME NEW g \in 1 .. MaxGames, NEW t \in Servers, Beacon(g, t) \/ Expire(g, t) PROVE Own(World)'
  <2>1. World' = World
    BY <1>0, <1>13, BeaconIs, ExpireIs
  <2> QED
    BY <1>4, <2>1
<1>14. Own(World)'
  BY <1>1, <1>2, <1>3, <1>5, <1>6, <1>7, <1>9, <1>10, <1>11, <1>12, <1>13 DEF Next, ServeLinks
<1> QED
  BY <1>0, <1>14 DEF Owning

\* When nothing is on its way, everyone in a game was last told who is in it, wherever
\* the game is and whatever broke: all who join, leave, are moved or change a game's
\* host have its players told (SendGameToPlayers), also those whose join was held back
\* (SendHeldPushes), and no server leaves a game to a link it has closed (OnLinkClosed).
THEOREM PlayersKnow == Spec => []PlayersAreTold
<1>1. Sure /\ Owning => PlayersAreTold
  <2> SUFFICES ASSUME Sure, Owning, AllQuiet, NEW c \in Clients \cap DOMAIN conns,
                      Seat(c) \in DOMAIN conns, conns[Seat(c)].game # 0
               PROVE  told[c] = GameRecord(World, conns[Seat(c)].game)
    BY DEF PlayersAreTold
  <2>1. PICK w, m, l, g, r : /\ w = World /\ m = Seat(c) /\ l = conns[c].remote
                             /\ g = conns[m].game /\ r = GameRecord(w, g)
    OBVIOUS
  <2>2. /\ AllTold(w, {}) /\ Own(w) /\ Well(w) /\ Linked(w)
        /\ w.wire = wire /\ w.links = links /\ w.conns = conns /\ w.told = told /\ w.held = held
    BY <2>1, InvHas, WorldIs DEF Sure, Owning
  <2>3. ~ InDoubt(w, m)
    BY <2>1, <2>2 DEF AllTold
  <2>4. g \notin ToSet(w.held)
    BY <2>2 DEF AllQuiet, ToSet
  <2>5. Knows(w, m, r)
    BY <2>1, <2>2, <2>3, <2>4 DEF InDoubt
  <2>6. CASE l = 0
    BY <2>1, <2>2, <2>5, <2>6 DEF Seat, Knows
  <2>7. CASE l # 0
    <3>1. m = <<l, Id[c]>> /\ m[1] = l /\ m[2] = Id[c]
      BY <2>1, <2>7 DEF Seat
    <3>2. l \in DOMAIN links /\ l \in 1 .. MaxLinks /\ links[l] \in Link
      BY <2>1, <2>2, <2>7, WiredHas DEF Linked
    <3>3. links[l].from = At[c]
      BY <2>1, <2>2, <2>7 DEF Own
    <3>4. m \notin Clients
      BY <3>1, <3>2, NamesAssumption DEF Ids
    <3>5. At[c] \in DOMAIN links[l].ends
      BY <3>2, <3>3 DEF Link
    <3>6. links[l].ends[At[c]] # "gone"
      BY <2>1, <2>2, <3>2, <3>5 DEF Well, LeftLinks
    <3>7. Quiet(l)
      BY <3>2, <3>5, <3>6 DEF AllQuiet
    <3>8. ~ links[l].broken /\ wire[l].out = <<>> /\ wire[l].back = <<>>
      BY <3>7 DEF Quiet
    <3>9. Stands(w, m)
      BY <2>2, <3>1, <3>8 DEF Stands, Unsettled
    <3>10. c \in PlaysFor(w, m)
      BY <2>1, <2>2, <3>1, <3>3 DEF PlaysFor
    <3>11. Latest(<<>>, Id[c], told[c], r)
      BY <2>2, <2>5, <3>1, <3>4, <3>8, <3>9, <3>10 DEF Knows
    <3>12. told[c] = r
      BY <3>11 DEF Latest
    <3> QED
      BY <2>1, <3>12
  <2> QED
    BY <2>6, <2>7
<1> QED
  BY <1>1, SureFirst, SureKept, OwningFirst, OwningKept, PTL DEF Spec
=============================================================================
