------------------------- MODULE LobbyServerProofs -------------------------
(***************************************************************************)
(* What ealobby::Server keeps of its games, whatever its clients do, for   *)
(* any number of connections, players and games.                           *)
(*                                                                         *)
(* A handler is a chain of functions of the world, so first comes what     *)
(* each of them does to a world, then what each keeps of it, then one step *)
(* per action.                                                             *)
(***************************************************************************)
EXTENDS LobbyServer, FoldLemmas

-----------------------------------------------------------------------------
(* Worlds *)

\* A game as a handler leaves it for a moment: of a descriptor closed under gdel
\* its list has 0.
AnyGame ==
  [host : Personas \cup {NoUser}, players : Seq(Fds \cup {0}), maxsize : Sizes, locked : BOOLEAN]

Worlds ==
  [conns : UNION {[D -> Connection] : D \in SUBSET Fds},
   games : UNION {[D -> AnyGame] : D \in SUBSET (1 .. MaxGames)},
   net : [Fds -> Ends]]

LEMMA WorldHas ==
  ASSUME NEW w \in Worlds
  PROVE  /\ w = [conns |-> w.conns, games |-> w.games, net |-> w.net]
         /\ DOMAIN w.conns \subseteq Fds /\ w.conns \in [DOMAIN w.conns -> Connection]
         /\ DOMAIN w.games \subseteq 1 .. MaxGames /\ w.games \in [DOMAIN w.games -> AnyGame]
         /\ w.net \in [Fds -> Ends]
  BY DEF Worlds

LEMMA WorldOf ==
  ASSUME NEW c, NEW g, NEW n,
         DOMAIN c \subseteq Fds, c \in [DOMAIN c -> Connection],
         DOMAIN g \subseteq 1 .. MaxGames, g \in [DOMAIN g -> AnyGame],
         n \in [Fds -> Ends]
  PROVE  [conns |-> c, games |-> g, net |-> n] \in Worlds
  BY DEF Worlds

LEMMA WorldExcept ==
  ASSUME NEW w \in Worlds, NEW c, NEW g, NEW n
  PROVE  /\ [w EXCEPT !.conns = c] = [conns |-> c, games |-> w.games, net |-> w.net]
         /\ [w EXCEPT !.games = g] = [conns |-> w.conns, games |-> g, net |-> w.net]
         /\ [w EXCEPT !.net = n] = [conns |-> w.conns, games |-> w.games, net |-> n]
         /\ [w EXCEPT !.conns = c, !.games = g] = [conns |-> c, games |-> g, net |-> w.net]
         /\ [w EXCEPT !.conns = c, !.net = n] = [conns |-> c, games |-> w.games, net |-> n]
<1>1. PICK a, b, e : w = [conns |-> a, games |-> b, net |-> e]
  BY WorldHas
<1>2. w.conns = a /\ w.games = b /\ w.net = e
  BY <1>1
<1>3. /\ [w EXCEPT !.conns = c] = [conns |-> c, games |-> b, net |-> e]
      /\ [w EXCEPT !.games = g] = [conns |-> a, games |-> g, net |-> e]
      /\ [w EXCEPT !.net = n] = [conns |-> a, games |-> b, net |-> n]
  BY <1>1
<1>4. /\ [w EXCEPT !.conns = c, !.games = g] = [[w EXCEPT !.conns = c] EXCEPT !.games = g]
      /\ [w EXCEPT !.conns = c, !.net = n] = [[w EXCEPT !.conns = c] EXCEPT !.net = n]
  OBVIOUS
<1>5. PICK u : u = [conns |-> c, games |-> b, net |-> e]
  OBVIOUS
<1>6. /\ [u EXCEPT !.games = g] = [conns |-> c, games |-> g, net |-> e]
      /\ [u EXCEPT !.net = n] = [conns |-> c, games |-> b, net |-> n]
  BY <1>5
<1> QED
  BY <1>2, <1>3, <1>4, <1>5, <1>6

\* What a step makes of the world is the world after it.
LEMMA BecomesIs ==
  ASSUME NEW v \in Worlds, Becomes(v)
  PROVE  World' = v
  BY WorldHas DEF Becomes, World

-----------------------------------------------------------------------------
(* What the handlers are made of *)

\* A connection's place in connections_, and who it is, are kept.
SameConns(w, v) ==
  /\ DOMAIN v.conns = DOMAIN w.conns
  /\ \A x \in DOMAIN w.conns : /\ v.conns[x].role = w.conns[x].role
                               /\ v.conns[x].user = w.conns[x].user
                               /\ v.conns[x].id = w.conns[x].id

\* Its socket is what it was, or it was found out to be reset, and is closed.
SameSockets(w, v) ==
  \A x \in Fds :
    \/ v.net[x] = w.net[x] /\ (x \in DOMAIN w.conns => v.conns[x].up = w.conns[x].up)
    \/ /\ x \in DOMAIN w.conns /\ w.conns[x].up /\ w.net[x] = "reset"
       /\ ~ v.conns[x].up /\ v.net[x] = "free"

\* A send changes nothing else.
Sent(w, v) ==
  /\ v \in Worlds
  /\ SameConns(w, v) /\ SameSockets(w, v)
  /\ \A x \in DOMAIN w.conns : v.conns[x].game = w.conns[x].game
  /\ v.games = w.games

LEMMA CloseSocketsDoes ==
  ASSUME NEW w \in Worlds, NEW S
  PROVE  LET v == CloseSockets(w, S) IN
         /\ v \in Worlds
         /\ SameConns(w, v)
         /\ \A x \in DOMAIN w.conns : /\ v.conns[x].game = w.conns[x].game
                                      /\ v.conns[x].up = (w.conns[x].up /\ x \notin S)
         /\ v.games = w.games
         /\ \A x \in Fds : v.net[x] = IF x \in S THEN "free" ELSE w.net[x]
<1> DEFINE c == [fd \in DOMAIN w.conns |-> IF fd \in S THEN [w.conns[fd] EXCEPT !.up = FALSE]
                                                       ELSE w.conns[fd]]
           n == [fd \in Fds |-> IF fd \in S THEN "free" ELSE w.net[fd]]
<1>1. /\ DOMAIN w.conns \subseteq Fds /\ w.conns \in [DOMAIN w.conns -> Connection]
      /\ DOMAIN w.games \subseteq 1 .. MaxGames /\ w.games \in [DOMAIN w.games -> AnyGame]
      /\ w.net \in [Fds -> Ends]
  BY WorldHas
<1>2. CloseSockets(w, S) = [conns |-> c, games |-> w.games, net |-> n]
  <2>1. CloseSockets(w, S) = [w EXCEPT !.conns = c, !.net = n]
    BY DEF CloseSockets
  <2> HIDE DEF c, n
  <2> QED
    BY <2>1, WorldExcept
<1>3. \A x \in DOMAIN w.conns :
        /\ c[x] \in Connection
        /\ c[x].role = w.conns[x].role /\ c[x].user = w.conns[x].user
        /\ c[x].id = w.conns[x].id /\ c[x].game = w.conns[x].game
        /\ c[x].up = (w.conns[x].up /\ x \notin S)
  BY <1>1 DEF Connection
<1>4. DOMAIN c = DOMAIN w.conns /\ c \in [DOMAIN c -> Connection]
  BY <1>3
<1>5. n \in [Fds -> Ends] /\ \A x \in Fds : n[x] = IF x \in S THEN "free" ELSE w.net[x]
  BY <1>1 DEF Ends
<1> HIDE DEF c, n
<1>6. CloseSockets(w, S) \in Worlds
  BY <1>1, <1>2, <1>4, <1>5, WorldOf
<1> QED
  BY <1>2, <1>3, <1>4, <1>5, <1>6 DEF SameConns

\* After a send to it, a connection is not both open and reset.
LEMMA SendDoes ==
  ASSUME NEW w \in Worlds, NEW fds
  PROVE  LET v == Send(w, fds) IN
         /\ Sent(w, v)
         /\ \A x \in fds \cap DOMAIN w.conns : v.conns[x].up => v.net[x] # "reset"
<1> DEFINE S == {fd \in fds \cap DOMAIN w.conns : w.conns[fd].up /\ w.net[fd] = "reset"}
           v == Send(w, fds)
<1>1. v = CloseSockets(w, S)
  BY DEF Send
<1>2. /\ DOMAIN w.conns \subseteq Fds
      /\ \A x \in DOMAIN w.conns : w.conns[x].up \in BOOLEAN
  BY WorldHas DEF Connection
<1>3. /\ \A x \in S : x \in DOMAIN w.conns /\ w.conns[x].up /\ w.net[x] = "reset"
      /\ \A x \in fds \cap DOMAIN w.conns : w.conns[x].up /\ w.net[x] = "reset" => x \in S
  OBVIOUS
<1> HIDE DEF S, v
<1>4. /\ v \in Worlds
      /\ SameConns(w, v)
      /\ \A x \in DOMAIN w.conns : /\ v.conns[x].game = w.conns[x].game
                                   /\ v.conns[x].up = (w.conns[x].up /\ x \notin S)
      /\ v.games = w.games
      /\ \A x \in Fds : v.net[x] = IF x \in S THEN "free" ELSE w.net[x]
  BY <1>1, CloseSocketsDoes
<1>5. SameSockets(w, v)
  BY <1>2, <1>3, <1>4 DEF SameSockets
<1>6. \A x \in fds \cap DOMAIN w.conns : v.conns[x].up => v.net[x] # "reset"
  BY <1>2, <1>3, <1>4
<1> QED
  BY <1>4, <1>5, <1>6 DEF Sent, v

\* fd's connection is in the game id, or in none.
InGame(w, fd, id) == [w EXCEPT !.conns[fd].game = id]

LEMMA InGameDoes ==
  ASSUME NEW w \in Worlds, NEW fd \in DOMAIN w.conns, NEW id \in 0 .. MaxGames
  PROVE  LET v == InGame(w, fd, id) IN
         /\ v \in Worlds
         /\ v.games = w.games /\ v.net = w.net
         /\ SameConns(w, v)
         /\ \A x \in DOMAIN w.conns : /\ v.conns[x].up = w.conns[x].up
                                      /\ v.conns[x].game = IF x = fd THEN id ELSE w.conns[x].game
<1> DEFINE c == [w.conns EXCEPT ![fd] = [w.conns[fd] EXCEPT !.game = id]]
<1>1. /\ DOMAIN w.conns \subseteq Fds /\ w.conns \in [DOMAIN w.conns -> Connection]
      /\ DOMAIN w.games \subseteq 1 .. MaxGames /\ w.games \in [DOMAIN w.games -> AnyGame]
      /\ w.net \in [Fds -> Ends]
  BY WorldHas
<1>2. InGame(w, fd, id) = [w EXCEPT !.conns = c]
  BY DEF InGame
<1>3. DOMAIN c = DOMAIN w.conns /\ \A x \in DOMAIN w.conns : x # fd => c[x] = w.conns[x]
  BY <1>1
<1>4. /\ c[fd] \in Connection
      /\ c[fd].role = w.conns[fd].role /\ c[fd].up = w.conns[fd].up
      /\ c[fd].user = w.conns[fd].user /\ c[fd].id = w.conns[fd].id /\ c[fd].game = id
  BY <1>1 DEF Connection
<1> HIDE DEF c
<1>5. InGame(w, fd, id) = [conns |-> c, games |-> w.games, net |-> w.net]
  BY <1>2, WorldExcept
<1>6. c \in [DOMAIN c -> Connection]
  <2>1. c = [x \in DOMAIN w.conns |-> c[x]]
    BY <1>1 DEF c
  <2> QED
    BY <1>1, <1>3, <1>4, <2>1
<1>7. InGame(w, fd, id) \in Worlds
  BY <1>1, <1>3, <1>5, <1>6, WorldOf
<1> QED
  BY <1>3, <1>4, <1>5, <1>7 DEF SameConns

LEMMA GameOfPlayers ==
  ASSUME NEW g \in AnyGame, NEW list \in Seq(Fds \cup {0})
  PROVE  LET k == [g EXCEPT !.players = list] IN
         /\ k \in AnyGame
         /\ k.players = list
         /\ k.host = g.host /\ k.maxsize = g.maxsize /\ k.locked = g.locked
<1>1. PICK a, b, m, o : /\ g = [host |-> a, players |-> b, maxsize |-> m, locked |-> o]
                        /\ a \in Personas \cup {NoUser} /\ b \in Seq(Fds \cup {0})
                        /\ m \in Sizes /\ o \in BOOLEAN
  BY DEF AnyGame
<1>2. PICK k : k = [host |-> a, players |-> list, maxsize |-> m, locked |-> o]
  OBVIOUS
<1>3. [g EXCEPT !.players = list] = k
  BY <1>1, <1>2
<1> QED
  BY <1>1, <1>2, <1>3 DEF AnyGame

LEMMA GameOfLock ==
  ASSUME NEW g \in AnyGame, NEW l \in BOOLEAN
  PROVE  LET k == [g EXCEPT !.locked = l] IN
         /\ k \in AnyGame
         /\ k.locked = l
         /\ k.host = g.host /\ k.maxsize = g.maxsize /\ k.players = g.players
<1>1. PICK a, b, m, o : /\ g = [host |-> a, players |-> b, maxsize |-> m, locked |-> o]
                        /\ a \in Personas \cup {NoUser} /\ b \in Seq(Fds \cup {0})
                        /\ m \in Sizes /\ o \in BOOLEAN
  BY DEF AnyGame
<1>2. PICK k : k = [host |-> a, players |-> b, maxsize |-> m, locked |-> l]
  OBVIOUS
<1>3. [g EXCEPT !.locked = l] = k
  BY <1>1, <1>2
<1> QED
  BY <1>1, <1>2, <1>3 DEF AnyGame

\* g with other players, the first of whom may be a new host.
Passed(g, list, host) == [g EXCEPT !.players = list, !.host = host]

\* What Passed is given: the players left and the name of the first of them.
PlayersAndHosts == Seq(Fds \cup {0}) \X (Personas \cup {NoUser})

LEMMA GameOfHost ==
  ASSUME NEW g \in AnyGame, NEW list, NEW host, <<list, host>> \in PlayersAndHosts
  PROVE  LET k == Passed(g, list, host) IN
         /\ k \in AnyGame
         /\ k.players = list /\ k.host = host
         /\ k.maxsize = g.maxsize /\ k.locked = g.locked
<1>1. PICK a, b, m, o : /\ g = [host |-> a, players |-> b, maxsize |-> m, locked |-> o]
                        /\ a \in Personas \cup {NoUser} /\ b \in Seq(Fds \cup {0})
                        /\ m \in Sizes /\ o \in BOOLEAN
  BY DEF AnyGame
<1>7. list \in Seq(Fds \cup {0}) /\ host \in Personas \cup {NoUser}
  BY DEF PlayersAndHosts
<1>2. PICK k : k = [host |-> a, players |-> list, maxsize |-> m, locked |-> o]
  OBVIOUS
<1>3. [g EXCEPT !.players = list] = k
  BY <1>1, <1>2
<1>4. Passed(g, list, host) = [[g EXCEPT !.players = list] EXCEPT !.host = host]
  BY DEF Passed
<1>5. [k EXCEPT !.host = host] = [host |-> host, players |-> list, maxsize |-> m, locked |-> o]
  BY <1>2
<1>6. Passed(g, list, host) = [host |-> host, players |-> list, maxsize |-> m, locked |-> o]
  BY <1>3, <1>4, <1>5
<1> QED
  BY <1>1, <1>6, <1>7 DEF AnyGame

\* The game id becomes g.
PutGame(w, id, g) == [w EXCEPT !.games[id] = g]

LEMMA PutGameDoes ==
  ASSUME NEW w \in Worlds, NEW id \in DOMAIN w.games, NEW g \in AnyGame
  PROVE  LET v == PutGame(w, id, g) IN
         /\ v \in Worlds
         /\ v.conns = w.conns /\ v.net = w.net
         /\ DOMAIN v.games = DOMAIN w.games
         /\ v.games[id] = g
         /\ \A i \in DOMAIN w.games \ {id} : v.games[i] = w.games[i]
<1>1. /\ DOMAIN w.conns \subseteq Fds /\ w.conns \in [DOMAIN w.conns -> Connection]
      /\ DOMAIN w.games \subseteq 1 .. MaxGames /\ w.games \in [DOMAIN w.games -> AnyGame]
      /\ w.net \in [Fds -> Ends]
  BY WorldHas
<1> DEFINE v == PutGame(w, id, g)
           gs == [w.games EXCEPT ![id] = g]
<1>2. v = [w EXCEPT !.games = gs]
  BY DEF PutGame
<1>3. /\ DOMAIN gs = DOMAIN w.games /\ gs \in [DOMAIN gs -> AnyGame]
      /\ gs[id] = g /\ \A i \in DOMAIN w.games \ {id} : gs[i] = w.games[i]
  BY <1>1
<1> HIDE DEF v, gs
<1>4. v = [conns |-> w.conns, games |-> gs, net |-> w.net]
  BY <1>2, WorldExcept
<1>5. v \in Worlds
  BY <1>1, <1>3, <1>4, WorldOf
<1> QED
  BY <1>3, <1>4, <1>5 DEF v

\* The connection fd becomes c.
PutConn(w, fd, c) == [w EXCEPT !.conns[fd] = c]

LEMMA PutConnDoes ==
  ASSUME NEW w \in Worlds, NEW fd \in DOMAIN w.conns, NEW c \in Connection
  PROVE  LET v == PutConn(w, fd, c) IN
         /\ v \in Worlds
         /\ v.games = w.games /\ v.net = w.net
         /\ DOMAIN v.conns = DOMAIN w.conns
         /\ v.conns[fd] = c
         /\ \A x \in DOMAIN w.conns \ {fd} : v.conns[x] = w.conns[x]
<1>1. /\ DOMAIN w.conns \subseteq Fds /\ w.conns \in [DOMAIN w.conns -> Connection]
      /\ DOMAIN w.games \subseteq 1 .. MaxGames /\ w.games \in [DOMAIN w.games -> AnyGame]
      /\ w.net \in [Fds -> Ends]
  BY WorldHas
<1> DEFINE v == PutConn(w, fd, c)
           cs == [w.conns EXCEPT ![fd] = c]
<1>2. v = [w EXCEPT !.conns = cs]
  BY DEF PutConn
<1>3. /\ DOMAIN cs = DOMAIN w.conns /\ cs \in [DOMAIN cs -> Connection]
      /\ cs[fd] = c /\ \A x \in DOMAIN w.conns \ {fd} : cs[x] = w.conns[x]
  BY <1>1
<1> HIDE DEF v, cs
<1>4. v = [conns |-> cs, games |-> w.games, net |-> w.net]
  BY <1>2, WorldExcept
<1>5. v \in Worlds
  BY <1>1, <1>3, <1>4, WorldOf
<1> QED
  BY <1>3, <1>4, <1>5 DEF v

\* g becomes k when the player h, of the name user, leaves it and others stay.
Thinned(w, g, k, h, user) ==
  /\ k.players # <<>>
  /\ ToSet(k.players) = ToSet(g.players) \ {h}
  /\ IsInjective(g.players) => IsInjective(k.players)
  /\ g.players # <<>> /\ Head(g.players) # h => Head(k.players) = Head(g.players)
  /\ k.locked = g.locked /\ k.maxsize = g.maxsize
  /\ k.host = IF g.host = user /\ Head(k.players) \in DOMAIN w.conns THEN w.conns[Head(k.players)].user
                                                                   ELSE g.host

\* v is w after fd left its game.
Left(w, v, fd) ==
  LET id == w.conns[fd].game
      h == Handle(w, fd)
  IN /\ v \in Worlds
     /\ SameConns(w, v) /\ SameSockets(w, v)
     /\ \A x \in DOMAIN w.conns : v.conns[x].game = IF x = fd THEN 0 ELSE w.conns[x].game
     /\ DOMAIN w.games \ {id} \subseteq DOMAIN v.games /\ DOMAIN v.games \subseteq DOMAIN w.games
     /\ \A i \in DOMAIN w.games \ {id} : v.games[i] = w.games[i]
     /\ id \in DOMAIN w.games \ DOMAIN v.games => ToSet(w.games[id].players) \subseteq {h}
     /\ id \in DOMAIN v.games => Thinned(w, w.games[id], v.games[id], h, w.conns[fd].user)

LEMMA LeaveGameDoes ==
  ASSUME NEW w \in Worlds, NEW fd \in DOMAIN w.conns
  PROVE  Left(w, LeaveGame(w, fd), fd)
<1>1. /\ DOMAIN w.conns \subseteq Fds /\ w.conns \in [DOMAIN w.conns -> Connection]
      /\ DOMAIN w.games \subseteq 1 .. MaxGames /\ w.games \in [DOMAIN w.games -> AnyGame]
      /\ w.net \in [Fds -> Ends]
  BY WorldHas
<1> DEFINE id == w.conns[fd].game
           h == Handle(w, fd)
           user == w.conns[fd].user
           out == InGame(w, fd, 0)
           v == LeaveGame(w, fd)
           g == w.games[id]
           list == g.players
           rest == Only(list, ToSet(list) \ {h})
           host == IF g.host = user /\ Head(rest) \in DOMAIN w.conns THEN w.conns[Head(rest)].user ELSE g.host
<1>2. /\ id = w.conns[fd].game /\ h = Handle(w, fd) /\ user = w.conns[fd].user
      /\ out = InGame(w, fd, 0) /\ v = LeaveGame(w, fd)
  OBVIOUS
<1>3. /\ g = w.games[id] /\ list = g.players
      /\ rest = Only(list, ToSet(list) \ {h})
      /\ host = IF g.host = user /\ Head(rest) \in DOMAIN w.conns THEN w.conns[Head(rest)].user ELSE g.host
  OBVIOUS
<1>4. v = IF id \notin DOMAIN w.games THEN out
          ELSE IF rest = <<>> THEN [out EXCEPT !.games = Without(out.games, id)]
          ELSE SendGame([out EXCEPT !.games[id] = [g EXCEPT !.players = rest, !.host = host]], id)
  BY DEF LeaveGame, InGame
<1> HIDE DEF id, h, user, out, v, g, list, rest, host
<1>5. /\ out \in Worlds
      /\ out.games = w.games /\ out.net = w.net
      /\ SameConns(w, out)
      /\ \A x \in DOMAIN w.conns : /\ out.conns[x].up = w.conns[x].up
                                   /\ out.conns[x].game = IF x = fd THEN 0 ELSE w.conns[x].game
  <2>1. 0 \in 0 .. MaxGames
    BY BoundsAssumption
  <2> QED
    BY <1>2, <2>1, InGameDoes
<1>6. DOMAIN out.conns = DOMAIN w.conns /\ DOMAIN out.conns \subseteq Fds
      /\ out.conns \in [DOMAIN out.conns -> Connection]
  BY <1>5, WorldHas DEF SameConns
<1>7. CASE id \notin DOMAIN w.games
  <2>1. v = out
    BY <1>4, <1>7
  <2>2. Left(w, out, fd)
    BY <1>2, <1>5, <1>7 DEF Left, SameSockets
  <2> QED
    BY <1>2, <2>1, <2>2
<1>8. ASSUME id \in DOMAIN w.games
      PROVE  /\ g \in AnyGame /\ list \in Seq(Fds \cup {0})
             /\ rest \in Seq(Fds \cup {0})
             /\ ToSet(rest) = ToSet(list) \ {h}
             /\ IsInjective(list) => IsInjective(rest)
             /\ list # <<>> /\ Head(list) # h => Head(rest) = Head(list)
  <2>1. g \in AnyGame
    BY <1>1, <1>3, <1>8
  <2>2. list \in Seq(Fds \cup {0})
    BY <1>3, <2>1 DEF AnyGame
  <2>3. PICK S : S = ToSet(list) \ {h}
    OBVIOUS
  <2>4. /\ Only(list, S) \in Seq(Fds \cup {0})
        /\ ToSet(Only(list, S)) = ToSet(list) \cap S
        /\ IsInjective(list) => IsInjective(Only(list, S))
        /\ list # <<>> /\ Head(list) \in S => Head(Only(list, S)) = Head(list)
    BY <2>2, OnlyKeeps
  <2>5. list # <<>> => Head(list) \in ToSet(list)
    BY <2>2 DEF ToSet
  <2> QED
    BY <1>3, <2>1, <2>2, <2>3, <2>4, <2>5
<1>9. CASE id \in DOMAIN w.games /\ rest = <<>>
  <2>1. v = [out EXCEPT !.games = Without(out.games, id)]
    BY <1>4, <1>9
  <2>2. PICK gs : gs = Without(w.games, id)
    OBVIOUS
  <2>3. v = [conns |-> out.conns, games |-> gs, net |-> w.net]
    <3>1. v = [out EXCEPT !.games = gs] /\ out \in Worlds /\ out.net = w.net
      BY <1>5, <2>1, <2>2
    <3>2. [out EXCEPT !.games = gs] = [conns |-> out.conns, games |-> gs, net |-> out.net]
      BY <3>1, WorldExcept
    <3> QED
      BY <3>1, <3>2
  <2>4. /\ DOMAIN gs = DOMAIN w.games \ {id} /\ gs \in [DOMAIN gs -> AnyGame]
        /\ \A i \in DOMAIN w.games \ {id} : gs[i] = w.games[i]
    BY <1>1, <2>2 DEF Without
  <2>5. v \in Worlds
    BY <1>1, <1>6, <2>3, <2>4, WorldOf
  <2>6. ToSet(list) \subseteq {h}
    <3>1. ToSet(<<>>) = {}
      BY DEF ToSet
    <3> QED
      BY <1>8, <1>9, <3>1
  <2>7. v.conns = out.conns /\ v.games = gs /\ v.net = w.net
    BY <2>3
  <2>8. SameConns(w, v) /\ SameSockets(w, v)
    BY <1>5, <2>7 DEF SameConns, SameSockets
  <2>9. Left(w, v, fd)
    BY <1>2, <1>3, <1>5, <1>9, <2>4, <2>5, <2>6, <2>7, <2>8 DEF Left
  <2> QED
    BY <1>2, <2>9
<1>10. CASE id \in DOMAIN w.games /\ rest # <<>>
  <2>1. PICK k, thin : k = Passed(g, rest, host) /\ thin = PutGame(out, id, k)
    OBVIOUS
  <2>2. v = SendGame(thin, id)
    BY <1>4, <1>10, <2>1 DEF PutGame, Passed
  <2>3. host \in Personas \cup {NoUser}
    <3>1. g.host \in Personas \cup {NoUser}
      BY <1>8, <1>10 DEF AnyGame
    <3>2. \A x \in DOMAIN w.conns : w.conns[x].user \in Personas \cup {NoUser}
      BY <1>1 DEF Connection
    <3> QED
      BY <1>3, <3>1, <3>2
  <2>4. /\ k \in AnyGame
        /\ k.players = rest /\ k.host = host
        /\ k.locked = g.locked /\ k.maxsize = g.maxsize
    <3>1. g \in AnyGame /\ <<rest, host>> \in PlayersAndHosts
      BY <1>8, <1>10, <2>3 DEF PlayersAndHosts
    <3> HIDE DEF AnyGame
    <3>2. LET j == Passed(g, rest, host) IN
            j \in AnyGame /\ j.players = rest /\ j.host = host /\ j.maxsize = g.maxsize /\ j.locked = g.locked
      BY <3>1, GameOfHost
    <3> QED
      BY <2>1, <3>2
  <2>5. Thinned(w, g, k, h, user)
    BY <1>3, <1>8, <1>10, <2>4 DEF Thinned
  <2>6. /\ thin \in Worlds
        /\ thin.conns = out.conns /\ thin.net = w.net
        /\ DOMAIN thin.games = DOMAIN w.games
        /\ thin.games[id] = k /\ \A i \in DOMAIN w.games \ {id} : thin.games[i] = w.games[i]
    BY <1>5, <1>10, <2>1, <2>4, PutGameDoes
  <2>7. Sent(thin, v)
    BY <2>2, <2>6, SendDoes DEF SendGame
  <2>8. SameConns(w, v)
    BY <1>5, <2>6, <2>7 DEF Sent, SameConns
  <2>9. SameSockets(w, v)
    BY <1>5, <2>6, <2>7 DEF Sent, SameConns, SameSockets
  <2>10. \A x \in DOMAIN w.conns : v.conns[x].game = IF x = fd THEN 0 ELSE w.conns[x].game
    BY <1>5, <2>6, <2>7 DEF Sent, SameConns
  <2>11. v \in Worlds /\ v.games = thin.games
    BY <2>7 DEF Sent
  <2>12. Left(w, v, fd)
    BY <1>2, <1>3, <1>10, <2>5, <2>6, <2>8, <2>9, <2>10, <2>11 DEF Left
  <2> QED
    BY <1>2, <2>12
<1> QED
  BY <1>7, <1>9, <1>10

-----------------------------------------------------------------------------
(* What every world keeps, whatever happens *)

Live(w, x) == w.conns[x].id /\ w.net[x] \in {"ok", "fin"} /\ w.conns[x].up

\* Who logged in has a name, and who is in a game logged in.
Named(w) ==
  \A x \in DOMAIN w.conns : /\ w.conns[x].id => w.conns[x].user # NoUser
                            /\ w.conns[x].game # 0 => w.conns[x].id

\* Who is in a game is among its players.
Listed(w) ==
  \A x \in DOMAIN w.conns : w.conns[x].game # 0 =>
    w.conns[x].game \in DOMAIN w.games /\ x \in ToSet(w.games[w.conns[x].game].players)

\* A game has players, each with a descriptor.
Played(w) ==
  \A i \in DOMAIN w.games : w.games[i].players # <<>> /\ 0 \notin ToSet(w.games[i].players)

Well(w) == w \in Worlds /\ Named(w) /\ Listed(w) /\ Played(w)

One(w) ==
  \A a, b \in DOMAIN w.conns :
    Live(w, a) /\ Live(w, b) /\ w.conns[a].user = w.conns[b].user => a = b

\* From w to v nobody came, to the server or to a name, and no socket was lost.
Quiet(w, v) ==
  /\ SameConns(w, v)
  /\ \A x \in DOMAIN w.conns : /\ Live(v, x) => Live(w, x)
                               /\ v.conns[x].up /\ v.net[x] = "free" => w.conns[x].up /\ w.net[x] = "free"

\* Nobody came to a game either.
Fades(w, v) ==
  /\ Quiet(w, v)
  /\ DOMAIN v.games \subseteq DOMAIN w.games
  /\ \A i \in DOMAIN v.games : /\ ToSet(v.games[i].players) \subseteq ToSet(w.games[i].players)
                               /\ v.games[i].locked = w.games[i].locked

\* Nobody came to a game that was locked.
LocksHold(w, v) ==
  \A i \in DOMAIN w.games \cap DOMAIN v.games :
    w.games[i].locked => ToSet(v.games[i].players) \subseteq ToSet(w.games[i].players)

LEMMA QuietTwice ==
  ASSUME NEW w, NEW u, NEW v, Quiet(w, u), Quiet(u, v)
  PROVE  Quiet(w, v)
  BY DEF Quiet, SameConns

LEMMA FadesTwice ==
  ASSUME NEW w, NEW u, NEW v, Fades(w, u), Fades(u, v)
  PROVE  Fades(w, v)
  BY QuietTwice DEF Fades

LEMMA LocksStillHold ==
  ASSUME NEW w, NEW u, NEW v, LocksHold(w, u), Fades(u, v)
  PROVE  LocksHold(w, v)
  BY DEF LocksHold, Fades

LEMMA OneFades ==
  ASSUME NEW w, NEW v, One(w), Quiet(w, v)
  PROVE  One(v)
  BY DEF One, Quiet, SameConns

LEMMA SentKeeps ==
  ASSUME NEW w, NEW v, Well(w), Sent(w, v)
  PROVE  Well(v) /\ Fades(w, v)
<1>1. Well(v)
  BY DEF Well, Named, Listed, Played, Sent, SameConns
<1>2. \A x \in DOMAIN w.conns : x \in Fds
  BY WorldHas DEF Well
<1>3. \A x \in DOMAIN w.conns :
        /\ Live(v, x) => Live(w, x)
        /\ v.conns[x].up /\ v.net[x] = "free" => w.conns[x].up /\ w.net[x] = "free"
  BY <1>2 DEF Sent, SameSockets, SameConns, Live
<1> QED
  BY <1>1, <1>3 DEF Fades, Quiet, Sent

LEMMA SendKeeps ==
  ASSUME NEW w, NEW fds, Well(w)
  PROVE  Well(Send(w, fds)) /\ Fades(w, Send(w, fds))
  BY SendDoes, SentKeeps DEF Well

LEMMA LeftKeeps ==
  ASSUME NEW w, NEW fd \in DOMAIN w.conns, NEW v, Well(w), Left(w, v, fd)
  PROVE  Well(v) /\ Fades(w, v) /\ v.conns[fd].game = 0
<1> DEFINE id == w.conns[fd].game
           h == Handle(w, fd)
<1>1. h \in {fd, 0}
  BY DEF Handle
<1>2. \A x \in DOMAIN w.conns : x \in Fds /\ x # 0
  BY WorldHas, FdsAssumption DEF Well
<1> HIDE DEF h
<1>3. /\ v \in Worlds
      /\ SameConns(w, v) /\ SameSockets(w, v)
      /\ \A x \in DOMAIN w.conns : v.conns[x].game = IF x = fd THEN 0 ELSE w.conns[x].game
      /\ DOMAIN w.games \ {id} \subseteq DOMAIN v.games /\ DOMAIN v.games \subseteq DOMAIN w.games
      /\ \A i \in DOMAIN w.games \ {id} : v.games[i] = w.games[i]
      /\ id \in DOMAIN w.games \ DOMAIN v.games => ToSet(w.games[id].players) \subseteq {h}
      /\ id \in DOMAIN v.games => Thinned(w, w.games[id], v.games[id], h, w.conns[fd].user)
  BY DEF Left, h
<1>4. \A i \in DOMAIN v.games :
        /\ ToSet(v.games[i].players) \subseteq ToSet(w.games[i].players)
        /\ v.games[i].locked = w.games[i].locked
  BY <1>3 DEF Thinned
<1>5. \A x \in DOMAIN w.conns :
        /\ Live(v, x) => Live(w, x)
        /\ v.conns[x].up /\ v.net[x] = "free" => w.conns[x].up /\ w.net[x] = "free"
  BY <1>2, <1>3 DEF SameSockets, SameConns, Live
<1>6. Fades(w, v)
  <2>1. Quiet(w, v)
    BY <1>3, <1>5 DEF Quiet
  <2> QED
    BY <1>3, <1>4, <2>1 DEF Fades
<1>7. ASSUME NEW x \in DOMAIN v.conns, v.conns[x].game # 0
      PROVE  v.conns[x].game \in DOMAIN v.games /\ x \in ToSet(v.games[v.conns[x].game].players)
  <2>1. x \in DOMAIN w.conns /\ x # fd /\ v.conns[x].game = w.conns[x].game
    BY <1>3, <1>7 DEF SameConns
  <2>2. w.conns[x].game \in DOMAIN w.games /\ x \in ToSet(w.games[w.conns[x].game].players)
    BY <1>7, <2>1 DEF Well, Listed
  <2>3. x # h
    BY <1>1, <1>2, <2>1
  <2>4. CASE v.conns[x].game # id
    BY <1>3, <2>1, <2>2, <2>4
  <2>5. CASE v.conns[x].game = id
    <3>1. id \in DOMAIN v.games
      BY <1>3, <2>1, <2>2, <2>3, <2>5
    <3>2. ToSet(v.games[id].players) = ToSet(w.games[id].players) \ {h}
      BY <1>3, <3>1 DEF Thinned
    <3> QED
      BY <2>1, <2>2, <2>3, <2>5, <3>1, <3>2
  <2> QED
    BY <2>4, <2>5
<1>8. Played(v)
  BY <1>3, <1>4 DEF Well, Played, Thinned
<1>9. Named(v)
  BY <1>3 DEF Well, Named, SameConns
<1>10. v \in Worlds /\ v.conns[fd].game = 0
  BY <1>3
<1>11. Listed(v)
  BY <1>7 DEF Listed
<1>12. Well(v)
  BY <1>8, <1>9, <1>10, <1>11 DEF Well
<1> QED
  BY <1>6, <1>10, <1>12

LEMMA LeaveGameKeeps ==
  ASSUME NEW w, NEW fd \in DOMAIN w.conns, Well(w)
  PROVE  LET v == LeaveGame(w, fd) IN Well(v) /\ Fades(w, v) /\ v.conns[fd].game = 0
  BY LeaveGameDoes, LeftKeeps DEF Well

\* fd takes the seat after the game's players.
Seat(w, fd, id) == [w EXCEPT !.games[id].players = Append(@, fd), !.conns[fd].game = id]

LEMMA SeatDoes ==
  ASSUME NEW w \in Worlds, NEW fd \in DOMAIN w.conns, NEW id \in DOMAIN w.games
  PROVE  LET v == Seat(w, fd, id) IN
         /\ v \in Worlds
         /\ SameConns(w, v) /\ v.net = w.net
         /\ \A x \in DOMAIN w.conns : /\ v.conns[x].up = w.conns[x].up
                                      /\ v.conns[x].game = IF x = fd THEN id ELSE w.conns[x].game
         /\ DOMAIN v.games = DOMAIN w.games
         /\ \A i \in DOMAIN w.games \ {id} : v.games[i] = w.games[i]
         /\ v.games[id].players = Append(w.games[id].players, fd)
         /\ v.games[id].host = w.games[id].host
         /\ v.games[id].locked = w.games[id].locked /\ v.games[id].maxsize = w.games[id].maxsize
<1> DEFINE v == Seat(w, fd, id)
           k == [w.games[id] EXCEPT !.players = Append(w.games[id].players, fd)]
           u == PutGame(w, id, k)
<1>1. v = InGame(u, fd, id)
  BY DEF InGame, Seat, PutGame
<1> HIDE DEF v
<1>2. DOMAIN w.conns \subseteq Fds /\ w.games[id] \in AnyGame /\ id \in 0 .. MaxGames
  BY WorldHas, BoundsAssumption
<1>3. Append(w.games[id].players, fd) \in Seq(Fds \cup {0})
  BY <1>2 DEF AnyGame
<1>4. /\ k \in AnyGame
      /\ k.players = Append(w.games[id].players, fd)
      /\ k.host = w.games[id].host /\ k.locked = w.games[id].locked /\ k.maxsize = w.games[id].maxsize
  BY <1>2, <1>3, GameOfPlayers
<1> HIDE DEF k
<1>5. /\ u \in Worlds
      /\ u.conns = w.conns /\ u.net = w.net
      /\ DOMAIN u.games = DOMAIN w.games
      /\ u.games[id] = k
      /\ \A i \in DOMAIN w.games \ {id} : u.games[i] = w.games[i]
  BY <1>4, PutGameDoes
<1> HIDE DEF u
<1>6. /\ v \in Worlds
      /\ v.games = u.games /\ v.net = u.net
      /\ SameConns(u, v)
      /\ \A x \in DOMAIN u.conns : /\ v.conns[x].up = u.conns[x].up
                                   /\ v.conns[x].game = IF x = fd THEN id ELSE u.conns[x].game
  BY <1>1, <1>2, <1>5, InGameDoes
<1>7. SameConns(w, v)
  BY <1>5, <1>6 DEF SameConns
<1> QED
  BY <1>4, <1>5, <1>6, <1>7 DEF v

\* fd has a new game.
NewGame(w, fd, id, game) == [w EXCEPT !.games = With(@, id, game), !.conns[fd].game = id]

LEMMA NewGameDoes ==
  ASSUME NEW w \in Worlds, NEW fd \in DOMAIN w.conns, NEW id \in 1 .. MaxGames, NEW game \in AnyGame
  PROVE  LET v == NewGame(w, fd, id, game) IN
         /\ v \in Worlds
         /\ SameConns(w, v) /\ v.net = w.net
         /\ \A x \in DOMAIN w.conns : /\ v.conns[x].up = w.conns[x].up
                                      /\ v.conns[x].game = IF x = fd THEN id ELSE w.conns[x].game
         /\ DOMAIN v.games = DOMAIN w.games \cup {id}
         /\ \A i \in DOMAIN w.games \ {id} : v.games[i] = w.games[i]
         /\ v.games[id] = game
<1>1. /\ DOMAIN w.conns \subseteq Fds /\ w.conns \in [DOMAIN w.conns -> Connection]
      /\ DOMAIN w.games \subseteq 1 .. MaxGames /\ w.games \in [DOMAIN w.games -> AnyGame]
      /\ w.net \in [Fds -> Ends]
  BY WorldHas
<1> DEFINE v == NewGame(w, fd, id, game)
           gs == With(w.games, id, game)
           u == [w EXCEPT !.games = gs]
<1>2. v = InGame(u, fd, id)
  BY DEF InGame, NewGame
<1> HIDE DEF v
<1>3. /\ DOMAIN gs = DOMAIN w.games \cup {id} /\ gs \in [DOMAIN gs -> AnyGame]
      /\ gs[id] = game /\ \A i \in DOMAIN w.games \ {id} : gs[i] = w.games[i]
  BY <1>1 DEF With
<1> HIDE DEF gs
<1>4. u = [conns |-> w.conns, games |-> gs, net |-> w.net]
  BY WorldExcept
<1>5. u \in Worlds /\ u.conns = w.conns /\ u.games = gs /\ u.net = w.net
  BY <1>1, <1>3, <1>4, WorldOf
<1> HIDE DEF u
<1>6. id \in 0 .. MaxGames
  BY BoundsAssumption
<1>7. /\ v \in Worlds
      /\ v.games = u.games /\ v.net = u.net
      /\ SameConns(u, v)
      /\ \A x \in DOMAIN u.conns : /\ v.conns[x].up = u.conns[x].up
                                   /\ v.conns[x].game = IF x = fd THEN id ELSE u.conns[x].game
  BY <1>2, <1>5, <1>6, InGameDoes
<1>8. SameConns(w, v)
  BY <1>5, <1>7 DEF SameConns
<1> QED
  BY <1>3, <1>5, <1>7, <1>8 DEF v

\* A socket becomes what its peer makes of it.
LEMMA NetDoes ==
  ASSUME NEW w \in Worlds, NEW fd \in Fds, NEW e \in Ends
  PROVE  LET v == [w EXCEPT !.net[fd] = e] IN
         /\ v \in Worlds
         /\ v.conns = w.conns /\ v.games = w.games
         /\ v.net = [w.net EXCEPT ![fd] = e]
<1> DEFINE n == [w.net EXCEPT ![fd] = e]
           v == [w EXCEPT !.net[fd] = e]
<1>1. v = [w EXCEPT !.net = n]
  OBVIOUS
<1>2. n \in [Fds -> Ends]
  BY WorldHas
<1> HIDE DEF v, n
<1>3. v = [conns |-> w.conns, games |-> w.games, net |-> n]
  BY <1>1, WorldExcept
<1>4. v \in Worlds
  BY <1>2, <1>3, WorldHas, WorldOf
<1> QED
  BY <1>3, <1>4 DEF v, n

LEMMA DropEarlierKeeps ==
  ASSUME NEW w, NEW fd \in DOMAIN w.conns, Well(w)
  PROVE  LET v == DropEarlier(w, fd) IN Well(v) /\ Fades(w, v) /\ ~ Live(v, fd)
<1>1. CASE ~ w.conns[fd].up
  <2>1. DropEarlier(w, fd) = w
    BY <1>1 DEF DropEarlier
  <2>2. Fades(w, w)
    BY DEF Fades, Quiet, SameConns
  <2> QED
    BY <1>1, <2>1, <2>2 DEF Live
<1>2. CASE w.conns[fd].up
  <2>1. PICK u : u = LeaveGame(w, fd)
    OBVIOUS
  <2>2. Well(u) /\ Fades(w, u)
    BY <2>1, LeaveGameKeeps
  <2>3. PICK v : v = [u EXCEPT !.net[fd] = "reset"]
    OBVIOUS
  <2>4. fd \in Fds
    BY WorldHas DEF Well
  <2>5. v \in Worlds /\ v.conns = u.conns /\ v.games = u.games /\ v.net = [u.net EXCEPT ![fd] = "reset"]
    BY <2>2, <2>3, <2>4, NetDoes DEF Well, Ends
  <2>6. Well(v)
    BY <2>2, <2>5 DEF Well, Named, Listed, Played
  <2>7. u.net \in [Fds -> Ends] /\ DOMAIN u.conns \subseteq Fds
    BY <2>2, WorldHas DEF Well
  <2>8. \A x \in Fds : v.net[x] = IF x = fd THEN "reset" ELSE u.net[x]
    BY <2>5, <2>7
  <2>9. Fades(u, v) /\ ~ Live(v, fd)
    BY <2>4, <2>5, <2>7, <2>8 DEF Fades, Quiet, SameConns, Live
  <2>10. DropEarlier(w, fd) = v
    BY <1>2, <2>1, <2>3 DEF DropEarlier
  <2> QED
    BY <2>2, <2>6, <2>9, <2>10, FadesTwice
<1> QED
  BY <1>1, <1>2

LEMMA DismissDoes ==
  ASSUME NEW w \in Worlds, NEW fds
  PROVE  LET v == Dismiss(w, fds) IN
         /\ v \in Worlds
         /\ SameConns(w, v) /\ SameSockets(w, v)
         /\ \A x \in DOMAIN w.conns : v.conns[x].game = IF x \in fds THEN 0 ELSE w.conns[x].game
         /\ v.games = w.games
<1> DEFINE c == [fd \in DOMAIN w.conns |-> IF fd \in fds THEN [w.conns[fd] EXCEPT !.game = 0]
                                                         ELSE w.conns[fd]]
           u == [w EXCEPT !.conns = c]
           v == Dismiss(w, fds)
<1>1. /\ DOMAIN w.conns \subseteq Fds /\ w.conns \in [DOMAIN w.conns -> Connection]
      /\ DOMAIN w.games \subseteq 1 .. MaxGames /\ w.games \in [DOMAIN w.games -> AnyGame]
      /\ w.net \in [Fds -> Ends]
  BY WorldHas
<1>2. v = Send(u, fds)
  BY DEF Dismiss
<1> HIDE DEF v
<1>3. \A x \in DOMAIN w.conns :
        /\ c[x] \in Connection
        /\ c[x].role = w.conns[x].role /\ c[x].up = w.conns[x].up
        /\ c[x].user = w.conns[x].user /\ c[x].id = w.conns[x].id
        /\ c[x].game = IF x \in fds THEN 0 ELSE w.conns[x].game
  BY <1>1, BoundsAssumption DEF Connection
<1>4. DOMAIN c = DOMAIN w.conns /\ c \in [DOMAIN c -> Connection]
  BY <1>3
<1> HIDE DEF c
<1>5. u = [conns |-> c, games |-> w.games, net |-> w.net]
  BY WorldExcept
<1>6. u \in Worlds /\ u.conns = c /\ u.games = w.games /\ u.net = w.net
  BY <1>1, <1>4, <1>5, WorldOf
<1> HIDE DEF u
<1>7. Sent(u, v)
  BY <1>2, <1>6, SendDoes
<1>8. SameConns(w, v)
  BY <1>3, <1>4, <1>6, <1>7 DEF Sent, SameConns
<1>9. SameSockets(w, v)
  BY <1>1, <1>3, <1>4, <1>6, <1>7 DEF Sent, SameConns, SameSockets
<1>10. \A x \in DOMAIN w.conns : v.conns[x].game = IF x \in fds THEN 0 ELSE w.conns[x].game
  BY <1>3, <1>4, <1>6, <1>7 DEF Sent
<1>11. v \in Worlds /\ v.games = w.games
  BY <1>6, <1>7 DEF Sent
<1> QED
  BY <1>8, <1>9, <1>10, <1>11 DEF v

-----------------------------------------------------------------------------
(* What every step keeps, whatever happens *)

LobbyInv ==
  /\ Well(World) /\ One(World)
  /\ nextGame \in 1 .. MaxGames + 1 /\ DOMAIN games \subseteq 1 .. nextGame - 1
  /\ phase \in {"accept", "serve", "stopped"}
  /\ todo \subseteq Fds
  /\ closed \subseteq DOMAIN conns /\ (phase # "serve" => closed = {})
  /\ accepted \in 0 .. MaxConns

LocksKept ==
  \A id \in DOMAIN games \cap DOMAIN games' :
    games[id].locked => ToSet(games'[id].players) \subseteq Players(id)

\* What a handler makes of the world: nobody comes or goes in connections_.
Outcome(w, v) ==
  Well(v) /\ One(v) /\ DOMAIN v.conns = DOMAIN w.conns /\ LocksHold(w, v)

LEMMA OutcomeOfQuiet ==
  ASSUME NEW w, NEW v, One(w), Well(v), Quiet(w, v), LocksHold(w, v)
  PROVE  Outcome(w, v)
  BY OneFades DEF Outcome, Quiet, SameConns

LEMMA OutcomeOfFades ==
  ASSUME NEW w, NEW v, One(w), Well(v), Fades(w, v)
  PROVE  Outcome(w, v)
  BY OutcomeOfQuiet DEF Fades, LocksHold

\* A step that makes of the world what a handler does keeps everything.
LEMMA HandlerKeeps ==
  ASSUME LobbyInv, NEW v, Becomes(v), Outcome(World, v), UNCHANGED <<loop, accepted>>,
         nextGame' \in 1 .. MaxGames + 1, DOMAIN v.games \subseteq 1 .. nextGame' - 1
  PROVE  LobbyInv' /\ LocksKept
<1>1. World' = v
  BY BecomesIs DEF Outcome, Well
<1>2. Well(World)' /\ One(World)'
  BY <1>1 DEF Outcome
<1>3. /\ DOMAIN conns' = DOMAIN conns /\ DOMAIN games' \subseteq 1 .. nextGame' - 1
  BY DEF Outcome, Becomes, World
<1>4. LobbyInv'
  BY <1>2, <1>3 DEF LobbyInv, loop
<1>5. LocksKept
  BY DEF Outcome, LocksHold, LocksKept, Players, World, Becomes
<1> QED
  BY <1>4, <1>5

LEMMA FadingKeeps ==
  ASSUME LobbyInv, NEW v, Becomes(v), Well(v), Fades(World, v),
         UNCHANGED <<loop, nextGame, accepted>>
  PROVE  LobbyInv' /\ LocksKept
<1>1. Outcome(World, v)
  BY OutcomeOfFades DEF LobbyInv
<1>2. DOMAIN v.games \subseteq 1 .. nextGame' - 1
  BY DEF LobbyInv, Fades, World
<1> QED
  BY <1>1, <1>2, HandlerKeeps DEF LobbyInv

\* A request finds the world as it is, or with its own socket reset.
LEMMA AnsweringIs ==
  ASSUME LobbyInv, NEW fd \in DOMAIN conns, NEW w \in Answering(fd)
  PROVE  Well(w) /\ Fades(World, w) /\ w.conns = conns /\ w.games = games
<1>1. CASE w = World
  BY <1>1 DEF LobbyInv, Fades, Quiet, SameConns, World
<1>2. CASE w = [World EXCEPT !.net[fd] = "reset"]
  <2>1. World \in Worlds /\ World.conns = conns /\ World.games = games /\ World.net = net
    BY DEF LobbyInv, Well, World
  <2>2. DOMAIN conns \subseteq Fds /\ net \in [Fds -> Ends]
    BY <2>1, WorldHas
  <2>3. w \in Worlds /\ w.conns = conns /\ w.games = games /\ w.net = [net EXCEPT ![fd] = "reset"]
    BY <1>2, <2>1, <2>2, NetDoes DEF Ends
  <2>4. Well(w)
    BY <2>1, <2>3 DEF LobbyInv, Well, Named, Listed, Played
  <2>5. \A x \in Fds : w.net[x] = IF x = fd THEN "reset" ELSE net[x]
    BY <2>2, <2>3
  <2>6. Fades(World, w)
    BY <2>1, <2>2, <2>3, <2>5 DEF Fades, Quiet, SameConns, Live
  <2> QED
    BY <2>3, <2>4, <2>6
<1> QED
  BY <1>1, <1>2 DEF Answering

LEMMA AnsweredKeeps ==
  ASSUME LobbyInv, NEW fd \in DOMAIN conns, Answered(fd)
  PROVE  LobbyInv' /\ LocksKept
<1>1. PICK w \in Answering(fd) : Becomes(Send(w, {fd}))
  BY DEF Answered
<1>2. Well(w) /\ Fades(World, w)
  BY AnsweringIs
<1>3. Well(Send(w, {fd})) /\ Fades(World, Send(w, {fd}))
  BY <1>2, SendKeeps, FadesTwice
<1> QED
  BY <1>1, <1>3, FadingKeeps DEF Answered

LEMMA TellAllKeeps ==
  ASSUME LobbyInv, NEW fd \in DOMAIN conns, TellAll(fd)
  PROVE  LobbyInv' /\ LocksKept
<1>1. PICK w \in Answering(fd) : Becomes(SendGame(Send(w, {fd}), conns[fd].game))
  BY DEF TellAll
<1>2. PICK u, v : u = Send(w, {fd}) /\ v = SendGame(u, conns[fd].game)
  OBVIOUS
<1>3. Well(w) /\ Fades(World, w)
  BY AnsweringIs
<1>4. Well(u) /\ Fades(World, u)
  BY <1>2, <1>3, SendKeeps, FadesTwice
<1>5. Well(v) /\ Fades(World, v)
  BY <1>2, <1>4, SendKeeps, FadesTwice DEF SendGame
<1> QED
  BY <1>1, <1>2, <1>5, FadingKeeps DEF TellAll

LEMMA MesgKeeps ==
  ASSUME LobbyInv, NEW fd \in DOMAIN conns, Mesg(fd)
  PROVE  LobbyInv' /\ LocksKept
<1>1. PICK w, to : w \in Answering(fd) /\ Becomes(Send(Send(w, {fd}), to))
  BY DEF Mesg
<1>2. PICK u, v : u = Send(w, {fd}) /\ v = Send(u, to)
  OBVIOUS
<1>3. Well(w) /\ Fades(World, w)
  BY <1>1, AnsweringIs
<1>4. Well(u) /\ Fades(World, u)
  BY <1>2, <1>3, SendKeeps, FadesTwice
<1>5. Well(v) /\ Fades(World, v)
  BY <1>2, <1>4, SendKeeps, FadesTwice
<1> QED
  BY <1>1, <1>2, <1>5, FadingKeeps DEF Mesg

LEMMA GleaKeeps ==
  ASSUME LobbyInv, NEW fd \in DOMAIN conns, Glea(fd)
  PROVE  LobbyInv' /\ LocksKept
<1>1. PICK w \in Answering(fd) : Becomes(Send(LeaveGame(Send(w, {fd}), fd), {fd}))
  BY DEF Glea
<1>2. PICK u, t, v : u = Send(w, {fd}) /\ t = LeaveGame(u, fd) /\ v = Send(t, {fd})
  OBVIOUS
<1>3. Well(w) /\ Fades(World, w) /\ w.conns = conns
  BY AnsweringIs
<1>4. Well(u) /\ Fades(World, u)
  BY <1>2, <1>3, SendKeeps, FadesTwice
<1>5. fd \in DOMAIN u.conns
  BY <1>4 DEF Fades, Quiet, SameConns, World
<1>6. Well(t) /\ Fades(World, t)
  BY <1>2, <1>4, <1>5, LeaveGameKeeps, FadesTwice
<1>7. Well(v) /\ Fades(World, v)
  BY <1>2, <1>6, SendKeeps, FadesTwice
<1> QED
  BY <1>1, <1>2, <1>7, FadingKeeps DEF Glea

LEMMA GsetKickKeeps ==
  ASSUME LobbyInv, NEW fd \in DOMAIN conns, GsetKick(fd)
  PROVE  LobbyInv' /\ LocksKept
<1> DEFINE players == games[conns[fd].game].players
           named(kick) == SelectInSeq(players, LAMBDA p : p \in DOMAIN conns \ {fd} /\ conns[p].user = kick)
           Kicked(w, target) == Send(LeaveGame(Send(w, {target}), target), {target})
<1>1. PICK w \in Answering(fd), kick \in Personas :
        Becomes(Send(IF named(kick) = 0 THEN w ELSE Kicked(w, players[named(kick)]), {fd}))
  BY DEF GsetKick
<1>5. PICK at, target : at = named(kick) /\ target = players[at]
  OBVIOUS
<1>6. at # 0 => target \in DOMAIN conns
  <2> DEFINE I == {j \in 1 .. Len(players) : players[j] \in DOMAIN conns \ {fd} /\ conns[players[j]].user = kick}
  <2>1. at = IF I # {} THEN Min(I) ELSE 0
    BY <1>5 DEF SelectInSeq
  <2>2. I \in SUBSET Nat /\ \A j \in I : players[j] \in DOMAIN conns
    OBVIOUS
  <2> HIDE DEF I, named
  <2>3. target = players[at]
    BY <1>5
  <2> HIDE DEF players
  <2>4. at # 0 => at \in I
    BY <2>1, <2>2, MinOf
  <2> QED
    BY <2>2, <2>3, <2>4
<1>7. Becomes(Send(IF at = 0 THEN w ELSE Kicked(w, target), {fd}))
  BY <1>1, <1>5
<1> HIDE DEF players, named
<1>2. Well(w) /\ Fades(World, w)
  BY AnsweringIs
<1>3. CASE at = 0
  <2>1. Well(Send(w, {fd})) /\ Fades(World, Send(w, {fd}))
    BY <1>2, SendKeeps, FadesTwice
  <2> QED
    BY <1>3, <1>7, <2>1, FadingKeeps DEF GsetKick
<1>4. CASE at # 0
  <2>1. target \in DOMAIN conns
    BY <1>4, <1>6
  <2>2. PICK u, t, r, v : /\ u = Send(w, {target}) /\ t = LeaveGame(u, target)
                          /\ r = Send(t, {target}) /\ v = Send(r, {fd})
    OBVIOUS
  <2>3. Well(u) /\ Fades(World, u)
    BY <1>2, <2>2, SendKeeps, FadesTwice
  <2>4. target \in DOMAIN u.conns
    BY <2>1, <2>3 DEF Fades, Quiet, SameConns, World
  <2>5. Well(t) /\ Fades(World, t)
    BY <2>2, <2>3, <2>4, LeaveGameKeeps, FadesTwice
  <2>6. Well(r) /\ Fades(World, r)
    BY <2>2, <2>5, SendKeeps, FadesTwice
  <2>7. Well(v) /\ Fades(World, v)
    BY <2>2, <2>6, SendKeeps, FadesTwice
  <2>8. Becomes(v)
    BY <1>4, <1>7, <2>2
  <2> QED
    BY <2>7, <2>8, FadingKeeps DEF GsetKick
<1> QED
  BY <1>3, <1>4

LEMMA AppendSet ==
  ASSUME NEW S, NEW list \in Seq(S), NEW x \in S
  PROVE  ToSet(Append(list, x)) = ToSet(list) \cup {x} /\ Append(list, x) # <<>>
<1>1. /\ DOMAIN Append(list, x) = DOMAIN list \cup {Len(list) + 1}
      /\ Append(list, x)[Len(list) + 1] = x
      /\ \A i \in DOMAIN list : Append(list, x)[i] = list[i]
  OBVIOUS
<1>2. Len(list) + 1 \in DOMAIN Append(list, x)
  BY <1>1
<1> QED
  BY <1>1, <1>2 DEF ToSet

LEMMA TakeSeatKeeps ==
  ASSUME NEW w, NEW fd \in DOMAIN w.conns, NEW id \in DOMAIN w.games, NEW v, v = TakeSeat(w, fd, id),
         Well(w), w.conns[fd].id, w.conns[fd].game # id, ~ w.games[id].locked
  PROVE  /\ Well(v) /\ Quiet(w, v) /\ LocksHold(w, v)
         /\ DOMAIN v.games \subseteq DOMAIN w.games
<1>1. PICK u : u = LeaveGame(w, fd)
  OBVIOUS
<1>2. Well(u) /\ Fades(w, u) /\ u.conns[fd].game = 0
  BY <1>1, LeaveGameKeeps
<1>3. id \in DOMAIN u.games
  BY <1>1, LeaveGameDoes DEF Left, Well
<1>4. fd \in DOMAIN u.conns /\ fd \in Fds /\ fd # 0 /\ id # 0
  BY <1>2, WorldHas, FdsAssumption DEF Fades, Quiet, SameConns, Well
<1>5. v = Seat(u, fd, id)
  BY <1>1 DEF TakeSeat, Seat
<1>6. /\ v \in Worlds
      /\ SameConns(u, v) /\ v.net = u.net
      /\ \A x \in DOMAIN u.conns : /\ v.conns[x].up = u.conns[x].up
                                   /\ v.conns[x].game = IF x = fd THEN id ELSE u.conns[x].game
      /\ DOMAIN v.games = DOMAIN u.games
      /\ \A i \in DOMAIN u.games \ {id} : v.games[i] = u.games[i]
      /\ v.games[id].players = Append(u.games[id].players, fd)
  BY <1>2, <1>3, <1>4, <1>5, SeatDoes DEF Well
<1>7. u.games[id].players \in Seq(Fds \cup {0})
  BY <1>2, <1>3, WorldHas DEF Well, AnyGame
<1>8. ToSet(v.games[id].players) = ToSet(u.games[id].players) \cup {fd} /\ v.games[id].players # <<>>
  BY <1>4, <1>6, <1>7, AppendSet
<1>9. Quiet(u, v)
  BY <1>6 DEF Quiet, Live, SameConns
<1>10. LocksHold(w, v)
  BY <1>2, <1>6 DEF LocksHold, Fades
<1>11. Named(v)
  BY <1>2, <1>6 DEF Well, Named, SameConns, Fades, Quiet
<1>12. \A i \in DOMAIN v.games : ToSet(u.games[i].players) \subseteq ToSet(v.games[i].players)
  BY <1>6, <1>8
<1>13. Listed(v)
  <2> SUFFICES ASSUME NEW x \in DOMAIN v.conns, v.conns[x].game # 0
               PROVE  v.conns[x].game \in DOMAIN v.games /\ x \in ToSet(v.games[v.conns[x].game].players)
    BY DEF Listed
  <2>1. CASE x = fd
    BY <1>3, <1>4, <1>6, <1>8, <2>1
  <2>2. CASE x # fd
    <3>1. x \in DOMAIN u.conns /\ v.conns[x].game = u.conns[x].game
      BY <1>6, <2>2 DEF SameConns
    <3>2. u.conns[x].game \in DOMAIN u.games /\ x \in ToSet(u.games[u.conns[x].game].players)
      BY <1>2, <3>1 DEF Well, Listed
    <3> QED
      BY <1>6, <1>12, <3>1, <3>2
  <2> QED
    BY <2>1, <2>2
<1>14. Played(v)
  <2> SUFFICES ASSUME NEW i \in DOMAIN v.games
               PROVE  v.games[i].players # <<>> /\ 0 \notin ToSet(v.games[i].players)
    BY DEF Played
  <2>1. u.games[i].players # <<>> /\ 0 \notin ToSet(u.games[i].players)
    BY <1>2, <1>6 DEF Well, Played
  <2>2. CASE i = id
    BY <1>4, <1>8, <2>1, <2>2
  <2>3. CASE i # id
    BY <1>6, <2>1, <2>3
  <2> QED
    BY <2>2, <2>3
<1> QED
  BY <1>2, <1>6, <1>9, <1>10, <1>11, <1>13, <1>14, QuietTwice DEF Well, Fades

\* A handler that seats fd, and then sends.
LEMMA SeatingKeeps ==
  ASSUME LobbyInv, NEW fd \in DOMAIN conns, NEW w \in Answering(fd), NEW id \in DOMAIN games,
         conns[fd].id, conns[fd].game # id, ~ games[id].locked,
         Becomes(SendGame(Send(TakeSeat(w, fd, id), {fd}), id)),
         UNCHANGED <<loop, nextGame, accepted>>
  PROVE  LobbyInv' /\ LocksKept
<1>1. PICK t, u, v : t = TakeSeat(w, fd, id) /\ u = Send(t, {fd}) /\ v = SendGame(u, id)
  OBVIOUS
<1>2. Well(w) /\ Fades(World, w) /\ w.conns = conns /\ w.games = games
  BY AnsweringIs
<1>3. Well(t) /\ Quiet(w, t) /\ LocksHold(w, t) /\ DOMAIN t.games \subseteq DOMAIN games
  BY <1>1, <1>2, TakeSeatKeeps
<1>4. Well(u) /\ Fades(t, u)
  BY <1>1, <1>3, SendKeeps
<1>5. Well(v) /\ Fades(t, v)
  BY <1>1, <1>4, SendKeeps, FadesTwice DEF SendGame
<1>6. Quiet(World, v)
  BY <1>2, <1>3, <1>5, QuietTwice DEF Fades
<1>7. LocksHold(World, t)
  BY <1>2, <1>3 DEF LocksHold, World
<1>8. Outcome(World, v)
  BY <1>5, <1>6, <1>7, LocksStillHold, OutcomeOfQuiet DEF LobbyInv
<1>9. DOMAIN v.games \subseteq 1 .. nextGame' - 1
  BY <1>3, <1>5 DEF LobbyInv, Fades
<1> QED
  BY <1>1, <1>8, <1>9, HandlerKeeps DEF LobbyInv

LEMMA GjoiKeeps ==
  ASSUME LobbyInv, NEW fd \in DOMAIN conns, Gjoi(fd)
  PROVE  LobbyInv' /\ LocksKept
<1>1. PICK w \in Answering(fd), id \in DOMAIN games :
        LET in == conns[fd].game = id
            joined == IF in THEN w ELSE TakeSeat(w, fd, id)
        IN Becomes(IF games[id].locked /\ ~in THEN Send(w, {fd}) ELSE SendGame(Send(joined, {fd}), id))
  BY DEF Gjoi
<1>2. Well(w) /\ Fades(World, w)
  BY AnsweringIs
<1>3. PICK u, v : u = Send(w, {fd}) /\ v = SendGame(u, id)
  OBVIOUS
<1>4. Well(u) /\ Fades(World, u)
  BY <1>2, <1>3, SendKeeps, FadesTwice
<1>5. CASE conns[fd].game = id
  <2>1. Well(v) /\ Fades(World, v)
    BY <1>3, <1>4, SendKeeps, FadesTwice DEF SendGame
  <2>2. Becomes(v)
    BY <1>1, <1>3, <1>5
  <2> QED
    BY <2>1, <2>2, FadingKeeps DEF Gjoi
<1>6. CASE conns[fd].game # id /\ games[id].locked
  <2>1. Becomes(u)
    BY <1>1, <1>3, <1>6
  <2> QED
    BY <1>4, <2>1, FadingKeeps DEF Gjoi
<1>7. CASE conns[fd].game # id /\ ~ games[id].locked
  <2>1. Becomes(SendGame(Send(TakeSeat(w, fd, id), {fd}), id))
    BY <1>1, <1>7
  <2> QED
    BY <1>7, <2>1, SeatingKeeps DEF Gjoi, Plays
<1> QED
  BY <1>5, <1>6, <1>7

LEMMA GqwkKeeps ==
  ASSUME LobbyInv, NEW fd \in DOMAIN conns, Gqwk(fd)
  PROVE  LobbyInv' /\ LocksKept
<1>1. PICK w \in Answering(fd) :
        Becomes(IF Open(fd) = {} THEN Send(w, {fd})
                ELSE SendGame(Send(TakeSeat(w, fd, Min(Open(fd))), {fd}), Min(Open(fd))))
  BY DEF Gqwk
<1>2. CASE Open(fd) = {}
  <2>1. Well(w) /\ Fades(World, w)
    BY AnsweringIs
  <2>2. Well(Send(w, {fd})) /\ Fades(World, Send(w, {fd}))
    BY <2>1, SendKeeps, FadesTwice
  <2> QED
    BY <1>1, <1>2, <2>2, FadingKeeps DEF Gqwk
<1>3. CASE Open(fd) # {}
  <2>1. Open(fd) \in SUBSET Nat
    BY DEF LobbyInv, Open
  <2>2. PICK id \in Open(fd) : id = Min(Open(fd))
    BY <1>3, <2>1, MinOf
  <2>3. id \in DOMAIN games /\ conns[fd].game # id /\ ~ games[id].locked
    BY <2>2 DEF Open
  <2>4. Becomes(SendGame(Send(TakeSeat(w, fd, id), {fd}), id))
    BY <1>1, <1>3, <2>2
  <2> QED
    BY <2>3, <2>4, SeatingKeeps DEF Gqwk, Plays
<1> QED
  BY <1>2, <1>3

LEMMA GcreKeeps ==
  ASSUME LobbyInv, NEW fd \in DOMAIN conns, Gcre(fd)
  PROVE  LobbyInv' /\ LocksKept
<1> DEFINE Game1(m) == [host |-> conns[fd].user, players |-> <<fd>>, maxsize |-> m, locked |-> FALSE]
<1>1. PICK w \in Answering(fd), m \in Sizes :
        Becomes(Send(NewGame(LeaveGame(w, fd), fd, nextGame, Game1(m)), {fd}))
  BY DEF Gcre, NewGame
<1>2. PICK game, u, t, v :
        /\ game = Game1(m) /\ u = LeaveGame(w, fd)
        /\ t = NewGame(u, fd, nextGame, game) /\ v = Send(t, {fd})
  OBVIOUS
<1>3. Well(w) /\ Fades(World, w) /\ w.conns = conns /\ w.games = games
  BY AnsweringIs
<1>4. Well(u) /\ Fades(World, u) /\ u.conns[fd].game = 0
  BY <1>2, <1>3, LeaveGameKeeps, FadesTwice
<1>5. /\ fd \in DOMAIN u.conns /\ DOMAIN u.conns = DOMAIN conns
      /\ DOMAIN u.games \subseteq DOMAIN games /\ fd \in Fds /\ fd # 0
      /\ u.conns[fd].id /\ conns[fd].user \in Personas \cup {NoUser}
  <2>1. fd \in DOMAIN u.conns /\ DOMAIN u.conns = DOMAIN conns /\ DOMAIN u.games \subseteq DOMAIN games
    BY <1>4 DEF Fades, Quiet, SameConns, World
  <2>2. fd \in Fds /\ fd # 0
    BY <1>4, <2>1, WorldHas, FdsAssumption DEF Well
  <2>3. u.conns[fd].id
    BY <1>4 DEF Gcre, Plays, Fades, Quiet, SameConns, World
  <2>4. conns[fd].user \in Personas \cup {NoUser}
    BY <1>3, WorldHas DEF Well, Connection
  <2> QED
    BY <2>1, <2>2, <2>3, <2>4
<1>6. game \in AnyGame /\ game.players = <<fd>>
  BY <1>2, <1>5 DEF AnyGame
<1>7. nextGame \in 1 .. MaxGames /\ nextGame \notin DOMAIN games /\ nextGame' = nextGame + 1 /\ nextGame # 0
  BY BoundsAssumption DEF Gcre, LobbyInv
<1>8. /\ t \in Worlds
      /\ SameConns(u, t) /\ t.net = u.net
      /\ \A x \in DOMAIN u.conns : /\ t.conns[x].up = u.conns[x].up
                                   /\ t.conns[x].game = IF x = fd THEN nextGame ELSE u.conns[x].game
      /\ DOMAIN t.games = DOMAIN u.games \cup {nextGame}
      /\ \A i \in DOMAIN u.games \ {nextGame} : t.games[i] = u.games[i]
      /\ t.games[nextGame] = game
  <2>1. u \in Worlds /\ fd \in DOMAIN u.conns /\ nextGame \in 1 .. MaxGames /\ game \in AnyGame
    BY <1>4, <1>5, <1>6, <1>7 DEF Well
  <2>2. t = NewGame(u, fd, nextGame, game)
    BY <1>2
  <2> QED
    BY <2>1, <2>2, NewGameDoes
<1>9. ToSet(<<fd>>) = {fd} /\ <<fd>> # <<>>
  BY DEF ToSet
<1>10. Named(t)
  BY <1>4, <1>5, <1>8 DEF Well, Named, SameConns
<1>11. Listed(t)
  <2> SUFFICES ASSUME NEW x \in DOMAIN t.conns, t.conns[x].game # 0
               PROVE  t.conns[x].game \in DOMAIN t.games /\ x \in ToSet(t.games[t.conns[x].game].players)
    BY DEF Listed
  <2>1. CASE x = fd
    BY <1>5, <1>6, <1>8, <1>9, <2>1
  <2>2. CASE x # fd
    <3>1. x \in DOMAIN u.conns /\ t.conns[x].game = u.conns[x].game
      BY <1>8, <2>2 DEF SameConns
    <3>2. u.conns[x].game \in DOMAIN u.games /\ x \in ToSet(u.games[u.conns[x].game].players)
      BY <1>4, <3>1 DEF Well, Listed
    <3> QED
      BY <1>5, <1>7, <1>8, <3>1, <3>2
  <2> QED
    BY <2>1, <2>2
<1>12. Played(t)
  <2> SUFFICES ASSUME NEW i \in DOMAIN t.games
               PROVE  t.games[i].players # <<>> /\ 0 \notin ToSet(t.games[i].players)
    BY DEF Played
  <2>1. CASE i = nextGame
    <3>1. t.games[i].players = <<fd>>
      BY <1>6, <1>8, <2>1
    <3> QED
      BY <1>5, <1>9, <3>1
  <2>2. CASE i # nextGame
    BY <1>4, <1>8, <2>2 DEF Well, Played
  <2> QED
    BY <2>1, <2>2
<1>13. Quiet(u, t)
  BY <1>8 DEF Quiet, Live, SameConns
<1>14. LocksHold(World, t)
  BY <1>4, <1>7, <1>8 DEF LocksHold, Fades, World
<1>15. Well(v) /\ Fades(t, v)
  BY <1>2, <1>8, <1>10, <1>11, <1>12, SendKeeps DEF Well
<1>16. Quiet(World, v)
  BY <1>4, <1>13, <1>15, QuietTwice DEF Fades
<1>17. Outcome(World, v)
  BY <1>14, <1>15, <1>16, LocksStillHold, OutcomeOfQuiet DEF LobbyInv
<1>18. DOMAIN v.games \subseteq 1 .. nextGame' - 1 /\ nextGame' \in 1 .. MaxGames + 1
  <2>1. DOMAIN v.games \subseteq DOMAIN games \cup {nextGame} /\ DOMAIN games \subseteq 1 .. nextGame - 1
    BY <1>5, <1>8, <1>15 DEF Fades, LobbyInv
  <2> QED
    BY <1>7, <2>1, BoundsAssumption
<1>19. Becomes(v)
  BY <1>1, <1>2
<1> QED
  BY <1>17, <1>18, <1>19, HandlerKeeps DEF Gcre

\* What gdel comes to: the answer is sent, the game goes, and all who were in it
\* are in none.
LEMMA GdelDoes ==
  ASSUME LobbyInv, NEW fd \in DOMAIN conns, Gdel(fd)
  PROVE  \E w \in Answering(fd) : \E a, u :
           LET id == conns[fd].game
               others == (ToSet(games[id].players) \cap DOMAIN conns) \ {fd}
           IN /\ Becomes(Send(u, {fd}))
              /\ Sent(w, a) /\ DOMAIN a.conns = DOMAIN conns /\ a.games = games
              /\ u \in Worlds /\ SameConns(a, u) /\ SameSockets(a, u)
              /\ \A x \in DOMAIN conns : /\ a.conns[x].game = conns[x].game
                                        /\ u.conns[x].game = IF x = fd \/ x \in others THEN 0 ELSE conns[x].game
              /\ DOMAIN u.games = DOMAIN games \ {id}
              /\ \A i \in DOMAIN games \ {id} : u.games[i] = games[i]
<1> DEFINE id == conns[fd].game
           others == (ToSet(games[id].players) \cap DOMAIN conns) \ {fd}
           LastOne(b, h) == PutGame(b, id, [b.games[id] EXCEPT !.players = <<h>>])
<1>1. PICK w \in Answering(fd) :
        LET a == Send(w, {fd})
        IN  Becomes(Send(LeaveGame(LastOne(Dismiss(a, others), Handle(a, fd)), fd), {fd}))
  BY DEF Gdel, PutGame
<1>2. PICK a, b, h, last, u, v :
        /\ a = Send(w, {fd}) /\ b = Dismiss(a, others) /\ h = Handle(a, fd)
        /\ last = LastOne(b, h) /\ u = LeaveGame(last, fd) /\ v = Send(u, {fd})
  OBVIOUS
<1>3. Well(w) /\ Fades(World, w) /\ w.conns = conns /\ w.games = games
  BY AnsweringIs
<1>4. id \in DOMAIN games /\ id # 0
  BY <1>3, WorldHas DEF Gdel, Well
<1>5. fd \notin others /\ \A x \in others : x \in DOMAIN conns
  OBVIOUS
<1>7. Sent(w, a) /\ (a.conns[fd].up => a.net[fd] # "reset")
  BY <1>2, <1>3, SendDoes DEF Well
<1> HIDE DEF others, id
<1>8. Well(a) /\ Fades(World, a)
  BY <1>3, <1>7, SentKeeps, FadesTwice
<1>9. a.games = games /\ DOMAIN a.conns = DOMAIN conns /\ \A x \in DOMAIN conns : a.conns[x].game = conns[x].game
  BY <1>3, <1>7 DEF Sent, SameConns
<1>10. /\ b \in Worlds /\ SameConns(a, b) /\ SameSockets(a, b)
       /\ \A x \in DOMAIN a.conns : b.conns[x].game = IF x \in others THEN 0 ELSE a.conns[x].game
       /\ b.games = games
  <2>1. a \in Worlds
    BY <1>8 DEF Well
  <2>2. b = Dismiss(a, others)
    BY <1>2
  <2> QED
    BY <1>9, <2>1, <2>2, DismissDoes
<1>11. h \in Fds \cup {0}
  BY <1>2, <1>8, <1>9, WorldHas DEF Handle, Well
<1>12. /\ last \in Worlds /\ last.conns = b.conns /\ last.net = b.net
       /\ DOMAIN last.games = DOMAIN games
       /\ last.games[id].players = <<h>>
       /\ \A i \in DOMAIN games \ {id} : last.games[i] = games[i]
  <2>1. b.games[id] \in AnyGame /\ <<h>> \in Seq(Fds \cup {0})
    BY <1>4, <1>10, <1>11, WorldHas
  <2>2. PICK k : k = [b.games[id] EXCEPT !.players = <<h>>]
    OBVIOUS
  <2>3. k \in AnyGame /\ k.players = <<h>>
    BY <2>1, <2>2, GameOfPlayers
  <2>4. last = PutGame(b, id, k)
    BY <1>2, <2>2
  <2> QED
    BY <1>4, <1>10, <2>3, <2>4, PutGameDoes
<1>13. Handle(last, fd) = h
  <2>1. fd \in Fds /\ fd \in DOMAIN a.conns
    BY <1>8, <1>9, WorldHas DEF Well
  <2>2. b.conns[fd].up = a.conns[fd].up
    BY <1>7, <1>10, <2>1 DEF SameSockets
  <2> QED
    BY <1>2, <1>12, <2>2 DEF Handle
<1>14. /\ fd \in DOMAIN last.conns /\ last.conns[fd].game = id
       /\ Left(last, u, fd)
  <2>1. fd \in DOMAIN last.conns
    BY <1>9, <1>10, <1>12 DEF SameConns
  <2>2. last.conns[fd].game = id
    BY <1>5, <1>9, <1>10, <1>12 DEF id
  <2> QED
    BY <1>2, <1>12, <2>1, <2>2, LeaveGameDoes
<1>15. ToSet(<<h>>) = {h}
  BY DEF ToSet
<1>16. /\ u \in Worlds /\ SameConns(last, u) /\ SameSockets(last, u)
       /\ \A x \in DOMAIN last.conns : u.conns[x].game = IF x = fd THEN 0 ELSE last.conns[x].game
       /\ DOMAIN u.games = DOMAIN games \ {id}
       /\ \A i \in DOMAIN games \ {id} : u.games[i] = games[i]
  <2>1. /\ u \in Worlds /\ SameConns(last, u) /\ SameSockets(last, u)
        /\ \A x \in DOMAIN last.conns : u.conns[x].game = IF x = fd THEN 0 ELSE last.conns[x].game
        /\ DOMAIN games \ {id} \subseteq DOMAIN u.games /\ DOMAIN u.games \subseteq DOMAIN games
        /\ \A i \in DOMAIN games \ {id} : u.games[i] = last.games[i]
        /\ id \in DOMAIN u.games => Thinned(last, last.games[id], u.games[id], h, last.conns[fd].user)
    BY <1>12, <1>13, <1>14 DEF Left
  <2>2. ASSUME id \in DOMAIN u.games PROVE FALSE
    <3>1. u.games[id].players # <<>> /\ ToSet(u.games[id].players) = {}
      BY <1>12, <1>15, <2>1, <2>2 DEF Thinned
    <3>2. u.games[id].players \in Seq(Fds \cup {0})
      BY <2>1, <2>2, WorldHas DEF AnyGame
    <3>3. 1 \in DOMAIN u.games[id].players
      BY <3>1, <3>2
    <3> QED
      BY <3>1, <3>3 DEF ToSet
  <2> QED
    BY <1>12, <2>1, <2>2
<1>17. DOMAIN u.conns = DOMAIN conns
       /\ \A x \in DOMAIN conns : u.conns[x].game = IF x = fd \/ x \in others THEN 0 ELSE conns[x].game
  BY <1>9, <1>10, <1>12, <1>16 DEF SameConns
<1>18. SameConns(a, u) /\ SameSockets(a, u)
  BY <1>10, <1>12, <1>16 DEF SameConns, SameSockets
<1>19. Becomes(Send(u, {fd}))
  BY <1>1, <1>2
<1> QED
  BY <1>7, <1>9, <1>16, <1>17, <1>18, <1>19 DEF id, others

LEMMA GdelKeeps ==
  ASSUME LobbyInv, NEW fd \in DOMAIN conns, Gdel(fd)
  PROVE  LobbyInv' /\ LocksKept
<1> DEFINE id == conns[fd].game
           others == (ToSet(games[id].players) \cap DOMAIN conns) \ {fd}
<1>1. PICK w, a, u :
        /\ w \in Answering(fd)
        /\ Becomes(Send(u, {fd}))
        /\ Sent(w, a) /\ DOMAIN a.conns = DOMAIN conns /\ a.games = games
        /\ u \in Worlds /\ SameConns(a, u) /\ SameSockets(a, u)
        /\ \A x \in DOMAIN conns : /\ a.conns[x].game = conns[x].game
                                  /\ u.conns[x].game = IF x = fd \/ x \in others THEN 0 ELSE conns[x].game
        /\ DOMAIN u.games = DOMAIN games \ {id}
        /\ \A i \in DOMAIN games \ {id} : u.games[i] = games[i]
  BY GdelDoes
<1>2. \A x \in DOMAIN conns : x \in ToSet(games[id].players) => x = fd \/ x \in others
  OBVIOUS
<1> HIDE DEF others, id
<1>3. Well(w) /\ Fades(World, w)
  BY <1>1, AnsweringIs
<1>4. Well(a) /\ Fades(World, a)
  BY <1>1, <1>3, SentKeeps, FadesTwice
<1>5. \A x \in DOMAIN conns : x \in Fds
  BY <1>1, <1>4, WorldHas DEF Well
<1>6. Quiet(a, u)
  BY <1>1, <1>5 DEF Quiet, Live, SameConns, SameSockets
<1>7. Named(u)
  BY <1>1, <1>4, <1>6 DEF Well, Named, Quiet, SameConns
<1>8. Listed(u)
  <2> SUFFICES ASSUME NEW x \in DOMAIN u.conns, u.conns[x].game # 0
               PROVE  u.conns[x].game \in DOMAIN u.games /\ x \in ToSet(u.games[u.conns[x].game].players)
    BY DEF Listed
  <2>1. x \in DOMAIN conns
    BY <1>1 DEF SameConns
  <2>2. x # fd /\ x \notin others /\ u.conns[x].game = conns[x].game
    BY <1>1, <2>1
  <2>3. conns[x].game \in DOMAIN games /\ x \in ToSet(games[conns[x].game].players)
    BY <1>1, <1>4, <2>1, <2>2 DEF Well, Listed
  <2>4. conns[x].game # id
    BY <1>2, <2>1, <2>2, <2>3
  <2> QED
    BY <1>1, <2>2, <2>3, <2>4
<1>9. Played(u)
  BY <1>1, <1>4 DEF Well, Played
<1>10. Well(u) /\ Fades(a, u)
  BY <1>1, <1>6, <1>7, <1>8, <1>9 DEF Well, Fades
<1>11. PICK v : v = Send(u, {fd})
  OBVIOUS
<1>12. Well(v) /\ Fades(World, v)
  BY <1>4, <1>10, <1>11, SendKeeps, FadesTwice
<1> QED
  BY <1>1, <1>11, <1>12, FadingKeeps DEF Gdel

LEMMA GsetLockKeeps ==
  ASSUME LobbyInv, NEW fd \in DOMAIN conns, GsetLock(fd)
  PROVE  LobbyInv' /\ LocksKept
<1> DEFINE id == conns[fd].game
<1>1. PICK w \in Answering(fd), l \in BOOLEAN :
        Becomes(SendGame(Send(PutGame(w, id, [w.games[id] EXCEPT !.locked = l]), {fd}), id))
  BY DEF GsetLock, PutGame
<1>2. PICK k, t, u, v : /\ k = [w.games[id] EXCEPT !.locked = l] /\ t = PutGame(w, id, k)
                        /\ u = Send(t, {fd}) /\ v = SendGame(u, id)
  OBVIOUS
<1>3. Well(w) /\ Fades(World, w) /\ w.conns = conns /\ w.games = games
  BY AnsweringIs
<1>4. id \in DOMAIN games
  BY DEF GsetLock, Hosts
<1> HIDE DEF id
<1>5. w.games[id] \in AnyGame
  BY <1>3, <1>4, WorldHas DEF Well
<1>6. k \in AnyGame /\ k.players = games[id].players
  BY <1>2, <1>3, <1>5, GameOfLock
<1>7. /\ t \in Worlds /\ t.conns = conns /\ t.net = w.net
      /\ DOMAIN t.games = DOMAIN games
      /\ t.games[id] = k
      /\ \A i \in DOMAIN games \ {id} : t.games[i] = games[i]
  <2>1. w \in Worlds /\ id \in DOMAIN w.games /\ k \in AnyGame
    BY <1>3, <1>4, <1>6 DEF Well
  <2>2. t = PutGame(w, id, k)
    BY <1>2
  <2> QED
    BY <1>3, <2>1, <2>2, PutGameDoes
<1>8. \A i \in DOMAIN games : t.games[i].players = games[i].players
  BY <1>6, <1>7
<1>9. Well(t)
  BY <1>3, <1>7, <1>8 DEF Well, Named, Listed, Played
<1>10. Quiet(w, t) /\ LocksHold(World, t)
  BY <1>3, <1>7, <1>8 DEF Quiet, SameConns, Live, LocksHold, World
<1>11. Well(u) /\ Fades(t, u)
  BY <1>2, <1>9, SendKeeps
<1>12. Well(v) /\ Fades(t, v)
  BY <1>2, <1>11, SendKeeps, FadesTwice DEF SendGame
<1>13. Quiet(World, v)
  BY <1>3, <1>10, <1>12, QuietTwice DEF Fades
<1>14. Outcome(World, v)
  BY <1>10, <1>12, <1>13, LocksStillHold, OutcomeOfQuiet DEF LobbyInv
<1>15. DOMAIN v.games \subseteq 1 .. nextGame' - 1
  BY <1>7, <1>12 DEF LobbyInv, Fades, GsetLock
<1>16. Becomes(v)
  BY <1>1, <1>2
<1> QED
  BY <1>14, <1>15, <1>16, HandlerKeeps DEF LobbyInv, GsetLock

LEMMA CloseSocketsKeeps ==
  ASSUME NEW w, NEW S, Well(w)
  PROVE  LET v == CloseSockets(w, S) IN Well(v) /\ Fades(w, v)
<1>1. PICK v : v = CloseSockets(w, S)
  OBVIOUS
<1>2. /\ v \in Worlds
      /\ SameConns(w, v)
      /\ \A x \in DOMAIN w.conns : /\ v.conns[x].game = w.conns[x].game
                                   /\ v.conns[x].up = (w.conns[x].up /\ x \notin S)
      /\ v.games = w.games
      /\ \A x \in Fds : v.net[x] = IF x \in S THEN "free" ELSE w.net[x]
  BY <1>1, CloseSocketsDoes DEF Well
<1>3. Well(v)
  BY <1>2 DEF Well, Named, Listed, Played, SameConns
<1>4. \A x \in DOMAIN w.conns : x \in Fds
  BY WorldHas DEF Well
<1>5. Fades(w, v)
  BY <1>2, <1>4 DEF Fades, Quiet, SameConns, Live
<1> QED
  BY <1>1, <1>3, <1>5

\* The Locker's and the news' answer, and a client that has gone.
LEMMA ClosingKeeps ==
  ASSUME LobbyInv, NEW fd, Becomes(CloseSockets(World, {fd})), UNCHANGED <<loop, nextGame, accepted>>
  PROVE  LobbyInv' /\ LocksKept
<1>1. PICK v : v = CloseSockets(World, {fd})
  OBVIOUS
<1>2. Well(v) /\ Fades(World, v)
  BY <1>1, CloseSocketsKeeps DEF LobbyInv
<1> QED
  BY <1>1, <1>2, FadingKeeps

LEMMA AuthKeeps ==
  ASSUME LobbyInv, NEW fd \in DOMAIN conns, Auth(fd)
  PROVE  LobbyInv' /\ LocksKept
<1>1. PICK w \in Answering(fd), p \in Personas :
        Becomes(Send(PutConn(w, fd, [w.conns[fd] EXCEPT !.user = p]), {fd}))
  BY DEF Auth, PutConn
<1>2. PICK c, t, v : /\ c = [w.conns[fd] EXCEPT !.user = p]
                     /\ t = PutConn(w, fd, c) /\ v = Send(t, {fd})
  OBVIOUS
<1>3. Well(w) /\ Fades(World, w) /\ w.conns = conns /\ w.games = games
  BY AnsweringIs
<1>4. w.conns[fd] \in Connection
  BY <1>3, WorldHas DEF Well
<1>5. /\ c \in Connection
      /\ c.user = p /\ c.id = w.conns[fd].id /\ c.up = w.conns[fd].up
      /\ c.game = w.conns[fd].game /\ c.role = w.conns[fd].role
  BY <1>2, <1>4 DEF Connection
<1>6. ~ c.id /\ c.game = 0
  <2>1. w.conns[fd].user = NoUser
    BY <1>3 DEF Auth
  <2>2. ~ w.conns[fd].id /\ w.conns[fd].game = 0
    BY <1>3, <2>1 DEF Well, Named
  <2> QED
    BY <1>5, <2>2
<1>7. /\ t \in Worlds
      /\ t.games = games /\ t.net = w.net
      /\ DOMAIN t.conns = DOMAIN conns
      /\ t.conns[fd] = c
      /\ \A x \in DOMAIN conns \ {fd} : t.conns[x] = conns[x]
  <2>1. w \in Worlds /\ t = PutConn(w, fd, c)
    BY <1>2, <1>3 DEF Well
  <2> QED
    BY <1>3, <1>5, <2>1, PutConnDoes
<1>8. Named(t) /\ Listed(t)
  BY <1>3, <1>6, <1>7 DEF Well, Named, Listed
<1>9. Well(t)
  BY <1>3, <1>7, <1>8 DEF Well, Played
<1>10. One(t)
  <2>1. One(w)
    BY <1>3, OneFades DEF LobbyInv, Fades
  <2>2. \A x \in DOMAIN conns : Live(t, x) => x # fd /\ Live(w, x)
    BY <1>3, <1>6, <1>7 DEF Live
  <2> QED
    BY <1>3, <1>7, <2>1, <2>2 DEF One
<1>11. Well(v) /\ Fades(t, v)
  BY <1>2, <1>9, SendKeeps
<1>12. LocksHold(World, v)
  BY <1>7, <1>11 DEF LocksHold, Fades, World
<1>13. Outcome(World, v)
  <2>1. One(v)
    BY <1>10, <1>11, OneFades DEF Fades
  <2>2. DOMAIN v.conns = DOMAIN World.conns
    BY <1>7, <1>11 DEF Fades, Quiet, SameConns, World
  <2> QED
    BY <1>11, <1>12, <2>1, <2>2 DEF Outcome
<1>14. DOMAIN v.games \subseteq 1 .. nextGame' - 1
  BY <1>7, <1>11 DEF LobbyInv, Fades, Auth
<1>15. Becomes(v)
  BY <1>1, <1>2
<1> QED
  BY <1>13, <1>14, <1>15, HandlerKeeps DEF LobbyInv, Auth

\* The earlier connections of a name, dropped one after the other.
Dropped(w, E) == MapThenFoldSet(LAMBDA o, v : DropEarlier(v, o), w, LAMBDA o : o, Max, E)

\* A property of worlds that each drop keeps is kept by all of them: K is the
\* worlds that have it.
LEMMA DroppedKeeps ==
  ASSUME NEW w, NEW E \in SUBSET Nat, IsFiniteSet(E), NEW K, w \in K,
         \A v \in K : E \subseteq DOMAIN v.conns /\ Well(v),
         \A v \in K : \A o \in E : DropEarlier(v, o) \in K
  PROVE  LET v == Dropped(w, E) IN v \in K /\ \A o \in E : ~ Live(v, o)
<1> DEFINE step == [o \in E |-> [v \in K |-> DropEarlier(v, o)]]
           Defines(f) == f = [s \in SUBSET E |-> IF s = {} THEN w
                                                 ELSE DropEarlier(f[s \ {Max(s)}], Max(s))]
           F == CHOOSE f : Defines(f)
<1>1. step \in [E -> [K -> K]]
  OBVIOUS
<1>2. PICK G \in [SUBSET E -> K] : Folds(G, E, w, step)
  <2> HIDE DEF step
  <2> QED
    BY <1>1, FoldExists
<1>3. \A s \in SUBSET E : s # {} => Max(s) \in s
  BY FS_Subset, MaxOf
<1>4. ASSUME NEW s \in SUBSET E, s # {}
      PROVE  G[s] = DropEarlier(G[s \ {Max(s)}], Max(s))
  <2>1. Max(s) \in E /\ G[s \ {Max(s)}] \in K
    BY <1>2, <1>3, <1>4
  <2>2. step[Max(s)][G[s \ {Max(s)}]] = DropEarlier(G[s \ {Max(s)}], Max(s))
    BY <2>1
  <2> QED
    BY <1>2, <1>4, <2>2 DEF Folds
<1>5. G[{}] = w
  BY <1>2 DEF Folds
<1>6. Defines(G)
  <2>1. G = [s \in SUBSET E |-> G[s]]
    BY <1>2
  <2> QED
    BY <1>4, <1>5, <2>1
<1>7. Defines(F)
  <2> HIDE DEF Defines
  <2> QED
    BY <1>6
<1>8. Dropped(w, E) = F[E]
  BY DEF Dropped, MapThenFoldSet
<1> HIDE DEF F, step
<1> DEFINE C == {s \in SUBSET E : F[s] \in K /\ \A o \in s : ~ Live(F[s], o)}
<1>9. {} \in C
  BY <1>7
<1>10. ASSUME NEW s \in SUBSET E, s # {}, s \ {Max(s)} \in C PROVE s \in C
  <2>1. PICK m \in s : m = Max(s)
    BY <1>3, <1>10
  <2>2. PICK u, v : u = F[s \ {m}] /\ v = F[s]
    OBVIOUS
  <2>3. u \in K /\ \A o \in s \ {m} : ~ Live(u, o)
    BY <1>10, <2>1, <2>2
  <2>4. v = DropEarlier(u, m)
    BY <1>7, <1>10, <2>1, <2>2
  <2>5. m \in DOMAIN u.conns /\ Well(u) /\ v \in K
    BY <2>3, <2>4
  <2>6. Fades(u, v) /\ ~ Live(v, m)
    BY <2>4, <2>5, DropEarlierKeeps
  <2>7. \A o \in s : o \in DOMAIN u.conns
    BY <2>3
  <2>8. \A o \in s : ~ Live(v, o)
    BY <2>3, <2>6, <2>7 DEF Fades, Quiet
  <2> QED
    BY <2>2, <2>5, <2>8
<1>11. E \in C
  <2>1. C \in SUBSET (SUBSET E)
    OBVIOUS
  <2> HIDE DEF C
  <2> QED
    BY <1>9, <1>10, <2>1, FoldGrows
<1> QED
  BY <1>8, <1>11

LEMMA PersKeeps ==
  ASSUME LobbyInv, NEW fd \in DOMAIN conns, Pers(fd)
  PROVE  LobbyInv' /\ LocksKept
<1> DEFINE earlier == {o \in DOMAIN conns \ {fd} : conns[o].user = conns[fd].user}
           LoggedIn(b) == PutConn(b, fd, [b.conns[fd] EXCEPT !.id = TRUE])
<1>1. PICK w \in Answering(fd) : Becomes(Send(Dropped(LoggedIn(Send(w, {fd})), earlier), {fd}))
  BY DEF Pers, Dropped, PutConn
<1>2. PICK b, c, t, u, v :
        /\ b = Send(w, {fd})
        /\ c = [b.conns[fd] EXCEPT !.id = TRUE] /\ t = PutConn(b, fd, c)
        /\ u = Dropped(t, earlier) /\ v = Send(u, {fd})
  OBVIOUS
<1>3. Well(w) /\ Fades(World, w)
  BY AnsweringIs
<1>4. Well(b) /\ Fades(World, b)
  BY <1>2, <1>3, SendKeeps, FadesTwice
<1>5. /\ DOMAIN b.conns = DOMAIN conns
      /\ \A x \in DOMAIN conns : b.conns[x].user = conns[x].user /\ b.conns[x].id = conns[x].id
  BY <1>4 DEF Fades, Quiet, SameConns, World
<1>6. /\ c \in Connection
      /\ c.id /\ c.user = b.conns[fd].user /\ c.up = b.conns[fd].up
      /\ c.game = b.conns[fd].game /\ c.role = b.conns[fd].role
  <2>1. b.conns[fd] \in Connection
    BY <1>4, <1>5, WorldHas DEF Well
  <2> QED
    BY <1>2, <2>1 DEF Connection
<1>7. /\ t \in Worlds
      /\ t.games = b.games /\ t.net = b.net
      /\ DOMAIN t.conns = DOMAIN conns
      /\ t.conns[fd] = c
      /\ \A x \in DOMAIN conns \ {fd} : t.conns[x] = b.conns[x]
  <2>1. b \in Worlds /\ t = PutConn(b, fd, c)
    BY <1>2, <1>4 DEF Well
  <2> QED
    BY <1>5, <1>6, <2>1, PutConnDoes
<1>8. c.user # NoUser
  BY <1>5, <1>6 DEF Pers
<1>9. Named(t) /\ Listed(t)
  BY <1>4, <1>5, <1>6, <1>7, <1>8 DEF Well, Named, Listed
<1>10. Well(t)
  BY <1>4, <1>7, <1>9 DEF Well, Played
<1>11. earlier \in SUBSET Nat /\ IsFiniteSet(earlier) /\ \A o \in earlier : o \in DOMAIN conns
  <2>1. DOMAIN conns \in SUBSET Fds
    BY <1>3, WorldHas DEF LobbyInv, Well, World
  <2> QED
    BY <2>1, FdsAssumption, FS_Subset
<1>12. Well(u) /\ Fades(t, u) /\ \A o \in earlier : ~ Live(u, o)
  <2> DEFINE K == {x \in Worlds : Well(x) /\ Fades(t, x)}
  <2>1. \A x \in K : DOMAIN x.conns = DOMAIN conns
    BY <1>7 DEF Fades, Quiet, SameConns
  <2>2. ASSUME NEW x \in K, NEW o \in earlier PROVE DropEarlier(x, o) \in K
    <3>1. PICK y : y = DropEarlier(x, o)
      OBVIOUS
    <3>2. o \in DOMAIN x.conns
      BY <1>11, <2>1
    <3>3. Well(y) /\ Fades(x, y)
      BY <3>1, <3>2, DropEarlierKeeps
    <3> QED
      BY <3>1, <3>3, FadesTwice DEF Well
  <2>3. t \in K
    BY <1>7, <1>10 DEF Fades, Quiet, SameConns
  <2>4. \A x \in K : earlier \subseteq DOMAIN x.conns /\ Well(x)
    BY <1>11, <2>1
  <2> HIDE DEF earlier
  <2>5. \A x \in K : Well(x) /\ Fades(t, x)
    OBVIOUS
  <2> HIDE DEF K
  <2>6. u \in K /\ \A o \in earlier : ~ Live(u, o)
    BY <1>2, <1>11, <2>2, <2>3, <2>4, DroppedKeeps
  <2> QED
    BY <2>5, <2>6
<1>13. One(u)
  <2>1. One(b)
    BY <1>4, OneFades DEF LobbyInv, Fades
  <2>2. /\ DOMAIN u.conns = DOMAIN conns
        /\ \A x \in DOMAIN conns : u.conns[x].user = conns[x].user /\ (Live(u, x) => Live(t, x))
    BY <1>5, <1>6, <1>7, <1>12 DEF Fades, Quiet, SameConns
  <2>3. \A x \in DOMAIN conns : x # fd => (Live(t, x) <=> Live(b, x))
    BY <1>7 DEF Live
  <2>4. \A x \in DOMAIN conns : x # fd /\ conns[x].user = conns[fd].user => ~ Live(u, x)
    BY <1>12
  <2> HIDE DEF earlier
  <2>5. ASSUME NEW x \in DOMAIN u.conns, NEW y \in DOMAIN u.conns,
               Live(u, x), Live(u, y), u.conns[x].user = u.conns[y].user
        PROVE  x = y
    <3>1. CASE x = fd \/ y = fd
      BY <2>2, <2>4, <2>5, <3>1
    <3>2. CASE x # fd /\ y # fd
      BY <1>5, <2>1, <2>2, <2>3, <2>5, <3>2 DEF One
    <3> QED
      BY <3>1, <3>2
  <2> QED
    BY <2>5 DEF One
<1>14. Well(v) /\ Fades(u, v)
  BY <1>2, <1>12, SendKeeps
<1>15. Fades(t, v)
  BY <1>12, <1>14, FadesTwice
<1>16. LocksHold(World, v)
  BY <1>4, <1>7, <1>15 DEF LocksHold, Fades, World
<1>17. Outcome(World, v)
  <2>1. One(v)
    BY <1>13, <1>14, OneFades DEF Fades
  <2>2. DOMAIN v.conns = DOMAIN World.conns
    BY <1>7, <1>15 DEF Fades, Quiet, SameConns, World
  <2> QED
    BY <1>14, <1>16, <2>1, <2>2 DEF Outcome
<1>18. DOMAIN v.games \subseteq 1 .. nextGame' - 1
  BY <1>4, <1>7, <1>15 DEF LobbyInv, Fades, Pers, World
<1>19. Becomes(v)
  BY <1>1, <1>2
<1> QED
  BY <1>17, <1>18, <1>19, HandlerKeeps DEF LobbyInv, Pers

LEMMA HangupKeeps ==
  ASSUME LobbyInv, NEW fd \in Fds, Hangup(fd)
  PROVE  LobbyInv' /\ LocksKept
<1>1. PICK how \in {"fin", "reset"} : net' = [net EXCEPT ![fd] = how]
  BY DEF Hangup
<1>2. PICK v : v = [World EXCEPT !.net[fd] = how]
  OBVIOUS
<1>3. World \in Worlds /\ World.conns = conns /\ World.games = games /\ World.net = net
  BY DEF LobbyInv, Well, World
<1>4. DOMAIN conns \subseteq Fds /\ net \in [Fds -> Ends]
  BY <1>3, WorldHas
<1>5. v \in Worlds /\ v.conns = conns /\ v.games = games /\ v.net = [net EXCEPT ![fd] = how]
  <2>1. PICK w \in Worlds : w = World
    BY <1>3
  <2>2. v = [w EXCEPT !.net[fd] = how] /\ how \in Ends
    BY <1>2, <2>1 DEF Ends
  <2> QED
    BY <1>3, <2>1, <2>2, NetDoes
<1>6. Well(v)
  BY <1>3, <1>5 DEF LobbyInv, Well, Named, Listed, Played
<1>7. \A x \in Fds : v.net[x] = IF x = fd THEN how ELSE net[x]
  BY <1>4, <1>5
<1>8. Fades(World, v)
  BY <1>3, <1>4, <1>5, <1>7 DEF Fades, Quiet, SameConns, Live, Hangup
<1>9. Becomes(v)
  BY <1>1, <1>5 DEF Becomes, Hangup
<1> QED
  BY <1>6, <1>8, <1>9, FadingKeeps DEF Hangup

LEMMA AcceptKeeps ==
  ASSUME LobbyInv, Accept
  PROVE  LobbyInv' /\ LocksKept
<1> DEFINE fresh(role) == [role |-> role, up |-> TRUE, user |-> NoUser, id |-> FALSE, game |-> 0]
<1>1. PICK fd \in Fds, role \in Roles :
        net' = [net EXCEPT ![fd] = "ok"] /\ conns' = With(conns, fd, fresh(role))
  BY DEF Accept
<1>2. PICK c : c = fresh(role)
  OBVIOUS
<1>3. c \in Connection /\ ~ c.id /\ c.game = 0
  BY <1>2, BoundsAssumption DEF Connection
<1>4. World \in Worlds /\ World.conns = conns /\ World.games = games /\ World.net = net
  BY DEF LobbyInv, Well, World
<1>5. /\ DOMAIN conns \subseteq Fds /\ conns \in [DOMAIN conns -> Connection]
      /\ DOMAIN games \subseteq 1 .. MaxGames /\ games \in [DOMAIN games -> AnyGame]
      /\ net \in [Fds -> Ends]
  BY <1>4, WorldHas
<1> HIDE DEF fresh
<1>6. /\ DOMAIN conns' = DOMAIN conns \cup {fd}
      /\ conns'[fd] = c /\ \A x \in DOMAIN conns \ {fd} : conns'[x] = conns[x]
      /\ conns' \in [DOMAIN conns' -> Connection]
  BY <1>1, <1>2, <1>3, <1>5 DEF With
<1>7. net' \in [Fds -> Ends] /\ \A x \in Fds : net'[x] = IF x = fd THEN "ok" ELSE net[x]
  BY <1>1, <1>5 DEF Ends
<1>8. games' = games
  BY DEF Accept
<1>9. PICK v : v = [conns |-> conns', games |-> games, net |-> net']
  OBVIOUS
<1>10. v \in Worlds /\ v.conns = conns' /\ v.games = games /\ v.net = net'
  BY <1>5, <1>6, <1>7, <1>9, WorldOf
<1>11. World' = v
  BY <1>8, <1>9 DEF World
<1>12. Named(v) /\ Listed(v) /\ Played(v)
  BY <1>3, <1>4, <1>6, <1>10 DEF LobbyInv, Well, Named, Listed, Played
<1>13. One(v)
  <2>1. \A x \in DOMAIN conns' : Live(v, x) => x \in DOMAIN conns \ {fd} /\ Live(World, x)
    BY <1>3, <1>4, <1>5, <1>6, <1>7, <1>10 DEF Live
  <2> QED
    BY <1>4, <1>6, <1>10, <2>1 DEF LobbyInv, One
<1>14. (Well(World) /\ One(World))'
  BY <1>10, <1>11, <1>12, <1>13 DEF Well
<1>15. LobbyInv'
  BY <1>6, <1>8, <1>14, BoundsAssumption DEF LobbyInv, Accept, loop
<1>16. LocksKept
  BY <1>8 DEF LocksKept, Players
<1> QED
  BY <1>15, <1>16

\* What changes only where the loop is.
LEMMA LoopKeeps ==
  ASSUME LobbyInv, UNCHANGED <<world, nextGame, accepted>>,
         phase' \in {"accept", "serve", "stopped"}, todo' \subseteq Fds,
         closed' \subseteq DOMAIN conns, phase' # "serve" => closed' = {}
  PROVE  LobbyInv' /\ LocksKept
<1>1. World' = World /\ conns' = conns /\ games' = games
  BY DEF world, World
<1>2. (Well(World) /\ One(World))'
  BY <1>1 DEF LobbyInv
<1> QED
  BY <1>1, <1>2 DEF LobbyInv, LocksKept, Players

LEMMA SweepKeeps ==
  ASSUME LobbyInv, Sweep
  PROVE  LobbyInv' /\ LocksKept
<1>1. World \in Worlds /\ World.conns = conns /\ World.games = games /\ World.net = net
  BY DEF LobbyInv, Well, World
<1>2. /\ DOMAIN conns \subseteq Fds /\ conns \in [DOMAIN conns -> Connection]
  BY <1>1, WorldHas
<1>3. closed # {} /\ closed \in SUBSET Nat
  BY <1>2, FdsAssumption DEF LobbyInv, Sweep
<1>4. PICK fd \in closed : fd = Min(closed)
  BY <1>3, MinOf
<1>5. fd \in DOMAIN conns
  BY DEF LobbyInv
<1>6. PICK c, t, u, cs, v :
        /\ c = [conns[fd] EXCEPT !.up = TRUE] /\ t = PutConn(World, fd, c)
        /\ u = LeaveGame(t, fd) /\ cs = Without(u.conns, fd) /\ v = [u EXCEPT !.conns = cs]
  OBVIOUS
<1>7. closed' = closed \ {fd} /\ Becomes(v)
  <2>1. [World EXCEPT !.conns[fd].up = TRUE] = t
    BY <1>1, <1>6 DEF PutConn
  <2>2. Becomes([LeaveGame(t, fd) EXCEPT !.conns = Without(LeaveGame(t, fd).conns, fd)])
    BY <1>4, <2>1 DEF Sweep
  <2> QED
    BY <1>4, <1>6, <2>2 DEF Sweep
<1>8. /\ c \in Connection
      /\ c.id = conns[fd].id /\ c.user = conns[fd].user
      /\ c.game = conns[fd].game /\ c.role = conns[fd].role
  <2>1. conns[fd] \in Connection
    BY <1>2, <1>5
  <2> QED
    BY <1>6, <2>1 DEF Connection
<1>9. /\ t \in Worlds
      /\ t.games = games /\ t.net = net
      /\ DOMAIN t.conns = DOMAIN conns
      /\ t.conns[fd] = c
      /\ \A x \in DOMAIN conns \ {fd} : t.conns[x] = conns[x]
  <2>1. PICK w \in Worlds : w = World
    BY <1>1
  <2>2. t = PutConn(w, fd, c) /\ fd \in DOMAIN w.conns
    BY <1>1, <1>5, <1>6, <2>1
  <2> QED
    BY <1>1, <1>8, <2>1, <2>2, PutConnDoes
<1>10. Well(t)
  <2>1. Named(t) /\ Listed(t) /\ Played(t)
    BY <1>1, <1>5, <1>8, <1>9 DEF LobbyInv, Well, Named, Listed, Played
  <2> QED
    BY <1>9, <2>1 DEF Well
<1>11. Well(u) /\ Fades(t, u) /\ fd \in DOMAIN t.conns
  BY <1>5, <1>6, <1>9, <1>10, LeaveGameKeeps
<1>12. DOMAIN u.conns = DOMAIN conns /\ \A x \in DOMAIN conns : u.conns[x].user = t.conns[x].user
  BY <1>9, <1>11 DEF Fades, Quiet, SameConns
<1>13. /\ DOMAIN cs = DOMAIN conns \ {fd} /\ cs \in [DOMAIN cs -> Connection]
       /\ \A x \in DOMAIN conns \ {fd} : cs[x] = u.conns[x]
  <2>1. u.conns \in [DOMAIN u.conns -> Connection]
    BY <1>11, WorldHas DEF Well
  <2> QED
    BY <1>6, <1>12, <2>1 DEF Without
<1>14. v \in Worlds /\ v.conns = cs /\ v.games = u.games /\ v.net = u.net
  <2>1. u \in Worlds
    BY <1>11 DEF Well
  <2>2. v = [conns |-> cs, games |-> u.games, net |-> u.net]
    BY <1>6, <2>1, WorldExcept
  <2> QED
    BY <1>2, <1>13, <2>1, <2>2, WorldHas, WorldOf
<1>15. Well(v)
  <2>1. Named(v) /\ Listed(v) /\ Played(v)
    BY <1>11, <1>12, <1>13, <1>14 DEF Well, Named, Listed, Played
  <2> QED
    BY <1>14, <2>1 DEF Well
<1>16. One(v)
  <2>1. \A x \in DOMAIN v.conns : /\ x \in DOMAIN conns /\ v.conns[x].user = conns[x].user
                                  /\ Live(v, x) => Live(World, x)
    <3> SUFFICES ASSUME NEW x \in DOMAIN v.conns
                 PROVE  /\ x \in DOMAIN conns /\ v.conns[x].user = conns[x].user
                        /\ Live(v, x) => Live(World, x)
      OBVIOUS
    <3>1. x \in DOMAIN conns \ {fd} /\ v.conns[x] = u.conns[x] /\ v.net = u.net
      BY <1>13, <1>14
    <3>2. Live(v, x) => Live(u, x)
      BY <3>1 DEF Live
    <3>3. Live(u, x) => Live(t, x)
      BY <1>9, <1>11, <3>1 DEF Fades, Quiet
    <3>4. Live(t, x) => Live(World, x)
      BY <1>1, <1>9, <3>1 DEF Live
    <3> QED
      BY <1>9, <1>12, <3>1, <3>2, <3>3, <3>4
  <2> QED
    BY <1>1, <2>1 DEF LobbyInv, One
<1>17. World' = v
  BY <1>7, <1>14, BecomesIs
<1>18. conns' = v.conns /\ games' = v.games
  BY <1>7 DEF Becomes
<1>19. /\ DOMAIN v.games \subseteq DOMAIN games
       /\ \A i \in DOMAIN v.games : ToSet(v.games[i].players) \subseteq ToSet(games[i].players)
  BY <1>9, <1>11, <1>14 DEF Fades
<1>20. (Well(World) /\ One(World))'
  BY <1>15, <1>16, <1>17
<1>21. LobbyInv'
  BY <1>7, <1>13, <1>14, <1>18, <1>19, <1>20 DEF LobbyInv, Sweep
<1>22. LocksKept
  BY <1>18, <1>19 DEF LocksKept, Players
<1> QED
  BY <1>21, <1>22

LEMMA PingKeeps ==
  ASSUME LobbyInv, Ping
  PROVE  LobbyInv' /\ LocksKept
<1>1. PICK quiet : Becomes(Send(World, quiet))
  BY DEF Ping
<1>2. PICK v : v = Send(World, quiet)
  OBVIOUS
<1>3. Well(v) /\ Fades(World, v)
  BY <1>2, SendKeeps DEF LobbyInv
<1>4. One(v)
  BY <1>3, OneFades DEF LobbyInv, Fades
<1>5. World' = v
  BY <1>1, <1>2, <1>3, BecomesIs DEF Well
<1>6. conns' = v.conns /\ games' = v.games
  BY <1>1, <1>2 DEF Becomes
<1>7. /\ DOMAIN v.conns = DOMAIN conns /\ DOMAIN v.games \subseteq DOMAIN games
      /\ \A i \in DOMAIN v.games : ToSet(v.games[i].players) \subseteq ToSet(games[i].players)
  BY <1>3 DEF Fades, Quiet, SameConns, World
<1>8. DOMAIN conns \subseteq Fds
  BY WorldHas DEF LobbyInv, Well, World
<1>9. (Well(World) /\ One(World))'
  BY <1>3, <1>4, <1>5
<1>10. LobbyInv'
  BY <1>6, <1>7, <1>8, <1>9 DEF LobbyInv, Ping
<1>11. LocksKept
  BY <1>6, <1>7 DEF LocksKept, Players
<1> QED
  BY <1>10, <1>11

LEMMA StopKeeps ==
  ASSUME LobbyInv, Stop
  PROVE  LobbyInv' /\ LocksKept
<1>1. World \in Worlds /\ World.games = games
  BY DEF LobbyInv, Well, World
<1>2. PICK c, n : c = <<>> /\ n = [fd \in Fds |-> "free"]
  OBVIOUS
<1>3. DOMAIN c = {} /\ c \in [DOMAIN c -> Connection] /\ n \in [Fds -> Ends]
  BY <1>2 DEF Ends
<1>4. PICK v : v = [conns |-> c, games |-> games, net |-> n]
  OBVIOUS
<1>5. v \in Worlds /\ v.conns = c /\ v.games = games
  BY <1>1, <1>3, <1>4, WorldHas, WorldOf
<1>6. World' = v
  BY <1>2, <1>4 DEF Stop, World
<1>7. Well(v) /\ One(v)
  BY <1>1, <1>3, <1>5 DEF LobbyInv, Well, Named, Listed, Played, One
<1>8. (Well(World) /\ One(World))'
  BY <1>6, <1>7
<1>9. LobbyInv'
  BY <1>8 DEF LobbyInv, Stop
<1>10. LocksKept
  BY DEF LocksKept, Players, Stop
<1> QED
  BY <1>9, <1>10

LEMMA RequestsKeep ==
  ASSUME LobbyInv, NEW fd \in Fds, Requests(fd)
  PROVE  LobbyInv' /\ LocksKept
<1>1. fd \in DOMAIN conns
  BY DEF Requests, Directory, Configuration, Listings, Gsea, Rankings, AnswerOnce, Auth, Pers, Gcre,
         Gjoi, Gqwk, Glea, Gdel, GsetLock, GsetKick, TellAll, Mesg, Plays, Reads, Serving
<1>2. CASE Directory(fd) \/ Configuration(fd) \/ Listings(fd) \/ Gsea(fd) \/ Rankings(fd)
  <2>1. Answered(fd)
    BY <1>2 DEF Directory, Configuration, Listings, Gsea, Rankings
  <2> QED
    BY <1>1, <2>1, AnsweredKeeps
<1>3. CASE AnswerOnce(fd)
  BY <1>3, ClosingKeeps DEF AnswerOnce
<1>4. CASE Auth(fd)
  BY <1>1, <1>4, AuthKeeps
<1>5. CASE Pers(fd)
  BY <1>1, <1>5, PersKeeps
<1>6. CASE Gcre(fd)
  BY <1>1, <1>6, GcreKeeps
<1>7. CASE Gjoi(fd)
  BY <1>1, <1>7, GjoiKeeps
<1>8. CASE Gqwk(fd)
  BY <1>1, <1>8, GqwkKeeps
<1>9. CASE Glea(fd)
  BY <1>1, <1>9, GleaKeeps
<1>10. CASE Gdel(fd)
  BY <1>1, <1>10, GdelKeeps
<1>11. CASE GsetLock(fd)
  BY <1>1, <1>11, GsetLockKeeps
<1>12. CASE GsetKick(fd)
  BY <1>1, <1>12, GsetKickKeeps
<1>13. CASE TellAll(fd)
  BY <1>1, <1>13, TellAllKeeps
<1>14. CASE Mesg(fd)
  BY <1>1, <1>14, MesgKeeps
<1> QED
  BY <1>2, <1>3, <1>4, <1>5, <1>6, <1>7, <1>8, <1>9, <1>10, <1>11, <1>12, <1>13, <1>14 DEF Requests

-----------------------------------------------------------------------------
(* The theorems that hold whatever happens *)

LEMMA Initially == Init => LobbyInv
<1> SUFFICES ASSUME Init PROVE LobbyInv
  OBVIOUS
<1>1. DOMAIN conns = {} /\ DOMAIN games = {}
  BY DEF Init
<1>2. World \in Worlds
  <2>1. /\ conns \in [DOMAIN conns -> Connection] /\ games \in [DOMAIN games -> AnyGame]
        /\ net \in [Fds -> Ends]
    BY <1>1 DEF Init, Ends
  <2> QED
    BY <1>1, <2>1, WorldOf DEF World
<1>3. Well(World) /\ One(World)
  BY <1>1, <1>2 DEF Well, Named, Listed, Played, One, World
<1> QED
  BY <1>1, <1>3, BoundsAssumption DEF LobbyInv, Init

LEMMA Inductive == LobbyInv /\ [Next]_vars => LobbyInv' /\ (LocksKept \/ UNCHANGED vars)
<1> SUFFICES ASSUME LobbyInv, [Next]_vars PROVE LobbyInv' /\ (LocksKept \/ UNCHANGED vars)
  OBVIOUS
<1>1. DOMAIN conns \subseteq Fds
  BY WorldHas DEF LobbyInv, Well, World
<1>2. ASSUME NEW fd \in Fds, Hangup(fd) PROVE LobbyInv' /\ LocksKept
  BY <1>2, HangupKeeps
<1>3. ASSUME NEW fd \in Fds, ReceiveEnd(fd) PROVE LobbyInv' /\ LocksKept
  BY <1>3, ClosingKeeps DEF ReceiveEnd
<1>4. ASSUME NEW fd \in Fds, Requests(fd) PROVE LobbyInv' /\ LocksKept
  BY <1>4, RequestsKeep
<1>5. CASE Accept
  BY <1>5, AcceptKeeps
<1>6. CASE EndAccept
  BY <1>6, LoopKeeps DEF EndAccept, LobbyInv
<1>7. CASE ServeNext
  BY <1>7, LoopKeeps DEF ServeNext, LobbyInv
<1>8. CASE Sweep
  BY <1>8, SweepKeeps
<1>9. CASE Ping
  BY <1>9, PingKeeps
<1>10. CASE Stop
  BY <1>10, StopKeeps
<1>11. CASE UNCHANGED vars
  <2>1. LobbyInv'
    BY <1>11, LoopKeeps DEF vars, loop, LobbyInv
  <2> QED
    BY <1>11, <2>1
<1> QED
  BY <1>2, <1>3, <1>4, <1>5, <1>6, <1>7, <1>8, <1>9, <1>10, <1>11 DEF Next

\* Whatever the clients do, every variable has its type; in particular, no game
\* that is listed is without players, or has a player without a descriptor.
THEOREM TypeCorrect == Spec => []TypeOK
<1>1. LobbyInv => TypeOK
  <2> SUFFICES ASSUME LobbyInv PROVE TypeOK
    OBVIOUS
  <2>1. World \in Worlds /\ World.conns = conns /\ World.games = games /\ World.net = net
    BY DEF LobbyInv, Well, World
  <2>2. /\ DOMAIN conns \subseteq Fds /\ conns \in [DOMAIN conns -> Connection]
        /\ games \in [DOMAIN games -> AnyGame]
        /\ net \in [Fds -> Ends]
    BY <2>1, WorldHas
  <2>3. ASSUME NEW i \in DOMAIN games PROVE games[i] \in Game /\ games[i].players # <<>>
    <3>1. games[i] \in AnyGame
      BY <2>2
    <3>2. games[i].players # <<>> /\ 0 \notin ToSet(games[i].players)
      BY <2>1 DEF LobbyInv, Well, Played
    <3>3. PICK list \in Seq(Fds \cup {0}) : list = games[i].players
      BY <3>1 DEF AnyGame
    <3>4. list \in Seq(Fds)
      BY <3>2, <3>3 DEF ToSet
    <3> QED
      BY <3>1, <3>2, <3>3, <3>4 DEF AnyGame, Game
  <2>4. games \in [DOMAIN games -> Game]
    BY <2>2, <2>3
  <2> QED
    BY <2>2, <2>3, <2>4 DEF TypeOK, LobbyInv
<1> QED
  BY <1>1, Initially, Inductive, PTL DEF Spec

\* Whatever the clients do, a connection that says it is in a game is among the
\* players of that game, which is there: through joins that leave another game,
\* deletions, kicks, second logins, sends that fail in the middle of a handler,
\* and descriptors that are accepted again before their connection is cleared.
THEOREM PlayersAreListed == Spec => []GamesListMembers
<1>1. LobbyInv => GamesListMembers
  BY DEF LobbyInv, Well, Listed, World, GamesListMembers, Players
<1> QED
  BY <1>1, Initially, Inductive, PTL DEF Spec

\* Whatever the clients do, of the connections of one name only one is logged in
\* and not shut.
THEOREM OneLive == Spec => []OneLivePersona
<1>1. LobbyInv => OneLivePersona
  BY DEF LobbyInv, One, Live, World, OneLivePersona
<1> QED
  BY <1>1, Initially, Inductive, PTL DEF Spec

\* Whatever the clients do, nobody comes to a game that is locked.
THEOREM LockedStaysClosed == Spec => LockedGameClosed
<1>1. LobbyInv /\ [Next]_vars =>
        [\A id \in DOMAIN games \cap DOMAIN games' :
           games[id].locked => ToSet(games'[id].players) \subseteq Players(id)]_vars
  BY Inductive DEF LocksKept
<1> QED
  BY <1>1, Initially, Inductive, PTL DEF Spec, LockedGameClosed
-----------------------------------------------------------------------------
(***************************************************************************)
(* What the server keeps of its games when no mishap comes between: a      *)
(* client that goes is read to have gone, and nobody is kicked in the pass *)
(* that read so. Then the connections' games and the games' players are    *)
(* the same relation, and the host by name is the first player.            *)
(*                                                                         *)
(* What it takes is that a connection in a game never has its descriptor   *)
(* closed but for the moment between the read of its end and the Sweep of  *)
(* the same pass, so that LeaveGame always finds it, and Accept never gets *)
(* its descriptor.                                                         *)
(***************************************************************************)

\* The players of a game are those who say they are in it, nobody twice.
Agree(w) ==
  \A i \in DOMAIN w.games :
    /\ ToSet(w.games[i].players) = {x \in DOMAIN w.conns : w.conns[x].game = i}
    /\ IsInjective(w.games[i].players)

\* The first of them is the host.
Lead(w) == \A i \in DOMAIN w.games : w.games[i].host = w.conns[Head(w.games[i].players)].user

\* Who was shut is in no game.
Shut(w) == \A x \in DOMAIN w.conns : w.net[x] = "reset" => w.conns[x].game = 0

Tidy(w) == Well(w) /\ Agree(w) /\ Lead(w) /\ Shut(w)

\* An open connection has a socket.
Opened(w) == \A x \in DOMAIN w.conns : w.conns[x].up => w.net[x] # "free"

\* From w to v no connection in a game was closed, and no socket was lost.
Upright(w, v) ==
  /\ DOMAIN v.conns = DOMAIN w.conns
  /\ \A x \in DOMAIN w.conns :
       /\ v.conns[x].game # 0 /\ ~ v.conns[x].up => w.conns[x].game # 0 /\ ~ w.conns[x].up
       /\ v.conns[x].up /\ v.net[x] = "free" => w.conns[x].up /\ w.net[x] = "free"

\* Who is closed while in a game is cleared by the end of the pass.
Stranded ==
  \A x \in DOMAIN conns : conns[x].game # 0 /\ ~ conns[x].up =>
    phase = "serve" /\ (x \in closed \/ (todo # {} /\ x = Min(todo)))

Ordered == phase # "stopped" => Tidy(World) /\ Opened(World) /\ Stranded

LEMMA UprightTwice ==
  ASSUME NEW w, NEW u, NEW v, Upright(w, u), Upright(u, v)
  PROVE  Upright(w, v)
  BY DEF Upright

\* Sends to the others leave a connection that was not reset as it is.
Up(w, x) == w.conns[x].up /\ w.net[x] # "reset"

LEMMA UpStays ==
  ASSUME NEW w \in Worlds, NEW v, NEW x \in DOMAIN w.conns, SameSockets(w, v), Up(w, x)
  PROVE  Up(v, x)
  BY WorldHas DEF SameSockets, Up

LEMMA HeadIsIn ==
  ASSUME NEW T, NEW list \in Seq(T), list # <<>>
  PROVE  Head(list) \in ToSet(list)
<1>1. 1 \in DOMAIN list /\ Head(list) = list[1]
  OBVIOUS
<1> QED
  BY <1>1 DEF ToSet

LEMMA HeadOf ==
  ASSUME NEW w, Well(w), NEW i \in DOMAIN w.games
  PROVE  /\ w.games[i].players \in Seq(Fds \cup {0})
         /\ w.games[i].players # <<>>
         /\ Head(w.games[i].players) \in ToSet(w.games[i].players)
<1>1. w.games[i].players \in Seq(Fds \cup {0})
  BY WorldHas DEF Well, AnyGame
<1>2. w.games[i].players # <<>>
  BY DEF Well, Played
<1> QED
  BY <1>1, <1>2, HeadIsIn

LEMMA SentTidy ==
  ASSUME NEW w, NEW v, Tidy(w), Sent(w, v)
  PROVE  Tidy(v) /\ Upright(w, v)
<1>1. Well(v)
  BY SentKeeps DEF Tidy
<1>2. \A x \in DOMAIN w.conns : x \in Fds
  BY WorldHas DEF Tidy, Well
<1>3. Agree(v)
  BY DEF Tidy, Agree, Sent, SameConns
<1>4. Shut(v)
  BY <1>2 DEF Tidy, Shut, Sent, SameConns, SameSockets
<1>5. Lead(v)
  <2> SUFFICES ASSUME NEW i \in DOMAIN w.games
               PROVE  v.games[i].host = v.conns[Head(w.games[i].players)].user
    BY DEF Lead, Sent
  <2>1. Head(w.games[i].players) \in DOMAIN w.conns
    BY HeadOf DEF Tidy, Agree
  <2> QED
    BY <2>1 DEF Tidy, Lead, Sent, SameConns
<1>6. Upright(w, v)
  BY <1>2 DEF Upright, Tidy, Shut, Sent, SameConns, SameSockets
<1> QED
  BY <1>1, <1>3, <1>4, <1>5, <1>6 DEF Tidy

LEMMA SendTidy ==
  ASSUME NEW w, NEW fds, NEW v, v = Send(w, fds), Tidy(w)
  PROVE  Tidy(v) /\ Upright(w, v) /\ Sent(w, v)
  BY SendDoes, SentTidy DEF Tidy, Well

LEMMA LeftTidy ==
  ASSUME NEW w, NEW fd \in DOMAIN w.conns, NEW v, Tidy(w), Left(w, v, fd), w.conns[fd].up
  PROVE  Tidy(v) /\ Upright(w, v)
<1> DEFINE id == w.conns[fd].game
           user == w.conns[fd].user
<1>1. Well(v)
  BY LeftKeeps DEF Tidy
<1>2. \A x \in DOMAIN w.conns : x \in Fds
  BY WorldHas DEF Tidy, Well
<1>3. /\ v \in Worlds
      /\ SameConns(w, v) /\ SameSockets(w, v)
      /\ \A x \in DOMAIN w.conns : v.conns[x].game = IF x = fd THEN 0 ELSE w.conns[x].game
      /\ DOMAIN v.games \subseteq DOMAIN w.games
      /\ \A i \in DOMAIN w.games \ {id} : v.games[i] = w.games[i]
      /\ id \in DOMAIN v.games => Thinned(w, w.games[id], v.games[id], fd, user)
  BY DEF Left, Handle
<1>4. \A i \in DOMAIN w.games : i # 0
  BY WorldHas DEF Tidy, Well
<1>5. id = w.conns[fd].game /\ user = w.conns[fd].user
  OBVIOUS
<1>6. /\ DOMAIN v.conns = DOMAIN w.conns
      /\ \A x \in DOMAIN w.conns : v.conns[x].user = w.conns[x].user
  BY <1>3 DEF SameConns
<1> HIDE DEF id, user
<1>7. Agree(v)
  <2> SUFFICES ASSUME NEW i \in DOMAIN v.games
               PROVE  /\ ToSet(v.games[i].players) = {x \in DOMAIN v.conns : v.conns[x].game = i}
                      /\ IsInjective(v.games[i].players)
    BY DEF Agree
  <2>1. /\ i \in DOMAIN w.games /\ i # 0
        /\ ToSet(w.games[i].players) = {x \in DOMAIN w.conns : w.conns[x].game = i}
        /\ IsInjective(w.games[i].players)
    BY <1>3, <1>4 DEF Tidy, Agree
  <2>2. CASE i = id
    <3>1. /\ ToSet(v.games[i].players) = ToSet(w.games[i].players) \ {fd}
          /\ IsInjective(v.games[i].players)
      BY <1>3, <2>1, <2>2 DEF Thinned
    <3> QED
      BY <1>3, <1>6, <2>1, <3>1
  <2>3. CASE i # id
    BY <1>3, <1>5, <1>6, <2>1, <2>3
  <2> QED
    BY <2>2, <2>3
<1>8. Lead(v)
  <2> SUFFICES ASSUME NEW i \in DOMAIN v.games
               PROVE  v.games[i].host = v.conns[Head(v.games[i].players)].user
    BY DEF Lead
  <2>1. /\ i \in DOMAIN w.games
        /\ w.games[i].host = w.conns[Head(w.games[i].players)].user
    BY <1>3 DEF Tidy, Lead
  <2>2. Head(v.games[i].players) \in DOMAIN w.conns
    BY <1>1, <1>6, <1>7, HeadOf DEF Agree
  <2>3. CASE i = id
    <3>1. /\ w.games[i].players # <<>> /\ Head(w.games[i].players) # fd =>
               Head(v.games[i].players) = Head(w.games[i].players)
          /\ v.games[i].host = IF w.games[i].host = user THEN w.conns[Head(v.games[i].players)].user
                                                        ELSE w.games[i].host
      BY <1>3, <2>2, <2>3 DEF Thinned
    <3>2. w.games[i].players # <<>>
      BY <2>1, HeadOf DEF Tidy
    <3>3. CASE w.games[i].host = user
      BY <1>6, <2>2, <3>1, <3>3
    <3>4. CASE w.games[i].host # user
      BY <1>5, <1>6, <2>1, <2>2, <3>1, <3>2, <3>4
    <3> QED
      BY <3>3, <3>4
  <2>4. CASE i # id
    BY <1>3, <1>6, <2>1, <2>2, <2>4
  <2> QED
    BY <2>3, <2>4
<1>9. Shut(v)
  BY <1>2, <1>3, <1>6 DEF Tidy, Shut, SameSockets
<1>10. Upright(w, v)
  BY <1>2, <1>3, <1>6 DEF Tidy, Shut, Upright, SameSockets
<1> QED
  BY <1>1, <1>7, <1>8, <1>9, <1>10 DEF Tidy

LEMMA LeaveTidy ==
  ASSUME NEW w, NEW fd \in DOMAIN w.conns, NEW v, v = LeaveGame(w, fd), Tidy(w), w.conns[fd].up
  PROVE  Tidy(v) /\ Upright(w, v) /\ Left(w, v, fd) /\ v.conns[fd].game = 0
<1>1. Left(w, v, fd)
  BY LeaveGameDoes DEF Tidy, Well
<1>2. v.conns[fd].game = 0
  BY <1>1 DEF Left
<1> QED
  BY <1>1, <1>2, LeftTidy

LEMMA LongerInjective ==
  ASSUME NEW T, NEW list \in Seq(T), NEW x \in T, NEW v, v = Append(list, x),
         IsInjective(list), x \notin ToSet(list)
  PROVE  IsInjective(v)
<1>1. /\ DOMAIN v = DOMAIN list \cup {Len(list) + 1} /\ Len(list) + 1 \notin DOMAIN list
      /\ v[Len(list) + 1] = x
      /\ \A j \in DOMAIN list : v[j] = list[j]
  OBVIOUS
<1>2. \A j \in DOMAIN list : list[j] # x
  BY DEF ToSet
<1> QED
  BY <1>1, <1>2 DEF IsInjective

LEMMA AppendHead ==
  ASSUME NEW T, NEW list \in Seq(T), NEW x \in T, list # <<>>
  PROVE  Head(Append(list, x)) = Head(list)
  OBVIOUS

LEMMA SeatTidy ==
  ASSUME NEW w, NEW fd \in DOMAIN w.conns, NEW id \in DOMAIN w.games, NEW v, v = TakeSeat(w, fd, id),
         Tidy(w), w.conns[fd].id, w.conns[fd].game # id, ~ w.games[id].locked, Up(w, fd)
  PROVE  Tidy(v) /\ Upright(w, v)
<1>1. PICK u : u = LeaveGame(w, fd)
  OBVIOUS
<1>2. Tidy(u) /\ Upright(w, u) /\ Left(w, u, fd) /\ u.conns[fd].game = 0
  BY <1>1, LeaveTidy DEF Up
<1>3. DOMAIN u.conns = DOMAIN w.conns /\ fd \in DOMAIN u.conns /\ id \in DOMAIN u.games /\ Up(u, fd)
  BY <1>2, UpStays DEF Left, SameConns, Tidy, Well
<1>4. fd \in Fds /\ id # 0
  BY <1>2, <1>3, WorldHas DEF Tidy, Well
<1>5. v = Seat(u, fd, id)
  BY <1>1 DEF TakeSeat, Seat
<1>6. /\ v \in Worlds
      /\ SameConns(u, v) /\ v.net = u.net
      /\ \A x \in DOMAIN u.conns : /\ v.conns[x].up = u.conns[x].up
                                   /\ v.conns[x].game = IF x = fd THEN id ELSE u.conns[x].game
      /\ DOMAIN v.games = DOMAIN u.games
      /\ \A j \in DOMAIN u.games \ {id} : v.games[j] = u.games[j]
      /\ v.games[id].players = Append(u.games[id].players, fd)
      /\ v.games[id].host = u.games[id].host
  BY <1>2, <1>3, <1>5, SeatDoes DEF Tidy, Well
<1>7. PICK list \in Seq(Fds \cup {0}) : list = u.games[id].players /\ list # <<>>
  BY <1>2, <1>3, HeadOf DEF Tidy
<1>8. ToSet(list) = {x \in DOMAIN u.conns : u.conns[x].game = id} /\ IsInjective(list)
  BY <1>2, <1>3, <1>7 DEF Tidy, Agree
<1>9. fd \notin ToSet(list)
  BY <1>2, <1>4, <1>8
<1>10. /\ ToSet(v.games[id].players) = ToSet(list) \cup {fd}
       /\ IsInjective(v.games[id].players) /\ Head(v.games[id].players) = Head(list)
  <2>1. PICK T : T = Fds \cup {0}
    OBVIOUS
  <2>2. list \in Seq(T) /\ fd \in T /\ list # <<>>
    BY <1>4, <1>7, <2>1
  <2>3. PICK longer : longer = Append(list, fd)
    OBVIOUS
  <2>4. ToSet(longer) = ToSet(list) \cup {fd}
    BY <2>2, <2>3, AppendSet
  <2>5. IsInjective(longer)
    BY <1>8, <1>9, <2>2, <2>3, LongerInjective
  <2>6. Head(longer) = Head(list)
    BY <2>2, <2>3, AppendHead
  <2> QED
    BY <1>6, <1>7, <2>3, <2>4, <2>5, <2>6
<1>11. DOMAIN v.conns = DOMAIN u.conns /\ \A x \in DOMAIN u.conns : v.conns[x].user = u.conns[x].user
  BY <1>6 DEF SameConns
<1>12. Agree(v)
  <2> SUFFICES ASSUME NEW j \in DOMAIN v.games
               PROVE  /\ ToSet(v.games[j].players) = {x \in DOMAIN v.conns : v.conns[x].game = j}
                      /\ IsInjective(v.games[j].players)
    BY DEF Agree
  <2>1. CASE j = id
    BY <1>3, <1>6, <1>8, <1>10, <1>11, <2>1
  <2>2. CASE j # id
    <3>1. /\ v.games[j] = u.games[j] /\ j # 0
          /\ ToSet(u.games[j].players) = {x \in DOMAIN u.conns : u.conns[x].game = j}
          /\ IsInjective(u.games[j].players)
      BY <1>2, <1>6, <2>2, WorldHas DEF Tidy, Agree, Well
    <3> QED
      BY <1>2, <1>3, <1>6, <1>11, <2>2, <3>1
  <2> QED
    BY <2>1, <2>2
<1>13. Lead(v)
  <2> SUFFICES ASSUME NEW j \in DOMAIN v.games
               PROVE  v.games[j].host = v.conns[Head(v.games[j].players)].user
    BY DEF Lead
  <2>1. /\ j \in DOMAIN u.games
        /\ u.games[j].host = u.conns[Head(u.games[j].players)].user
        /\ Head(u.games[j].players) \in DOMAIN u.conns
    BY <1>2, <1>6, HeadOf DEF Tidy, Lead, Agree
  <2>2. v.games[j].host = u.games[j].host /\ Head(v.games[j].players) = Head(u.games[j].players)
    BY <1>6, <1>7, <1>10
  <2> QED
    BY <1>11, <2>1, <2>2
<1>14. Well(v)
  BY TakeSeatKeeps DEF Tidy
<1>15. Shut(v)
  BY <1>2, <1>3, <1>6, <1>11 DEF Tidy, Shut, Up
<1>16. Upright(u, v)
  BY <1>3, <1>6, <1>11 DEF Upright, Up
<1> QED
  BY <1>2, <1>12, <1>13, <1>14, <1>15, <1>16, UprightTwice DEF Tidy

-----------------------------------------------------------------------------
(* What every step keeps *)

\* A step of a handler keeps the order of the world it finds.
LEMMA OrderKeeps ==
  ASSUME LobbyInv, Ordered, phase = "serve", UNCHANGED loop,
         NEW v, Becomes(v), Tidy(v), Upright(World, v)
  PROVE  Ordered'
<1>1. World' = v /\ conns' = v.conns
  BY BecomesIs DEF Tidy, Well, Becomes
<1>2. Tidy(World) /\ Opened(World) /\ Stranded
  BY DEF Ordered
<1>3. Opened(v)
  BY <1>2 DEF Opened, Upright
<1>4. Stranded'
  BY <1>1, <1>2 DEF Stranded, Upright, World, loop
<1>5. Tidy(World)' /\ Opened(World)'
  BY <1>1, <1>3
<1> QED
  BY <1>4, <1>5 DEF Ordered

\* What a request finds where no socket is reset.
LEMMA RequestFinds ==
  ASSUME LobbyInv, Ordered, Mishaps = {}, NEW fd, Reads(fd)
  PROVE  /\ phase = "serve" /\ fd \in DOMAIN conns /\ Up(World, fd)
         /\ Answering(fd) = {World}
         /\ Tidy(World) /\ Upright(World, World)
         /\ World.conns = conns /\ World.games = games /\ World.net = net
  BY DEF Reads, Serving, Up, World, Answering, Ordered, Upright

LEMMA AnsweredOrder ==
  ASSUME LobbyInv, Ordered, Mishaps = {}, NEW fd, Reads(fd), Answered(fd)
  PROVE  Ordered'
<1>1. phase = "serve" /\ Answering(fd) = {World} /\ Tidy(World)
  BY RequestFinds
<1>2. PICK v : v = Send(World, {fd})
  OBVIOUS
<1>3. Tidy(v) /\ Upright(World, v)
  BY <1>1, <1>2, SendTidy
<1>4. Becomes(v) /\ UNCHANGED loop
  BY <1>1, <1>2 DEF Answered
<1> QED
  BY <1>1, <1>3, <1>4, OrderKeeps

LEMMA TellAllOrder ==
  ASSUME LobbyInv, Ordered, Mishaps = {}, NEW fd, Reads(fd), TellAll(fd)
  PROVE  Ordered'
<1>1. phase = "serve" /\ Answering(fd) = {World} /\ Tidy(World)
  BY RequestFinds
<1>2. PICK u, v : u = Send(World, {fd}) /\ v = Send(u, ToSet(u.games[conns[fd].game].players))
  OBVIOUS
<1>3. Tidy(u) /\ Upright(World, u)
  BY <1>1, <1>2, SendTidy
<1>4. Tidy(v) /\ Upright(World, v)
  BY <1>2, <1>3, SendTidy, UprightTwice
<1>5. Becomes(v) /\ UNCHANGED loop
  BY <1>1, <1>2 DEF TellAll, SendGame
<1> QED
  BY <1>1, <1>4, <1>5, OrderKeeps

LEMMA MesgOrder ==
  ASSUME LobbyInv, Ordered, Mishaps = {}, NEW fd, Reads(fd), Mesg(fd)
  PROVE  Ordered'
<1>1. phase = "serve" /\ Answering(fd) = {World} /\ Tidy(World)
  BY RequestFinds
<1>2. PICK to : Becomes(Send(Send(World, {fd}), to)) /\ UNCHANGED loop
  BY <1>1 DEF Mesg
<1>3. PICK u, v : u = Send(World, {fd}) /\ v = Send(u, to)
  OBVIOUS
<1>4. Tidy(u) /\ Upright(World, u)
  BY <1>1, <1>3, SendTidy
<1>5. Tidy(v) /\ Upright(World, v)
  BY <1>3, <1>4, SendTidy, UprightTwice
<1> QED
  BY <1>1, <1>2, <1>3, <1>5, OrderKeeps

LEMMA GleaOrder ==
  ASSUME LobbyInv, Ordered, Mishaps = {}, NEW fd, Reads(fd), Glea(fd)
  PROVE  Ordered'
<1>1. /\ phase = "serve" /\ Answering(fd) = {World} /\ Tidy(World) /\ Up(World, fd)
      /\ fd \in DOMAIN World.conns
  BY RequestFinds
<1>2. PICK u, t, v : u = Send(World, {fd}) /\ t = LeaveGame(u, fd) /\ v = Send(t, {fd})
  OBVIOUS
<1>3. Tidy(u) /\ Upright(World, u) /\ Sent(World, u)
  BY <1>1, <1>2, SendTidy
<1>4. fd \in DOMAIN u.conns /\ Up(u, fd)
  BY <1>1, <1>3, UpStays DEF Sent, SameConns, Tidy, Well
<1>5. Tidy(t) /\ Upright(World, t)
  BY <1>2, <1>3, <1>4, LeaveTidy, UprightTwice DEF Up
<1>6. Tidy(v) /\ Upright(World, v)
  BY <1>2, <1>5, SendTidy, UprightTwice
<1>7. Becomes(v) /\ UNCHANGED loop
  BY <1>1, <1>2 DEF Glea
<1> QED
  BY <1>1, <1>6, <1>7, OrderKeeps

LEMMA SeatingOrder ==
  ASSUME LobbyInv, Ordered, Mishaps = {}, NEW fd, Reads(fd), NEW id \in DOMAIN games,
         conns[fd].id, conns[fd].game # id, ~ games[id].locked,
         Becomes(SendGame(Send(TakeSeat(World, fd, id), {fd}), id)), UNCHANGED loop
  PROVE  Ordered'
<1>1. /\ phase = "serve" /\ Tidy(World) /\ Up(World, fd)
      /\ fd \in DOMAIN World.conns /\ World.conns = conns /\ World.games = games
  BY RequestFinds
<1>2. PICK t, u, v : /\ t = TakeSeat(World, fd, id) /\ u = Send(t, {fd})
                     /\ v = Send(u, ToSet(u.games[id].players))
  OBVIOUS
<1>3. Tidy(t) /\ Upright(World, t)
  <2>1. PICK w : w = World
    OBVIOUS
  <2>2. /\ fd \in DOMAIN w.conns /\ id \in DOMAIN w.games /\ t = TakeSeat(w, fd, id)
        /\ Tidy(w) /\ w.conns[fd].id /\ w.conns[fd].game # id /\ ~ w.games[id].locked /\ Up(w, fd)
    BY <1>1, <1>2, <2>1
  <2> QED
    BY <2>1, <2>2, SeatTidy
<1>4. Tidy(u) /\ Upright(World, u)
  BY <1>2, <1>3, SendTidy, UprightTwice
<1>5. Tidy(v) /\ Upright(World, v)
  BY <1>2, <1>4, SendTidy, UprightTwice
<1>6. Becomes(v)
  BY <1>2 DEF SendGame
<1> QED
  BY <1>1, <1>5, <1>6, OrderKeeps

LEMMA GjoiOrder ==
  ASSUME LobbyInv, Ordered, Mishaps = {}, NEW fd, Reads(fd), Gjoi(fd)
  PROVE  Ordered'
<1>1. phase = "serve" /\ Answering(fd) = {World} /\ Tidy(World)
  BY RequestFinds
<1>2. PICK id \in DOMAIN games :
        LET in == conns[fd].game = id
            joined == IF in THEN World ELSE TakeSeat(World, fd, id)
        IN Becomes(IF games[id].locked /\ ~in THEN Send(World, {fd}) ELSE SendGame(Send(joined, {fd}), id))
  BY <1>1 DEF Gjoi
<1>3. PICK u, v : u = Send(World, {fd}) /\ v = Send(u, ToSet(u.games[id].players))
  OBVIOUS
<1>4. Tidy(u) /\ Upright(World, u)
  BY <1>1, <1>3, SendTidy
<1>5. UNCHANGED loop
  BY DEF Gjoi
<1>6. CASE conns[fd].game = id
  <2>1. Tidy(v) /\ Upright(World, v)
    BY <1>3, <1>4, SendTidy, UprightTwice
  <2>2. Becomes(v)
    BY <1>2, <1>3, <1>6 DEF SendGame
  <2> QED
    BY <1>1, <1>5, <2>1, <2>2, OrderKeeps
<1>7. CASE conns[fd].game # id /\ games[id].locked
  <2>1. Becomes(u)
    BY <1>2, <1>3, <1>7
  <2> QED
    BY <1>1, <1>4, <1>5, <2>1, OrderKeeps
<1>8. CASE conns[fd].game # id /\ ~ games[id].locked
  <2>1. Becomes(SendGame(Send(TakeSeat(World, fd, id), {fd}), id))
    BY <1>2, <1>8
  <2> QED
    BY <1>5, <1>8, <2>1, SeatingOrder DEF Gjoi, Plays
<1> QED
  BY <1>6, <1>7, <1>8

LEMMA GqwkOrder ==
  ASSUME LobbyInv, Ordered, Mishaps = {}, NEW fd, Reads(fd), Gqwk(fd)
  PROVE  Ordered'
<1>1. phase = "serve" /\ Answering(fd) = {World} /\ Tidy(World)
  BY RequestFinds
<1>2. /\ Becomes(IF Open(fd) = {} THEN Send(World, {fd})
                 ELSE SendGame(Send(TakeSeat(World, fd, Min(Open(fd))), {fd}), Min(Open(fd))))
      /\ UNCHANGED loop
  BY <1>1 DEF Gqwk
<1>3. CASE Open(fd) = {}
  <2>1. PICK v : v = Send(World, {fd})
    OBVIOUS
  <2>2. Tidy(v) /\ Upright(World, v)
    BY <1>1, <2>1, SendTidy
  <2> QED
    BY <1>1, <1>2, <1>3, <2>1, <2>2, OrderKeeps
<1>4. CASE Open(fd) # {}
  <2>1. Open(fd) \in SUBSET Nat
    BY DEF LobbyInv, Open
  <2>2. PICK id \in Open(fd) : id = Min(Open(fd))
    BY <1>4, <2>1, MinOf
  <2>3. id \in DOMAIN games /\ conns[fd].game # id /\ ~ games[id].locked
    BY <2>2 DEF Open
  <2>4. Becomes(SendGame(Send(TakeSeat(World, fd, id), {fd}), id))
    BY <1>2, <1>4, <2>2
  <2> QED
    BY <1>2, <2>3, <2>4, SeatingOrder DEF Gqwk, Plays
<1> QED
  BY <1>3, <1>4

LEMMA GcreOrder ==
  ASSUME LobbyInv, LobbyInv', Ordered, Mishaps = {}, NEW fd, Reads(fd), Gcre(fd)
  PROVE  Ordered'
<1> DEFINE fresh(m) == [host |-> conns[fd].user, players |-> <<fd>>, maxsize |-> m, locked |-> FALSE]
<1>1. /\ phase = "serve" /\ Answering(fd) = {World} /\ Tidy(World) /\ Up(World, fd)
      /\ fd \in DOMAIN World.conns /\ World.conns = conns /\ World.games = games
  BY RequestFinds
<1>2. PICK m \in Sizes : Becomes(Send(NewGame(LeaveGame(World, fd), fd, nextGame, fresh(m)), {fd}))
  BY <1>1 DEF Gcre, NewGame
<1>3. PICK game, u, t, v :
        /\ game = fresh(m) /\ u = LeaveGame(World, fd)
        /\ t = NewGame(u, fd, nextGame, game) /\ v = Send(t, {fd})
  OBVIOUS
<1>4. Tidy(u) /\ Upright(World, u) /\ Left(World, u, fd) /\ u.conns[fd].game = 0
  BY <1>1, <1>3, LeaveTidy DEF Up
<1>5. /\ DOMAIN u.conns = DOMAIN conns /\ DOMAIN u.games \subseteq DOMAIN games
      /\ u.conns[fd].user = conns[fd].user /\ u.conns[fd].id
  BY <1>1, <1>4 DEF Left, SameConns, Gcre, Plays
<1>6. Up(u, fd)
  BY <1>1, <1>4, UpStays DEF Left, Tidy, Well
<1>7. fd \in Fds /\ conns[fd].user \in Personas \cup {NoUser}
  BY <1>1, WorldHas DEF Tidy, Well, Connection
<1>8. /\ game \in AnyGame /\ game.players = <<fd>> /\ game.host = conns[fd].user
  BY <1>3, <1>7 DEF AnyGame
<1>9. /\ nextGame \in 1 .. MaxGames /\ nextGame \notin DOMAIN u.games /\ nextGame # 0
  BY <1>5, BoundsAssumption DEF Gcre, LobbyInv
<1>10. /\ t \in Worlds
       /\ SameConns(u, t) /\ t.net = u.net
       /\ \A x \in DOMAIN u.conns : /\ t.conns[x].up = u.conns[x].up
                                    /\ t.conns[x].game = IF x = fd THEN nextGame ELSE u.conns[x].game
       /\ DOMAIN t.games = DOMAIN u.games \cup {nextGame}
       /\ \A j \in DOMAIN u.games \ {nextGame} : t.games[j] = u.games[j]
       /\ t.games[nextGame] = game
  <2>1. u \in Worlds /\ fd \in DOMAIN u.conns /\ nextGame \in 1 .. MaxGames /\ game \in AnyGame
    BY <1>1, <1>4, <1>5, <1>8, <1>9 DEF Tidy, Well
  <2>2. t = NewGame(u, fd, nextGame, game)
    BY <1>3
  <2> QED
    BY <2>1, <2>2, NewGameDoes
<1>11. /\ DOMAIN t.conns = DOMAIN u.conns
       /\ \A x \in DOMAIN u.conns : t.conns[x].user = u.conns[x].user /\ t.conns[x].id = u.conns[x].id
  BY <1>10 DEF SameConns
<1>12. ToSet(<<fd>>) = {fd} /\ IsInjective(<<fd>>) /\ Head(<<fd>>) = fd /\ <<fd>> # <<>>
  BY DEF ToSet, IsInjective
<1>13. \A x \in DOMAIN u.conns : x # fd => t.conns[x].game # nextGame
  BY <1>4, <1>9, <1>10 DEF Tidy, Well, Listed
<1>14. Agree(t)
  <2> SUFFICES ASSUME NEW j \in DOMAIN t.games
               PROVE  /\ ToSet(t.games[j].players) = {x \in DOMAIN t.conns : t.conns[x].game = j}
                      /\ IsInjective(t.games[j].players)
    BY DEF Agree
  <2>1. CASE j = nextGame
    <3>1. {x \in DOMAIN t.conns : t.conns[x].game = j} = {fd}
      BY <1>1, <1>5, <1>10, <1>11, <1>13, <2>1
    <3> QED
      BY <1>8, <1>10, <1>12, <2>1, <3>1
  <2>2. CASE j # nextGame
    <3>1. /\ t.games[j] = u.games[j] /\ j # 0
          /\ ToSet(u.games[j].players) = {x \in DOMAIN u.conns : u.conns[x].game = j}
          /\ IsInjective(u.games[j].players)
      BY <1>4, <1>10, <2>2, WorldHas DEF Tidy, Agree, Well
    <3> QED
      BY <1>4, <1>10, <1>11, <2>2, <3>1
  <2> QED
    BY <2>1, <2>2
<1>15. Lead(t)
  <2> SUFFICES ASSUME NEW j \in DOMAIN t.games
               PROVE  t.games[j].host = t.conns[Head(t.games[j].players)].user
    BY DEF Lead
  <2>1. CASE j = nextGame
    BY <1>1, <1>5, <1>8, <1>10, <1>11, <1>12, <2>1
  <2>2. CASE j # nextGame
    <3>1. /\ t.games[j] = u.games[j]
          /\ u.games[j].host = u.conns[Head(u.games[j].players)].user
          /\ Head(u.games[j].players) \in DOMAIN u.conns
      BY <1>4, <1>10, <2>2, HeadOf DEF Tidy, Lead, Agree
    <3> QED
      BY <1>11, <3>1
  <2> QED
    BY <2>1, <2>2
<1>16. Shut(t)
  BY <1>4, <1>6, <1>10, <1>11 DEF Tidy, Shut, Up
<1>17. Upright(u, t)
  BY <1>6, <1>10, <1>11 DEF Upright, Up
<1>18. Well(t)
  <2>1. Named(t)
    BY <1>4, <1>5, <1>10, <1>11 DEF Tidy, Well, Named
  <2>2. Listed(t)
    BY <1>4, <1>10, <1>11, <1>14 DEF Tidy, Well, Listed, Agree
  <2>3. Played(t)
    <3> SUFFICES ASSUME NEW j \in DOMAIN t.games
                 PROVE  t.games[j].players # <<>> /\ 0 \notin ToSet(t.games[j].players)
      BY DEF Played
    <3>1. CASE j = nextGame
      BY <1>7, <1>8, <1>10, <1>12, <3>1, FdsAssumption
    <3>2. CASE j # nextGame
      BY <1>4, <1>10, <3>2 DEF Tidy, Well, Played
    <3> QED
      BY <3>1, <3>2
  <2> QED
    BY <1>10, <2>1, <2>2, <2>3 DEF Well
<1>19. Tidy(t) /\ Upright(World, t)
  BY <1>4, <1>14, <1>15, <1>16, <1>17, <1>18, UprightTwice DEF Tidy
<1>20. Tidy(v) /\ Upright(World, v)
  BY <1>3, <1>19, SendTidy, UprightTwice
<1>21. Becomes(v) /\ UNCHANGED loop
  BY <1>2, <1>3 DEF Gcre
<1> QED
  BY <1>1, <1>20, <1>21, OrderKeeps

LEMMA GdelOrder ==
  ASSUME LobbyInv, Ordered, Mishaps = {}, NEW fd, Reads(fd), Gdel(fd)
  PROVE  Ordered'
<1> DEFINE id == conns[fd].game
           others == (ToSet(games[id].players) \cap DOMAIN conns) \ {fd}
<1>1. /\ phase = "serve" /\ fd \in DOMAIN conns /\ Answering(fd) = {World} /\ Tidy(World)
      /\ World.conns = conns /\ World.games = games
  BY RequestFinds
<1>2. PICK w, a, u :
        /\ w \in Answering(fd)
        /\ Becomes(Send(u, {fd}))
        /\ Sent(w, a) /\ DOMAIN a.conns = DOMAIN conns /\ a.games = games
        /\ u \in Worlds /\ SameConns(a, u) /\ SameSockets(a, u)
        /\ \A x \in DOMAIN conns : /\ a.conns[x].game = conns[x].game
                                  /\ u.conns[x].game = IF x = fd \/ x \in others THEN 0 ELSE conns[x].game
        /\ DOMAIN u.games = DOMAIN games \ {id}
        /\ \A j \in DOMAIN games \ {id} : u.games[j] = games[j]
  <2>1. fd \in DOMAIN conns
    BY <1>1
  <2> HIDE DEF id, others
  <2>2. PICK w \in Answering(fd) : \E a, u :
          /\ Becomes(Send(u, {fd}))
          /\ Sent(w, a) /\ DOMAIN a.conns = DOMAIN conns /\ a.games = games
          /\ u \in Worlds /\ SameConns(a, u) /\ SameSockets(a, u)
          /\ \A x \in DOMAIN conns : /\ a.conns[x].game = conns[x].game
                                    /\ u.conns[x].game = IF x = fd \/ x \in others THEN 0 ELSE conns[x].game
          /\ DOMAIN u.games = DOMAIN games \ {id}
          /\ \A j \in DOMAIN games \ {id} : u.games[j] = games[j]
    BY <2>1, GdelDoes, Zenon DEF id, others
  <2> QED
    BY <2>2
<1>3. Tidy(a) /\ Upright(World, a)
  <2>1. w = World
    BY <1>1, <1>2
  <2> QED
    BY <1>1, <1>2, <2>1, SentTidy
<1>4. id \in DOMAIN games /\ id = conns[fd].game
  BY DEF Gdel
<1>5. \A x \in DOMAIN conns : x \in others => conns[x].game = id
  BY <1>1, <1>4 DEF Tidy, Agree
<1>6. \A x \in DOMAIN conns : conns[x].game = id => x = fd \/ x \in others
  BY <1>1, <1>4 DEF Tidy, Agree
<1> HIDE DEF id, others
<1>7. DOMAIN u.conns = DOMAIN conns /\ \A x \in DOMAIN conns : u.conns[x].user = a.conns[x].user
  BY <1>2 DEF SameConns
<1>8. \A j \in DOMAIN games : j # 0
  BY <1>1, WorldHas DEF Tidy, Well
<1>9. Agree(u)
  <2> SUFFICES ASSUME NEW j \in DOMAIN u.games
               PROVE  /\ ToSet(u.games[j].players) = {x \in DOMAIN u.conns : u.conns[x].game = j}
                      /\ IsInjective(u.games[j].players)
    BY DEF Agree
  <2>1. /\ j \in DOMAIN games \ {id} /\ u.games[j] = games[j] /\ j # 0
        /\ ToSet(games[j].players) = {x \in DOMAIN conns : conns[x].game = j}
        /\ IsInjective(games[j].players)
    BY <1>1, <1>2, <1>8 DEF Tidy, Agree
  <2>2. \A x \in DOMAIN conns : u.conns[x].game = j <=> conns[x].game = j
    BY <1>2, <1>4, <1>5, <2>1
  <2> QED
    BY <1>7, <2>1, <2>2
<1>10. Lead(u)
  <2> SUFFICES ASSUME NEW j \in DOMAIN u.games
               PROVE  u.games[j].host = u.conns[Head(u.games[j].players)].user
    BY DEF Lead
  <2>1. /\ j \in DOMAIN a.games /\ u.games[j] = a.games[j]
        /\ a.games[j].host = a.conns[Head(a.games[j].players)].user
        /\ Head(a.games[j].players) \in DOMAIN a.conns
    BY <1>2, <1>3, HeadOf DEF Tidy, Lead, Agree
  <2> QED
    BY <1>2, <1>7, <2>1
<1>11. \A x \in DOMAIN conns : x \in Fds /\ (u.conns[x].game # 0 => a.conns[x].game # 0)
  BY <1>1, <1>2, WorldHas DEF Tidy, Well
<1>12. Shut(u)
  BY <1>2, <1>3, <1>7, <1>11 DEF Tidy, Shut, SameSockets
<1>13. Upright(a, u)
  BY <1>2, <1>3, <1>7, <1>11 DEF Tidy, Shut, Upright, SameSockets
<1>14. Well(u)
  <2>1. Named(u)
    BY <1>2, <1>3, <1>11 DEF Tidy, Well, Named, SameConns
  <2>2. Listed(u)
    <3> SUFFICES ASSUME NEW x \in DOMAIN u.conns, u.conns[x].game # 0
                 PROVE  u.conns[x].game \in DOMAIN u.games
      BY <1>9 DEF Listed, Agree
    <3>1. x \in DOMAIN conns /\ x # fd /\ x \notin others /\ u.conns[x].game = conns[x].game
      BY <1>2, <1>7
    <3>2. conns[x].game \in DOMAIN games /\ conns[x].game # id
      BY <1>1, <1>6, <3>1 DEF Tidy, Well, Listed
    <3> QED
      BY <1>2, <3>1, <3>2
  <2>3. Played(u)
    BY <1>2, <1>3 DEF Tidy, Well, Played
  <2> QED
    BY <1>2, <2>1, <2>2, <2>3 DEF Well
<1>15. Tidy(u) /\ Upright(World, u)
  BY <1>3, <1>9, <1>10, <1>12, <1>13, <1>14, UprightTwice DEF Tidy
<1>16. PICK v : v = Send(u, {fd})
  OBVIOUS
<1>17. Tidy(v) /\ Upright(World, v)
  BY <1>15, <1>16, SendTidy, UprightTwice
<1>18. Becomes(v) /\ UNCHANGED loop
  BY <1>2, <1>16 DEF Gdel
<1> QED
  BY <1>1, <1>17, <1>18, OrderKeeps

LEMMA GsetLockOrder ==
  ASSUME LobbyInv, Ordered, Mishaps = {}, NEW fd, Reads(fd), GsetLock(fd)
  PROVE  Ordered'
<1> DEFINE id == conns[fd].game
<1>1. /\ phase = "serve" /\ Answering(fd) = {World} /\ Tidy(World)
      /\ World.conns = conns /\ World.games = games
  BY RequestFinds
<1>2. PICK l \in BOOLEAN :
        Becomes(SendGame(Send(PutGame(World, id, [games[id] EXCEPT !.locked = l]), {fd}), id))
  BY <1>1 DEF GsetLock, PutGame
<1>3. PICK w, k, t, u, v :
        /\ w = World /\ k = [games[id] EXCEPT !.locked = l] /\ t = PutGame(w, id, k)
        /\ u = Send(t, {fd}) /\ v = Send(u, ToSet(u.games[id].players))
  OBVIOUS
<1>4. id \in DOMAIN games
  BY DEF GsetLock, Hosts
<1>5. Becomes(v) /\ UNCHANGED loop
  BY <1>2, <1>3 DEF SendGame, GsetLock
<1> HIDE DEF id
<1>6. games[id] \in AnyGame
  BY <1>1, <1>4, WorldHas DEF Tidy, Well
<1>7. k \in AnyGame /\ k.players = games[id].players /\ k.host = games[id].host
  BY <1>3, <1>6, GameOfLock
<1>8. /\ t \in Worlds /\ t.conns = w.conns /\ t.net = w.net
      /\ DOMAIN t.games = DOMAIN w.games
      /\ t.games[id] = k
      /\ \A j \in DOMAIN w.games \ {id} : t.games[j] = w.games[j]
  <2>1. w \in Worlds /\ id \in DOMAIN w.games /\ k \in AnyGame
    BY <1>1, <1>3, <1>4, <1>7 DEF Tidy, Well
  <2>2. t = PutGame(w, id, k)
    BY <1>3
  <2> QED
    BY <2>1, <2>2, PutGameDoes
<1>9. \A j \in DOMAIN w.games : t.games[j].players = w.games[j].players /\ t.games[j].host = w.games[j].host
  <2>1. w.games[id] = games[id]
    BY <1>1, <1>3
  <2>2. t.games[id].players = w.games[id].players /\ t.games[id].host = w.games[id].host
    BY <1>7, <1>8, <2>1
  <2> QED
    BY <1>8, <2>2
<1>10. Tidy(w) /\ Upright(World, w)
  BY <1>1, <1>3 DEF Upright
<1>11. Well(t)
  BY <1>8, <1>9, <1>10 DEF Tidy, Well, Named, Listed, Played
<1>12. Agree(t) /\ Lead(t) /\ Shut(t)
  BY <1>8, <1>9, <1>10 DEF Tidy, Agree, Lead, Shut
<1>13. Upright(w, t)
  BY <1>8 DEF Upright
<1>14. Tidy(t) /\ Upright(World, t)
  BY <1>10, <1>11, <1>12, <1>13, UprightTwice DEF Tidy
<1>15. Tidy(u) /\ Upright(World, u)
  BY <1>3, <1>14, SendTidy, UprightTwice
<1>16. Tidy(v) /\ Upright(World, v)
  BY <1>3, <1>15, SendTidy, UprightTwice
<1> QED
  BY <1>1, <1>5, <1>16, OrderKeeps

LEMMA GsetKickOrder ==
  ASSUME LobbyInv, Ordered, Mishaps = {}, NEW fd, Reads(fd), GsetKick(fd)
  PROVE  Ordered'
<1> DEFINE players == games[conns[fd].game].players
           named(kick) == SelectInSeq(players, LAMBDA p : p \in DOMAIN conns \ {fd} /\ conns[p].user = kick)
           Kicked(w, target) == Send(LeaveGame(Send(w, {target}), target), {target})
<1>1. /\ phase = "serve" /\ Answering(fd) = {World} /\ Tidy(World) /\ Upright(World, World)
      /\ World.conns = conns /\ World.games = games
  BY RequestFinds
<1>2. PICK kick \in Personas :
        /\ named(kick) # 0 => conns[players[named(kick)]].up
        /\ Becomes(Send(IF named(kick) = 0 THEN World ELSE Kicked(World, players[named(kick)]), {fd}))
        /\ UNCHANGED loop
  BY <1>1 DEF GsetKick
<1>3. PICK at, target, w : at = named(kick) /\ target = players[at] /\ w = World
  OBVIOUS
<1>4. /\ at # 0 => conns[target].up
      /\ Becomes(Send(IF at = 0 THEN w ELSE Kicked(w, target), {fd}))
  BY <1>2, <1>3
<1>5. Tidy(w) /\ Upright(World, w) /\ w.conns = conns /\ w.games = games
  BY <1>1, <1>3
<1>6. /\ conns[fd].game \in DOMAIN games /\ conns[fd].game # 0
      /\ players \in Seq(Fds \cup {0})
      /\ ToSet(players) = {x \in DOMAIN conns : conns[x].game = conns[fd].game}
  <2>1. conns[fd].game \in DOMAIN games
    BY DEF GsetKick, Hosts
  <2> QED
    BY <1>5, <2>1, HeadOf, WorldHas DEF Tidy, Agree, Well
<1>7. at # 0 => target \in ToSet(players)
  <2> DEFINE I == {j \in 1 .. Len(players) : players[j] \in DOMAIN conns \ {fd} /\ conns[players[j]].user = kick}
  <2>1. at = IF I # {} THEN Min(I) ELSE 0
    BY <1>3 DEF SelectInSeq
  <2>2. I \in SUBSET Nat /\ \A j \in I : j \in 1 .. Len(players)
    OBVIOUS
  <2> HIDE DEF I
  <2>3. at # 0 => at \in 1 .. Len(players)
    BY <2>1, <2>2, MinOf
  <2> HIDE DEF players, named
  <2>4. target = players[at] /\ DOMAIN players = 1 .. Len(players)
    BY <1>3, <1>6
  <2> QED
    BY <2>3, <2>4 DEF ToSet
<1> HIDE DEF players, named
<1>8. CASE at = 0
  <2>1. PICK v : v = Send(w, {fd})
    OBVIOUS
  <2>2. Tidy(v) /\ Upright(World, v)
    BY <1>5, <2>1, SendTidy, UprightTwice
  <2>3. Becomes(v)
    BY <1>4, <1>8, <2>1
  <2> QED
    BY <1>1, <1>2, <2>2, <2>3, OrderKeeps
<1>9. CASE at # 0
  <2>1. PICK u, t, r, v : /\ u = Send(w, {target}) /\ t = LeaveGame(u, target)
                          /\ r = Send(t, {target}) /\ v = Send(r, {fd})
    OBVIOUS
  <2>2. Becomes(v)
    BY <1>4, <1>9, <2>1
  <2>3. target \in DOMAIN w.conns /\ Up(w, target)
    <3>1. target \in DOMAIN conns /\ conns[target].game # 0
      BY <1>6, <1>7, <1>9
    <3> QED
      BY <1>4, <1>5, <1>9, <3>1 DEF Up, Tidy, Shut
  <2>4. Tidy(u) /\ Upright(w, u) /\ Sent(w, u)
    BY <1>5, <2>1, SendTidy
  <2>5. target \in DOMAIN u.conns /\ Up(u, target)
    BY <1>5, <2>3, <2>4, UpStays DEF Sent, SameConns, Tidy, Well
  <2>6. Tidy(t) /\ Upright(u, t)
    BY <2>1, <2>4, <2>5, LeaveTidy DEF Up
  <2>7. Tidy(r) /\ Upright(t, r)
    BY <2>1, <2>6, SendTidy
  <2>8. Tidy(v) /\ Upright(r, v)
    BY <2>1, <2>7, SendTidy
  <2>9. Upright(World, v)
    BY <1>5, <2>4, <2>6, <2>7, <2>8, UprightTwice
  <2> QED
    BY <1>1, <1>2, <2>2, <2>8, <2>9, OrderKeeps
<1> QED
  BY <1>8, <1>9

\* A login changes who a connection is that is in no game, or that it is one.
LEMMA LoginTidy ==
  ASSUME NEW w, NEW fd \in DOMAIN w.conns, NEW c \in Connection, NEW v, v = PutConn(w, fd, c),
         Tidy(w), Well(v), c.up = w.conns[fd].up, c.game = w.conns[fd].game,
         c.game # 0 => c.user = w.conns[fd].user
  PROVE  Tidy(v) /\ Upright(w, v)
<1>1. /\ v.games = w.games /\ v.net = w.net
      /\ DOMAIN v.conns = DOMAIN w.conns
      /\ v.conns[fd] = c
      /\ \A x \in DOMAIN w.conns \ {fd} : v.conns[x] = w.conns[x]
  BY PutConnDoes DEF Tidy, Well
<1>2. \A x \in DOMAIN w.conns : /\ v.conns[x].game = w.conns[x].game /\ v.conns[x].up = w.conns[x].up
                               /\ w.conns[x].game # 0 => v.conns[x].user = w.conns[x].user
  BY <1>1
<1>3. Agree(v) /\ Shut(v) /\ Upright(w, v)
  BY <1>1, <1>2 DEF Tidy, Agree, Shut, Upright
<1>4. Lead(v)
  <2> SUFFICES ASSUME NEW i \in DOMAIN w.games
               PROVE  v.games[i].host = v.conns[Head(w.games[i].players)].user
    BY <1>1 DEF Lead
  <2>1. Head(w.games[i].players) \in DOMAIN w.conns /\ w.conns[Head(w.games[i].players)].game = i /\ i # 0
    BY HeadOf, WorldHas DEF Tidy, Agree, Well
  <2> QED
    BY <1>1, <1>2, <2>1 DEF Tidy, Lead
<1> QED
  BY <1>3, <1>4 DEF Tidy

LEMMA AuthOrder ==
  ASSUME LobbyInv, Ordered, Mishaps = {}, NEW fd, Reads(fd), Auth(fd)
  PROVE  Ordered'
<1>1. /\ phase = "serve" /\ Answering(fd) = {World} /\ Tidy(World) /\ Upright(World, World)
      /\ fd \in DOMAIN conns /\ World.conns = conns /\ World.games = games
  BY RequestFinds
<1>2. PICK p \in Personas : Becomes(Send(PutConn(World, fd, [World.conns[fd] EXCEPT !.user = p]), {fd}))
  BY <1>1 DEF Auth, PutConn
<1>3. PICK w, c, t, v : /\ w = World /\ c = [w.conns[fd] EXCEPT !.user = p]
                        /\ t = PutConn(w, fd, c) /\ v = Send(t, {fd})
  OBVIOUS
<1>4. Becomes(v) /\ UNCHANGED loop
  BY <1>2, <1>3 DEF Auth
<1>5. Tidy(w) /\ Upright(World, w) /\ fd \in DOMAIN w.conns /\ w.conns = conns
  BY <1>1, <1>3
<1>6. w.conns[fd] \in Connection
  BY <1>5, WorldHas DEF Tidy, Well
<1>7. /\ c \in Connection
      /\ c.id = w.conns[fd].id /\ c.up = w.conns[fd].up /\ c.game = w.conns[fd].game
  BY <1>3, <1>6 DEF Connection
<1>8. ~ c.id /\ c.game = 0
  BY <1>5, <1>7 DEF Auth, Tidy, Well, Named
<1>9. Well(t)
  <2>1. /\ t \in Worlds /\ t.games = w.games /\ t.net = w.net
        /\ DOMAIN t.conns = DOMAIN w.conns
        /\ t.conns[fd] = c
        /\ \A x \in DOMAIN w.conns \ {fd} : t.conns[x] = w.conns[x]
    <3>1. w \in Worlds /\ fd \in DOMAIN w.conns /\ c \in Connection /\ t = PutConn(w, fd, c)
      BY <1>3, <1>5, <1>7 DEF Tidy, Well
    <3> QED
      BY <3>1, PutConnDoes
  <2> QED
    BY <1>5, <1>8, <2>1 DEF Tidy, Well, Named, Listed, Played
<1>10. Tidy(t) /\ Upright(w, t)
  <2>1. /\ fd \in DOMAIN w.conns /\ c \in Connection /\ t = PutConn(w, fd, c) /\ Tidy(w)
        /\ c.up = w.conns[fd].up /\ c.game = w.conns[fd].game /\ c.game = 0
    BY <1>3, <1>5, <1>7, <1>8
  <2> QED
    BY <1>9, <2>1, LoginTidy
<1>11. Tidy(v) /\ Upright(t, v)
  BY <1>3, <1>10, SendTidy
<1>12. Upright(World, v)
  BY <1>5, <1>10, <1>11, UprightTwice
<1> QED
  BY <1>1, <1>4, <1>11, <1>12, OrderKeeps

LEMMA DropTidy ==
  ASSUME NEW w, NEW fd \in DOMAIN w.conns, NEW v, v = DropEarlier(w, fd), Tidy(w)
  PROVE  Tidy(v) /\ Upright(w, v)
<1>1. CASE ~ w.conns[fd].up
  BY <1>1 DEF DropEarlier, Upright
<1>2. CASE w.conns[fd].up
  <2>1. PICK u : u = LeaveGame(w, fd)
    OBVIOUS
  <2>2. Tidy(u) /\ Upright(w, u) /\ u.conns[fd].game = 0
    BY <1>2, <2>1, LeaveTidy
  <2>3. u \in Worlds /\ DOMAIN u.conns \subseteq Fds /\ fd \in Fds /\ u.net \in [Fds -> Ends] /\ "reset" \in Ends
    BY <2>2, WorldHas DEF Tidy, Well, Upright, Ends
  <2>4. v = [u EXCEPT !.net[fd] = "reset"]
    BY <1>2, <2>1 DEF DropEarlier
  <2>5. v.conns = u.conns /\ v.games = u.games /\ v.net = [u.net EXCEPT ![fd] = "reset"]
    BY <2>3, <2>4, NetDoes
  <2>6. \A x \in Fds : v.net[x] = IF x = fd THEN "reset" ELSE u.net[x]
    BY <2>3, <2>5
  <2>7. Well(v)
    BY DropEarlierKeeps DEF Tidy
  <2>8. Agree(v) /\ Lead(v) /\ Shut(v)
    BY <2>2, <2>3, <2>5, <2>6 DEF Tidy, Agree, Lead, Shut
  <2>9. Upright(u, v)
    BY <2>3, <2>5, <2>6 DEF Upright
  <2> QED
    BY <2>2, <2>7, <2>8, <2>9, UprightTwice DEF Tidy
<1> QED
  BY <1>1, <1>2

LEMMA PersOrder ==
  ASSUME LobbyInv, Ordered, Mishaps = {}, NEW fd, Reads(fd), Pers(fd)
  PROVE  Ordered'
<1> DEFINE earlier == {o \in DOMAIN conns \ {fd} : conns[o].user = conns[fd].user}
           LoggedIn(b) == PutConn(b, fd, [b.conns[fd] EXCEPT !.id = TRUE])
<1>1. /\ phase = "serve" /\ Answering(fd) = {World} /\ Tidy(World)
      /\ fd \in DOMAIN conns /\ World.conns = conns
  BY RequestFinds
<1>2. Becomes(Send(Dropped(LoggedIn(Send(World, {fd})), earlier), {fd}))
  BY <1>1 DEF Pers, Dropped, PutConn
<1>3. PICK b, c, t, u, v :
        /\ b = Send(World, {fd})
        /\ c = [b.conns[fd] EXCEPT !.id = TRUE] /\ t = PutConn(b, fd, c)
        /\ u = Dropped(t, earlier) /\ v = Send(u, {fd})
  OBVIOUS
<1>4. Becomes(v) /\ UNCHANGED loop
  BY <1>2, <1>3 DEF Pers
<1>5. Tidy(b) /\ Upright(World, b) /\ Sent(World, b)
  BY <1>1, <1>3, SendTidy
<1>6. DOMAIN b.conns = DOMAIN conns /\ fd \in DOMAIN b.conns /\ b.conns[fd].user = conns[fd].user
  BY <1>1, <1>5 DEF Sent, SameConns
<1>7. /\ c \in Connection
      /\ c.user = b.conns[fd].user /\ c.up = b.conns[fd].up /\ c.game = b.conns[fd].game /\ c.id
  <2>1. b.conns[fd] \in Connection
    BY <1>5, <1>6, WorldHas DEF Tidy, Well
  <2> QED
    BY <1>3, <2>1 DEF Connection
<1> HIDE DEF earlier, LoggedIn
<1>8. Well(t)
  <2>0. b \in Worlds /\ t = PutConn(b, fd, c)
    BY <1>3, <1>5 DEF Tidy, Well
  <2>1. /\ t \in Worlds /\ t.games = b.games /\ t.net = b.net
        /\ DOMAIN t.conns = DOMAIN b.conns
        /\ t.conns[fd] = c
        /\ \A x \in DOMAIN b.conns \ {fd} : t.conns[x] = b.conns[x]
    BY <1>6, <1>7, <2>0, PutConnDoes
  <2>2. c.user # NoUser
    BY <1>6, <1>7 DEF Pers
  <2> QED
    BY <1>5, <1>7, <2>1, <2>2 DEF Tidy, Well, Named, Listed, Played
<1>9. Tidy(t) /\ Upright(b, t)
  <2>1. t = PutConn(b, fd, c)
    BY <1>3
  <2> QED
    BY <1>5, <1>6, <1>7, <1>8, <2>1, LoginTidy
<1>10. earlier \in SUBSET Nat /\ IsFiniteSet(earlier) /\ earlier \subseteq DOMAIN t.conns
  <2>1. DOMAIN conns \in SUBSET Fds
    BY <1>1, WorldHas DEF Tidy, Well
  <2>2. DOMAIN t.conns = DOMAIN conns
    BY <1>6, <1>9 DEF Upright
  <2> QED
    BY <2>1, <2>2, FdsAssumption, FS_Subset DEF earlier
<1>11. Tidy(u) /\ Upright(t, u)
  <2> DEFINE K == {x \in Worlds : Tidy(x) /\ Upright(t, x)}
  <2>1. t \in K
    BY <1>8, <1>9 DEF Well, Upright
  <2>2. \A x \in K : earlier \subseteq DOMAIN x.conns /\ Well(x)
    BY <1>10 DEF Upright, Tidy
  <2>3. ASSUME NEW x \in K, NEW o \in earlier PROVE DropEarlier(x, o) \in K
    <3>1. PICK y : y = DropEarlier(x, o)
      OBVIOUS
    <3>2. o \in DOMAIN x.conns
      BY <2>2
    <3>3. Tidy(y) /\ Upright(x, y)
      BY <3>1, <3>2, DropTidy
    <3> QED
      BY <3>1, <3>3, UprightTwice DEF Tidy, Well
  <2>4. \A x \in K : Tidy(x) /\ Upright(t, x)
    OBVIOUS
  <2> HIDE DEF K
  <2>5. u \in K
    BY <1>3, <1>10, <2>1, <2>2, <2>3, DroppedKeeps
  <2> QED
    BY <2>4, <2>5
<1>12. Tidy(v) /\ Upright(u, v)
  BY <1>3, <1>11, SendTidy
<1>13. Upright(World, v)
  BY <1>5, <1>9, <1>11, <1>12, UprightTwice
<1> QED
  BY <1>1, <1>4, <1>12, <1>13, OrderKeeps

\* The connection the pass is at may be closed while it is in a game: it is
\* cleared at the end of the pass.
LEMMA ClosingOrder ==
  ASSUME LobbyInv, Ordered, NEW fd, Serving(fd), Becomes(CloseSockets(World, {fd})), UNCHANGED loop
  PROVE  Ordered'
<1>1. PICK w, v : w = World /\ v = CloseSockets(w, {fd})
  OBVIOUS
<1>2. /\ phase = "serve" /\ todo # {} /\ fd = Min(todo) /\ fd \in DOMAIN w.conns
      /\ Tidy(w) /\ Opened(w) /\ Stranded /\ w.conns = conns
  BY <1>1 DEF Serving, Ordered, World
<1>3. /\ v \in Worlds
      /\ SameConns(w, v)
      /\ \A x \in DOMAIN w.conns : /\ v.conns[x].game = w.conns[x].game
                                   /\ v.conns[x].up = (w.conns[x].up /\ x \notin {fd})
      /\ v.games = w.games
      /\ \A x \in Fds : v.net[x] = IF x \in {fd} THEN "free" ELSE w.net[x]
  BY <1>1, <1>2, CloseSocketsDoes DEF Tidy, Well
<1>4. Well(v)
  BY <1>1, <1>2, CloseSocketsKeeps DEF Tidy
<1>5. /\ DOMAIN v.conns = DOMAIN w.conns /\ \A x \in DOMAIN w.conns : x \in Fds
      /\ \A x \in DOMAIN w.conns : v.conns[x].user = w.conns[x].user
  BY <1>2, <1>3, WorldHas DEF Tidy, Well, SameConns
<1>6. Agree(v) /\ Shut(v) /\ Opened(v)
  <2>1. Agree(v)
    BY <1>2, <1>3, <1>5 DEF Tidy, Agree
  <2>2. \A x \in DOMAIN w.conns : v.net[x] # "free" => v.net[x] = w.net[x]
    BY <1>3, <1>5
  <2>3. Shut(v)
    BY <1>2, <1>3, <1>5, <2>2 DEF Tidy, Shut
  <2>4. \A x \in DOMAIN w.conns : v.conns[x].up => w.conns[x].up /\ v.net[x] = w.net[x]
    BY <1>3, <1>5
  <2> QED
    BY <1>2, <1>5, <2>1, <2>3, <2>4 DEF Opened
<1>7. Lead(v)
  <2> SUFFICES ASSUME NEW i \in DOMAIN w.games
               PROVE  v.games[i].host = v.conns[Head(w.games[i].players)].user
    BY <1>3 DEF Lead
  <2>1. Head(w.games[i].players) \in DOMAIN w.conns
    BY <1>2, HeadOf DEF Tidy, Agree
  <2> QED
    BY <1>2, <1>3, <1>5, <2>1 DEF Tidy, Lead
<1>8. World' = v /\ conns' = v.conns
  BY <1>1, <1>3, BecomesIs DEF Becomes
<1>9. Stranded'
  BY <1>2, <1>3, <1>5, <1>8 DEF Stranded, loop
<1>10. Tidy(World)' /\ Opened(World)'
  BY <1>4, <1>6, <1>7, <1>8 DEF Tidy
<1> QED
  BY <1>9, <1>10 DEF Ordered

LEMMA RequestsOrder ==
  ASSUME LobbyInv, LobbyInv', Ordered, Mishaps = {}, NEW fd, Requests(fd)
  PROVE  Ordered'
<1>1. Reads(fd)
  BY DEF Requests, Directory, Configuration, Listings, Gsea, Rankings, AnswerOnce, Auth, Pers, Gcre,
         Gjoi, Gqwk, Glea, Gdel, GsetLock, GsetKick, TellAll, Mesg, Plays
<1>2. CASE Directory(fd) \/ Configuration(fd) \/ Listings(fd) \/ Gsea(fd) \/ Rankings(fd)
  <2>1. Answered(fd)
    BY <1>2 DEF Directory, Configuration, Listings, Gsea, Rankings
  <2> QED
    BY <1>1, <2>1, AnsweredOrder
<1>3. CASE AnswerOnce(fd)
  BY <1>1, <1>3, ClosingOrder DEF AnswerOnce, Reads
<1>4. CASE Auth(fd)
  BY <1>1, <1>4, AuthOrder
<1>5. CASE Pers(fd)
  BY <1>1, <1>5, PersOrder
<1>6. CASE Gcre(fd)
  BY <1>1, <1>6, GcreOrder
<1>7. CASE Gjoi(fd)
  BY <1>1, <1>7, GjoiOrder
<1>8. CASE Gqwk(fd)
  BY <1>1, <1>8, GqwkOrder
<1>9. CASE Glea(fd)
  BY <1>1, <1>9, GleaOrder
<1>10. CASE Gdel(fd)
  BY <1>1, <1>10, GdelOrder
<1>11. CASE GsetLock(fd)
  BY <1>1, <1>11, GsetLockOrder
<1>12. CASE GsetKick(fd)
  BY <1>1, <1>12, GsetKickOrder
<1>13. CASE TellAll(fd)
  BY <1>1, <1>13, TellAllOrder
<1>14. CASE Mesg(fd)
  BY <1>1, <1>14, MesgOrder
<1> QED
  BY <1>2, <1>3, <1>4, <1>5, <1>6, <1>7, <1>8, <1>9, <1>10, <1>11, <1>12, <1>13, <1>14 DEF Requests

LEMMA HangupOrder ==
  ASSUME LobbyInv, LobbyInv', Ordered, Mishaps = {}, NEW fd \in Fds, Hangup(fd)
  PROVE  Ordered'
<1>1. net[fd] = "ok" /\ net' = [net EXCEPT ![fd] = "fin"] /\ UNCHANGED <<conns, games, loop>>
  BY DEF Hangup
<1>2. PICK w, v : w = World /\ v = World'
  OBVIOUS
<1>3. /\ w.conns = conns /\ w.games = games /\ w.net = net
      /\ v.conns = conns /\ v.games = games /\ v.net = net'
      /\ Well(w) /\ Well(v)
  BY <1>1, <1>2 DEF LobbyInv, World
<1>4. DOMAIN conns \subseteq Fds /\ net \in [Fds -> Ends]
  BY <1>3, WorldHas DEF Well
<1>5. \A x \in Fds : net'[x] = IF x = fd THEN "fin" ELSE net[x]
  BY <1>1, <1>4
<1>6. ASSUME Tidy(w), Opened(w) PROVE Tidy(v) /\ Opened(v)
  <2>1. Agree(v) /\ Lead(v)
    BY <1>3, <1>6 DEF Tidy, Agree, Lead
  <2>2. Shut(v)
    BY <1>3, <1>4, <1>5, <1>6 DEF Tidy, Shut
  <2>3. Opened(v)
    BY <1>3, <1>4, <1>5, <1>6 DEF Opened
  <2> QED
    BY <1>3, <2>1, <2>2, <2>3 DEF Tidy
<1>7. Stranded => Stranded'
  BY <1>1 DEF Stranded, loop
<1> QED
  BY <1>1, <1>2, <1>6, <1>7 DEF Ordered, loop

\* Accept gives a connection the place of one in no game, if of one at all.
LEMMA AcceptOrder ==
  ASSUME LobbyInv, LobbyInv', Ordered, Accept
  PROVE  Ordered'
<1> DEFINE fresh(role) == [role |-> role, up |-> TRUE, user |-> NoUser, id |-> FALSE, game |-> 0]
<1>1. PICK fd \in Fds, role \in Roles :
        /\ net[fd] = "free"
        /\ net' = [net EXCEPT ![fd] = "ok"] /\ conns' = With(conns, fd, fresh(role))
  BY DEF Accept
<1>2. PICK c, w, v : c = fresh(role) /\ w = World /\ v = World'
  OBVIOUS
<1>3. c.up /\ c.game = 0 /\ conns' = With(conns, fd, c)
  BY <1>1, <1>2
<1> HIDE DEF fresh
<1>4. /\ w.conns = conns /\ w.games = games /\ w.net = net
      /\ v.conns = conns' /\ v.games = games /\ v.net = net'
      /\ Well(w) /\ Well(v)
  BY <1>2 DEF LobbyInv, World, Accept
<1>5. DOMAIN conns \subseteq Fds /\ net \in [Fds -> Ends]
  BY <1>4, WorldHas DEF Well
<1>6. /\ phase = "accept" /\ phase' = "accept"
      /\ Tidy(w) /\ Opened(w) /\ Stranded
  BY <1>2 DEF Accept, loop, Ordered
<1>7. /\ DOMAIN conns' = DOMAIN conns \cup {fd}
      /\ conns'[fd] = c /\ \A x \in DOMAIN conns \ {fd} : conns'[x] = conns[x]
  BY <1>3 DEF With
<1>8. \A x \in Fds : net'[x] = IF x = fd THEN "ok" ELSE net[x]
  BY <1>1, <1>5
<1>9. fd \in DOMAIN conns => conns[fd].game = 0
  <2>1. fd \in DOMAIN conns => ~ conns[fd].up
    BY <1>1, <1>4, <1>6 DEF Opened
  <2> QED
    BY <1>6, <2>1 DEF Stranded
<1>10. \A i \in DOMAIN games : i # 0
  BY <1>4, WorldHas DEF Well
<1>11. Agree(v)
  <2> SUFFICES ASSUME NEW i \in DOMAIN games
               PROVE  /\ ToSet(games[i].players) = {x \in DOMAIN conns' : conns'[x].game = i}
                      /\ IsInjective(games[i].players)
    BY <1>4 DEF Agree
  <2>1. /\ i # 0
        /\ ToSet(games[i].players) = {x \in DOMAIN conns : conns[x].game = i}
        /\ IsInjective(games[i].players)
    BY <1>4, <1>6, <1>10 DEF Tidy, Agree
  <2> QED
    BY <1>3, <1>7, <1>9, <2>1
<1>12. Lead(v)
  <2> SUFFICES ASSUME NEW i \in DOMAIN games
               PROVE  games[i].host = conns'[Head(games[i].players)].user
    BY <1>4 DEF Lead
  <2>1. /\ i # 0
        /\ Head(games[i].players) \in DOMAIN conns
        /\ conns[Head(games[i].players)].game = i
        /\ games[i].host = conns[Head(games[i].players)].user
    BY <1>4, <1>6, <1>10, HeadOf DEF Tidy, Agree, Lead
  <2> QED
    BY <1>7, <1>9, <2>1
<1>13. Shut(v)
  BY <1>3, <1>4, <1>5, <1>6, <1>7, <1>8 DEF Tidy, Shut
<1>14. Opened(v)
  BY <1>4, <1>5, <1>6, <1>7, <1>8 DEF Opened
<1>15. Stranded'
  BY <1>3, <1>6, <1>7 DEF Stranded
<1>16. (Tidy(World) /\ Opened(World))'
  BY <1>2, <1>4, <1>11, <1>12, <1>13, <1>14 DEF Tidy
<1> QED
  BY <1>15, <1>16 DEF Ordered

LEMMA LoopOrder ==
  ASSUME Ordered, UNCHANGED world, EndAccept \/ ServeNext
  PROVE  Ordered'
<1>1. World' = World /\ conns' = conns
  BY DEF world, World
<1>2. Tidy(World) /\ Opened(World) /\ Stranded /\ phase' = "serve"
  BY DEF Ordered, EndAccept, ServeNext
<1>3. (Tidy(World) /\ Opened(World))'
  BY <1>1, <1>2
<1>4. CASE EndAccept
  <2>1. Stranded'
    BY <1>1, <1>2, <1>4 DEF EndAccept, Stranded
  <2> QED
    BY <1>3, <2>1 DEF Ordered
<1>5. CASE ServeNext
  <2>1. ASSUME NEW x \in DOMAIN conns, conns[x].game # 0, ~ conns[x].up PROVE x \in closed'
    BY <1>2, <1>5, <2>1 DEF ServeNext, Stranded
  <2>2. Stranded'
    BY <1>1, <1>2, <2>1 DEF Stranded
  <2> QED
    BY <1>3, <2>2 DEF Ordered
<1> QED
  BY <1>4, <1>5

\* What is cleared leaves its game, found by its descriptor.
LEMMA SweepOrder ==
  ASSUME LobbyInv, LobbyInv', Ordered, Sweep
  PROVE  Ordered'
<1>1. PICK w : w = World
  OBVIOUS
<1>2. /\ w.conns = conns /\ w.games = games /\ w.net = net
      /\ Tidy(w) /\ Opened(w) /\ Stranded
      /\ phase = "serve" /\ phase' = phase /\ todo = {} /\ todo' = todo
  BY <1>1 DEF World, Ordered, Sweep
<1>3. /\ w \in Worlds /\ DOMAIN conns \subseteq Fds /\ conns \in [DOMAIN conns -> Connection]
  BY <1>2, WorldHas DEF Tidy, Well
<1>4. closed # {} /\ closed \in SUBSET Nat
  BY <1>3, FdsAssumption DEF LobbyInv, Sweep
<1>5. PICK fd \in closed : fd = Min(closed)
  BY <1>4, MinOf
<1>6. fd \in DOMAIN conns
  BY DEF LobbyInv
<1>7. PICK c, t, u, cs, v :
        /\ c = [conns[fd] EXCEPT !.up = TRUE] /\ t = PutConn(w, fd, c)
        /\ u = LeaveGame(t, fd) /\ cs = Without(u.conns, fd) /\ v = [u EXCEPT !.conns = cs]
  OBVIOUS
<1>8. closed' = closed \ {fd} /\ Becomes(v)
  <2>1. [World EXCEPT !.conns[fd].up = TRUE] = t
    BY <1>1, <1>2, <1>7 DEF PutConn
  <2>2. Becomes([LeaveGame(t, fd) EXCEPT !.conns = Without(LeaveGame(t, fd).conns, fd)])
    BY <1>5, <2>1 DEF Sweep
  <2> QED
    BY <1>5, <1>7, <2>2 DEF Sweep
<1>9. /\ c \in Connection
      /\ c.id = conns[fd].id /\ c.user = conns[fd].user /\ c.up
      /\ c.game = conns[fd].game
  <2>1. conns[fd] \in Connection
    BY <1>3, <1>6
  <2> QED
    BY <1>7, <2>1 DEF Connection
<1>10. /\ t \in Worlds
       /\ t.games = games /\ t.net = net
       /\ DOMAIN t.conns = DOMAIN conns
       /\ t.conns[fd] = c
       /\ \A x \in DOMAIN conns \ {fd} : t.conns[x] = conns[x]
  <2>1. t = PutConn(w, fd, c) /\ fd \in DOMAIN w.conns /\ c \in Connection
    BY <1>2, <1>6, <1>7, <1>9
  <2> QED
    BY <1>2, <1>3, <2>1, PutConnDoes
<1>11. \A x \in DOMAIN conns : /\ t.conns[x].game = conns[x].game /\ t.conns[x].user = conns[x].user
                             /\ t.conns[x].id = conns[x].id
  BY <1>9, <1>10
<1>12. Well(t)
  BY <1>2, <1>10, <1>11 DEF Tidy, Well, Named, Listed, Played
<1>13. Tidy(t)
  <2>1. Agree(t) /\ Shut(t)
    BY <1>2, <1>10, <1>11 DEF Tidy, Agree, Shut
  <2>2. Lead(t)
    <3> SUFFICES ASSUME NEW i \in DOMAIN games
                 PROVE  games[i].host = t.conns[Head(games[i].players)].user
      BY <1>10 DEF Lead
    <3>1. /\ Head(games[i].players) \in DOMAIN conns
          /\ games[i].host = conns[Head(games[i].players)].user
      BY <1>2, HeadOf DEF Tidy, Agree, Lead
    <3> QED
      BY <1>11, <3>1
  <2> QED
    BY <1>12, <2>1, <2>2 DEF Tidy
<1>14. Tidy(u) /\ Upright(t, u) /\ Left(t, u, fd) /\ u.conns[fd].game = 0
  <2>1. u = LeaveGame(t, fd) /\ fd \in DOMAIN t.conns /\ t.conns[fd].up
    BY <1>6, <1>7, <1>9, <1>10
  <2> QED
    BY <1>13, <2>1, LeaveTidy
<1>15. DOMAIN u.conns = DOMAIN conns
  BY <1>10, <1>14 DEF Upright
<1>16. DOMAIN cs = DOMAIN conns \ {fd} /\ \A x \in DOMAIN conns \ {fd} : cs[x] = u.conns[x]
  BY <1>7, <1>15 DEF Without
<1>17. v = [conns |-> cs, games |-> u.games, net |-> u.net]
  <2>1. u \in Worlds /\ v = [u EXCEPT !.conns = cs]
    BY <1>7, <1>14 DEF Tidy, Well
  <2> QED
    BY <2>1, WorldExcept
<1>18. /\ v.conns = cs /\ v.games = u.games /\ v.net = u.net
       /\ World' = v /\ conns' = cs
  BY <1>8, <1>17 DEF Becomes, World
<1>19. \A i \in DOMAIN u.games : i # 0
  BY <1>14, WorldHas DEF Tidy, Well
<1>20. Agree(v)
  <2> SUFFICES ASSUME NEW i \in DOMAIN u.games
               PROVE  /\ ToSet(u.games[i].players) = {x \in DOMAIN cs : cs[x].game = i}
                      /\ IsInjective(u.games[i].players)
    BY <1>18 DEF Agree
  <2>1. /\ i # 0
        /\ ToSet(u.games[i].players) = {x \in DOMAIN u.conns : u.conns[x].game = i}
        /\ IsInjective(u.games[i].players)
    BY <1>14, <1>19 DEF Tidy, Agree
  <2> QED
    BY <1>14, <1>15, <1>16, <2>1
<1>21. Lead(v)
  <2> SUFFICES ASSUME NEW i \in DOMAIN u.games
               PROVE  u.games[i].host = cs[Head(u.games[i].players)].user
    BY <1>18 DEF Lead
  <2>1. /\ i # 0
        /\ Head(u.games[i].players) \in DOMAIN u.conns
        /\ u.conns[Head(u.games[i].players)].game = i
        /\ u.games[i].host = u.conns[Head(u.games[i].players)].user
    BY <1>14, <1>19, HeadOf DEF Tidy, Agree, Lead
  <2> QED
    BY <1>14, <1>15, <1>16, <2>1
<1>22. Shut(v)
  BY <1>14, <1>15, <1>16, <1>18 DEF Tidy, Shut
<1>23. ASSUME NEW x \in DOMAIN cs
       PROVE  /\ x \in DOMAIN conns
              /\ cs[x].up /\ u.net[x] = "free" => conns[x].up /\ net[x] = "free"
              /\ cs[x].game # 0 /\ ~ cs[x].up => conns[x].game # 0 /\ ~ conns[x].up /\ x # fd
  <2>1. x \in DOMAIN conns \ {fd} /\ cs[x] = u.conns[x] /\ t.conns[x] = conns[x] /\ t.net = net
    BY <1>10, <1>16
  <2> QED
    BY <1>10, <1>14, <2>1 DEF Upright
<1>24. Opened(v)
  BY <1>2, <1>18, <1>23 DEF Opened
<1>25. Stranded'
  BY <1>2, <1>8, <1>18, <1>23 DEF Stranded
<1>26. (Tidy(World) /\ Opened(World))'
  <2>1. Well(v)
    BY <1>18 DEF LobbyInv
  <2> QED
    BY <1>18, <1>20, <1>21, <1>22, <1>24, <2>1 DEF Tidy
<1> QED
  BY <1>25, <1>26 DEF Ordered

LEMMA PingOrder ==
  ASSUME LobbyInv, LobbyInv', Ordered, Ping
  PROVE  Ordered'
<1>1. PICK quiet : Becomes(Send(World, quiet))
  BY DEF Ping
<1>2. PICK w, v : w = World /\ v = Send(w, quiet)
  OBVIOUS
<1>3. Tidy(w) /\ Opened(w) /\ Stranded /\ w.conns = conns /\ closed = {} /\ todo = {}
  BY <1>2 DEF Ordered, Ping, World
<1>4. Tidy(v) /\ Upright(w, v)
  BY <1>2, <1>3, SendTidy
<1>5. World' = v /\ conns' = v.conns
  BY <1>1, <1>2, <1>4, BecomesIs DEF Tidy, Well, Becomes
<1>6. Opened(v)
  BY <1>3, <1>4 DEF Opened, Upright
<1>7. Stranded'
  BY <1>3, <1>4, <1>5 DEF Stranded, Upright
<1>8. (Tidy(World) /\ Opened(World))'
  BY <1>4, <1>5, <1>6
<1> QED
  BY <1>7, <1>8 DEF Ordered

-----------------------------------------------------------------------------
(* The theorems *)

LEMMA OrderedFirst == Init => Ordered
<1> SUFFICES ASSUME Init PROVE Ordered
  OBVIOUS
<1>1. DOMAIN conns = {} /\ DOMAIN games = {}
  BY DEF Init
<1>2. Well(World)
  BY Initially DEF LobbyInv
<1>3. Tidy(World) /\ Opened(World) /\ Stranded
  BY <1>1, <1>2 DEF Tidy, Agree, Lead, Shut, Opened, Stranded, World
<1> QED
  BY <1>3 DEF Ordered

LEMMA OrderedNext ==
  ASSUME Mishaps = {}
  PROVE  LobbyInv /\ LobbyInv' /\ Ordered /\ [Next]_vars => Ordered'
<1> SUFFICES ASSUME LobbyInv, LobbyInv', Ordered, [Next]_vars PROVE Ordered'
  OBVIOUS
<1>1. ASSUME NEW fd \in Fds, Hangup(fd) PROVE Ordered'
  BY <1>1, HangupOrder
<1>2. ASSUME NEW fd \in Fds, ReceiveEnd(fd) PROVE Ordered'
  BY <1>2, ClosingOrder DEF ReceiveEnd
<1>3. ASSUME NEW fd \in Fds, Requests(fd) PROVE Ordered'
  BY <1>3, RequestsOrder
<1>4. CASE Accept
  BY <1>4, AcceptOrder
<1>5. CASE EndAccept
  BY <1>5, LoopOrder DEF EndAccept
<1>6. CASE ServeNext
  BY <1>6, LoopOrder DEF ServeNext
<1>7. CASE Sweep
  BY <1>7, SweepOrder
<1>8. CASE Ping
  BY <1>8, PingOrder
<1>9. CASE Stop
  BY <1>9 DEF Stop, Ordered
<1>10. CASE UNCHANGED vars
  <2>1. World' = World /\ (Stranded => Stranded') /\ phase' = phase
    BY <1>10 DEF vars, world, loop, World, Stranded
  <2>2. Tidy(World) /\ Opened(World) => (Tidy(World) /\ Opened(World))'
    BY <2>1
  <2> QED
    BY <2>1, <2>2 DEF Ordered
<1> QED
  BY <1>1, <1>2, <1>3, <1>4, <1>5, <1>6, <1>7, <1>8, <1>9, <1>10 DEF Next

\* Where clients go in order and nobody is kicked who has just gone: between
\* any two requests, the players of every game are those connections that say
\* they are in it, nobody twice.
THEOREM GamesAndConnectionsAgree ==
  ASSUME Mishaps = {}
  PROVE  Spec => []MembersAgree
<1>1. Ordered => MembersAgree
  BY DEF Ordered, Tidy, Well, Listed, Agree, World, MembersAgree, Players
<1>2. LobbyInv /\ Ordered /\ [Next]_vars => (LobbyInv /\ Ordered)'
  BY Inductive, OrderedNext
<1> QED
  BY <1>1, <1>2, Initially, OrderedFirst, PTL DEF Spec

\* Where clients go in order and nobody is kicked who has just gone: the
\* host by name, whom gdel asks for, is the first player, whom gset asks for,
\* through all the ways a host leaves.
THEOREM TheHostLeads ==
  ASSUME Mishaps = {}
  PROVE  Spec => []HostLeads
<1>1. Ordered => HostLeads
  BY DEF Ordered, Tidy, Lead, World, HostLeads
<1>2. LobbyInv /\ Ordered /\ [Next]_vars => (LobbyInv /\ Ordered)'
  BY Inductive, OrderedNext
<1> QED
  BY <1>1, <1>2, Initially, OrderedFirst, PTL DEF Spec
=============================================================================
