---------------------------- MODULE LobbyServer ----------------------------
(***************************************************************************)
(* ealobby::Server (src/rexglue/src/ealobby/server.cpp), one server without *)
(* links to others: the poll loop that serves every client on one thread,  *)
(* the login, and the games.                                               *)
(*                                                                         *)
(* connections_ is keyed by file descriptor and a game's players are file  *)
(* descriptors, so the descriptors and what the operating system does with *)
(* them are explicit: net is its socket table. A send to a peer that reset *)
(* the connection fails, and Flush closes the socket while the connection  *)
(* is still in connections_ and in its game; the loop clears it later. In  *)
(* between the descriptor's number is free to be accepted again.           *)
(*                                                                         *)
(* What a message says is left out but for what decides who is in which    *)
(* game. Each handler is a function of the world (connections, games,      *)
(* sockets), composed in the order the code makes its calls.               *)
(***************************************************************************)
EXTENDS PlayerLists, FiniteSets

CONSTANTS
  Fds,        \* the descriptors a connection may get, in the order they are
  Roles,      \* the listeners clients use: "directory", "lobby", "http"
  Personas,   \* the names clients log in as, each with an XUID of its own
  NoUser,     \* the empty name, before the login
  Sizes,      \* the values of a game's MAXSIZE
  MaxGames,   \* bound: the games created
  MaxConns,   \* bound: the connections accepted
  Mishaps     \* what may happen: "reset", that a client is gone before the server
              \* has read so, and sends to it fail; "late kick", that a player is
              \* kicked in the pass that has just read that it hung up

ASSUME FdsAssumption == Fds \subseteq Nat \ {0} /\ IsFiniteSet(Fds)
ASSUME RolesAssumption == Roles \subseteq {"directory", "lobby", "http"}
ASSUME PersonasAssumption == NoUser \notin Personas
ASSUME SizesAssumption == Sizes \subseteq Nat
ASSUME MishapsAssumption == Mishaps \subseteq {"reset", "late kick"}
ASSUME BoundsAssumption == MaxGames \in Nat /\ MaxConns \in Nat

VARIABLES
  conns,     \* connections_, by descriptor; up is fd >= 0, id is id != 0
  games,     \* games_, by IDENT
  nextGame,  \* next_game_
  net,       \* the sockets: free, or how the peer's end is
  phase,     \* where Run is: "accept", "serve", or "stopped"
  todo,      \* the polled descriptors the pass has still to serve
  closed,    \* `closed`: those to be cleared at the end of it
  accepted   \* history: the number of connections accepted

\* What is kept of a Connection and of a Game, and how a peer's end of a socket is.
Connection == [role : Roles, up : BOOLEAN, user : Personas \cup {NoUser}, id : BOOLEAN, game : 0 .. MaxGames]
Game == [host : Personas \cup {NoUser}, players : Seq(Fds), maxsize : Sizes, locked : BOOLEAN]
Ends == {"free", "ok", "fin", "reset"}

world == <<conns, games, net>>
loop == <<phase, todo, closed>>
vars == <<world, loop, nextGame, accepted>>

Init ==
  /\ conns = <<>> /\ games = <<>> /\ nextGame = 1
  /\ net = [fd \in Fds |-> "free"]
  /\ phase = "accept" /\ todo = {} /\ closed = {}
  /\ accepted = 0

World == [conns |-> conns, games |-> games, net |-> net]
Becomes(w) == conns' = w.conns /\ games' = w.games /\ net' = w.net

-----------------------------------------------------------------------------
(* What the handlers are made of *)

\* Closed sockets: their connections keep their entries, with fd -1.
CloseSockets(w, fds) ==
  [w EXCEPT !.conns = [fd \in DOMAIN w.conns |-> IF fd \in fds THEN [w.conns[fd] EXCEPT !.up = FALSE]
                                                               ELSE w.conns[fd]],
            !.net = [fd \in Fds |-> IF fd \in fds THEN "free" ELSE w.net[fd]]]

\* Send and Flush to each connection of fds: it fails where the peer is gone.
Send(w, fds) ==
  CloseSockets(w, {fd \in fds \cap DOMAIN w.conns : w.conns[fd].up /\ w.net[fd] = "reset"})

\* SendGameToPlayers.
SendGame(w, id) == Send(w, ToSet(w.games[id].players))

\* connection.fd.
Handle(w, fd) == IF w.conns[fd].up THEN fd ELSE 0

\* Mutant of LeaveGame: the next player does not become the host.
LeaveGame_HostStays(w, fd) ==
  LET c == w.conns[fd]
      out == [w EXCEPT !.conns[fd].game = 0]
      g == w.games[c.game]
      rest == Only(g.players, ToSet(g.players) \ {Handle(w, fd)})
  IN IF c.game \notin DOMAIN w.games THEN out
     ELSE IF rest = <<>> THEN [out EXCEPT !.games = Without(@, c.game)]
     ELSE SendGame([out EXCEPT !.games[c.game].players = rest], c.game)

LeaveGame(w, fd) ==
  LET c == w.conns[fd]
      out == [w EXCEPT !.conns[fd].game = 0]
      g == w.games[c.game]
      rest == Only(g.players, ToSet(g.players) \ {Handle(w, fd)})
      next == Head(rest)
      host == IF g.host = c.user /\ next \in DOMAIN w.conns THEN w.conns[next].user ELSE g.host
  IN IF c.game \notin DOMAIN w.games THEN out
     ELSE IF rest = <<>> THEN [out EXCEPT !.games = Without(@, c.game)]
     ELSE SendGame([out EXCEPT !.games[c.game] = [g EXCEPT !.players = rest, !.host = host]], c.game)

\* Mutant of TakeSeat: the game the player was in is not left.
TakeSeat_Stays(w, fd, id) ==
  [w EXCEPT !.games[id].players = Append(@, fd), !.conns[fd].game = id]

\* What gjoi and gqwk do with the game they found.
TakeSeat(w, fd, id) ==
  [LeaveGame(w, fd) EXCEPT !.games[id].players = Append(@, fd), !.conns[fd].game = id]

\* Mutant of Dismiss: the others are told, but not taken out.
Dismiss_Tells(w, fds) == Send(w, fds)

\* The others of a deleted game, told that they are in none.
Dismiss(w, fds) ==
  Send([w EXCEPT !.conns = [fd \in DOMAIN w.conns |-> IF fd \in fds THEN [w.conns[fd] EXCEPT !.game = 0]
                                                                    ELSE w.conns[fd]]],
       fds)

\* Mutant of DropEarlier: the earlier connection is not shut.
DropEarlier_StaysOpen(w, fd) ==
  IF w.conns[fd].up THEN LeaveGame(w, fd) ELSE w

\* The same player's earlier connection, taken out of its game and shut.
DropEarlier(w, fd) ==
  IF w.conns[fd].up THEN [LeaveGame(w, fd) EXCEPT !.net[fd] = "reset"] ELSE w

-----------------------------------------------------------------------------
(* The clients, and the operating system *)

\* A client goes: in order (the server reads the end, sends still succeed), or not.
Hangup(fd) ==
  /\ net[fd] = "ok"
  /\ \E how \in {"fin"} \cup (IF "reset" \in Mishaps THEN {"reset"} ELSE {}) :
       net' = [net EXCEPT ![fd] = how]
  /\ UNCHANGED <<conns, games, loop, nextGame, accepted>>

-----------------------------------------------------------------------------
(* Run *)

\* Accept: the lowest descriptor that is free, whatever connections_ has there.
Accept ==
  /\ phase = "accept"
  /\ accepted < MaxConns
  /\ accepted' = accepted + 1
  /\ \E fd \in Fds, role \in Roles :
       /\ net[fd] = "free" /\ \A lower \in Fds : lower < fd => net[lower] # "free"
       /\ net' = [net EXCEPT ![fd] = "ok"]
       /\ conns' = With(conns, fd, [role |-> role, up |-> TRUE, user |-> NoUser, id |-> FALSE, game |-> 0])
  /\ UNCHANGED <<games, loop, nextGame>>

EndAccept ==
  /\ phase = "accept"
  /\ phase' = "serve"
  /\ UNCHANGED <<world, todo, closed, nextGame, accepted>>

\* The connection the pass over fds is at.
Serving(fd) == phase = "serve" /\ todo # {} /\ fd = Min(todo) /\ fd \in DOMAIN conns

\* Receive finds that the peer has gone.
ReceiveEnd(fd) ==
  /\ Serving(fd) /\ conns[fd].up
  /\ net[fd] \in {"fin", "reset"}
  /\ Becomes(CloseSockets(World, {fd}))
  /\ UNCHANGED <<loop, nextGame, accepted>>

\* Mutant of ServeNext: what is closed is not noted.
ServeNext_Forgets ==
  /\ phase = "serve" /\ todo # {}
  /\ todo' = todo \ {Min(todo)}
  /\ UNCHANGED <<world, phase, closed, nextGame, accepted>>

\* Nothing (more) to read there: what is closed is cleared after the pass.
ServeNext ==
  /\ phase = "serve" /\ todo # {}
  /\ LET fd == Min(todo) IN
       /\ todo' = todo \ {fd}
       /\ closed' = IF fd \in DOMAIN conns /\ ~conns[fd].up THEN closed \cup {fd} ELSE closed
  /\ UNCHANGED <<world, phase, nextGame, accepted>>

\* The end of the pass: LeaveGame with the descriptor put back, then the entry goes.
Sweep ==
  /\ phase = "serve" /\ todo = {} /\ closed # {}
  /\ LET fd == Min(closed)
         restored == [World EXCEPT !.conns[fd].up = TRUE]
         out == LeaveGame(restored, fd)
     IN /\ closed' = closed \ {fd}
        /\ Becomes([out EXCEPT !.conns = Without(@, fd)])
  /\ UNCHANGED <<phase, todo, nextGame, accepted>>

\* The keepalive to those that were sent nothing for 20 s, and the next poll.
Ping ==
  /\ phase = "serve" /\ todo = {} /\ closed = {}
  /\ \E quiet \in SUBSET {fd \in DOMAIN conns : conns[fd].role = "lobby" /\ conns[fd].id} :
       Becomes(Send(World, quiet))
  /\ phase' = "accept"
  /\ todo' = DOMAIN conns
  /\ UNCHANGED <<closed, nextGame, accepted>>

\* Stop, called at any time, is seen at the top of the loop: the thread is
\* joined and every connection closed.
Stop ==
  /\ phase = "accept"
  /\ phase' = "stopped"
  /\ conns' = <<>>
  /\ net' = [fd \in Fds |-> "free"]
  /\ UNCHANGED <<games, todo, closed, nextGame, accepted>>

-----------------------------------------------------------------------------
(* The requests *)

\* There is a request from fd to handle.
Reads(fd) == Serving(fd) /\ conns[fd].up /\ net[fd] = "ok"
\* The title sends what is about games only once it has logged in.
Plays(fd) == Reads(fd) /\ conns[fd].id

\* The world as a handler finds it: the client may go after its request is read.
Answering(fd) == {World} \cup (IF "reset" \in Mishaps THEN {[World EXCEPT !.net[fd] = "reset"]} ELSE {})

\* An answer and nothing else; so are the requests below where they find no game.
Answered(fd) ==
  /\ \E w \in Answering(fd) : Becomes(Send(w, {fd}))
  /\ UNCHANGED <<loop, nextGame, accepted>>

\* @dir.
Directory(fd) == Reads(fd) /\ conns[fd].role = "directory" /\ Answered(fd)
\* addr, skey, news and sele.
Configuration(fd) == Reads(fd) /\ conns[fd].role = "lobby" /\ Answered(fd)
\* cate, onln and user.
Listings(fd) == Reads(fd) /\ conns[fd].role = "lobby" /\ Answered(fd)
\* gsea: the games that fit, one message each.
Gsea(fd) == Plays(fd) /\ Answered(fd)
\* sviw, sdta and snap, and what is not handled yet.
Rankings(fd) == Plays(fd) /\ Answered(fd)

\* The Locker's and the news' one request, closed once answered.
AnswerOnce(fd) ==
  /\ Reads(fd) /\ conns[fd].role = "http"
  /\ Becomes(CloseSockets(World, {fd}))
  /\ UNCHANGED <<loop, nextGame, accepted>>

Auth(fd) ==
  /\ Reads(fd) /\ conns[fd].role = "lobby" /\ conns[fd].user = NoUser
  /\ \E w \in Answering(fd), p \in Personas :
       Becomes(Send([w EXCEPT !.conns[fd].user = p], {fd}))
  /\ UNCHANGED <<loop, nextGame, accepted>>

Pers(fd) ==
  /\ Reads(fd) /\ conns[fd].user # NoUser
  /\ \E w \in Answering(fd) :
       LET answered == [Send(w, {fd}) EXCEPT !.conns[fd].id = TRUE]
           earlier == {o \in DOMAIN conns \ {fd} : conns[o].user = conns[fd].user}
           alone == MapThenFoldSet(LAMBDA o, v : DropEarlier(v, o), answered, LAMBDA o : o, Max, earlier)
       IN Becomes(Send(alone, {fd}))
  /\ UNCHANGED <<loop, nextGame, accepted>>

Gcre(fd) ==
  /\ Plays(fd)
  /\ nextGame <= MaxGames
  /\ nextGame' = nextGame + 1
  /\ \E w \in Answering(fd), m \in Sizes :
       LET game == [host |-> conns[fd].user, players |-> <<fd>>, maxsize |-> m, locked |-> FALSE]
           made == [LeaveGame(w, fd) EXCEPT !.games = With(@, nextGame, game), !.conns[fd].game = nextGame]
       IN Becomes(Send(made, {fd}))
  /\ UNCHANGED <<loop, accepted>>

Gjoi(fd) ==
  /\ Plays(fd)
  /\ \E w \in Answering(fd), id \in DOMAIN games :
       LET in == conns[fd].game = id
           joined == IF in THEN w ELSE TakeSeat(w, fd, id)
       IN Becomes(IF games[id].locked /\ ~in THEN Send(w, {fd}) ELSE SendGame(Send(joined, {fd}), id))
  /\ UNCHANGED <<loop, nextGame, accepted>>

\* Mutant of Open: a locked game is one of them.
Open_Locked(fd) ==
  {id \in DOMAIN games : id # conns[fd].game /\ Len(games[id].players) < games[id].maxsize}

\* The games a quick match of fd may be sent to.
Open(fd) ==
  {id \in DOMAIN games : /\ id # conns[fd].game
                         /\ ~games[id].locked
                         /\ Len(games[id].players) < games[id].maxsize}

Gqwk(fd) ==
  /\ Plays(fd)
  /\ \E w \in Answering(fd) :
       Becomes(IF Open(fd) = {} THEN Send(w, {fd})
               ELSE LET id == Min(Open(fd)) IN SendGame(Send(TakeSeat(w, fd, id), {fd}), id))
  /\ UNCHANGED <<loop, nextGame, accepted>>

Glea(fd) ==
  /\ Plays(fd)
  /\ \E w \in Answering(fd) : Becomes(Send(LeaveGame(Send(w, {fd}), fd), {fd}))
  /\ UNCHANGED <<loop, nextGame, accepted>>

\* The host's; anybody else's is taken as glea.
Gdel(fd) ==
  LET id == conns[fd].game IN
  /\ Plays(fd)
  /\ id \in DOMAIN games /\ games[id].host = conns[fd].user
  /\ \E w \in Answering(fd) :
       LET answered == Send(w, {fd})
           others == (ToSet(games[id].players) \cap DOMAIN conns) \ {fd}
           last == [Dismiss(answered, others) EXCEPT !.games[id].players = <<Handle(answered, fd)>>]
       IN Becomes(Send(LeaveGame(last, fd), {fd}))
  /\ UNCHANGED <<loop, nextGame, accepted>>

\* fd is in a game, and hosts it as gset sees it.
Hosts(fd) == conns[fd].game \in DOMAIN games /\ Head(games[conns[fd].game].players) = fd

\* gset by the host: LockGame, the start of a race, or the end of it.
GsetLock(fd) ==
  /\ Plays(fd) /\ Hosts(fd)
  /\ \E w \in Answering(fd), l \in BOOLEAN :
       LET id == conns[fd].game IN
       Becomes(SendGame(Send([w EXCEPT !.games[id].locked = l], {fd}), id))
  /\ UNCHANGED <<loop, nextGame, accepted>>

GsetKick(fd) ==
  /\ Plays(fd) /\ Hosts(fd)
  /\ \E w \in Answering(fd), kick \in Personas :
       LET players == games[conns[fd].game].players
           at == SelectInSeq(players, LAMBDA p : p \in DOMAIN conns \ {fd} /\ conns[p].user = kick)
           target == players[at]
           kicked == Send(LeaveGame(Send(w, {target}), target), {target})
       IN /\ at # 0 /\ "late kick" \notin Mishaps => conns[target].up
          /\ Becomes(Send(IF at = 0 THEN w ELSE kicked, {fd}))
  /\ UNCHANGED <<loop, nextGame, accepted>>

\* gset by another player, and gsta: an answer, then a push to every player.
TellAll(fd) ==
  /\ Plays(fd) /\ conns[fd].game \in DOMAIN games
  /\ \E w \in Answering(fd) : Becomes(SendGame(Send(w, {fd}), conns[fd].game))
  /\ UNCHANGED <<loop, nextGame, accepted>>

\* mesg: to the other players, or to those of one name.
Mesg(fd) ==
  /\ Plays(fd) /\ conns[fd].game \in DOMAIN games
  /\ LET others == (ToSet(games[conns[fd].game].players) \cap DOMAIN conns) \ {fd} IN
     \E w \in Answering(fd), names \in {Personas} \cup {{p} : p \in Personas} :
       Becomes(Send(Send(w, {fd}), {o \in others : conns[o].user \in names}))
  /\ UNCHANGED <<loop, nextGame, accepted>>

-----------------------------------------------------------------------------
Requests(fd) ==
  \/ Directory(fd) \/ Configuration(fd) \/ Listings(fd) \/ Gsea(fd) \/ Rankings(fd)
  \/ AnswerOnce(fd) \/ Auth(fd) \/ Pers(fd)
  \/ Gcre(fd) \/ Gjoi(fd) \/ Gqwk(fd) \/ Glea(fd) \/ Gdel(fd)
  \/ GsetLock(fd) \/ GsetKick(fd) \/ TellAll(fd) \/ Mesg(fd)

Next ==
  \/ \E fd \in Fds : Hangup(fd) \/ ReceiveEnd(fd) \/ Requests(fd)
  \/ Accept \/ EndAccept \/ ServeNext \/ Sweep \/ Ping
  \/ Stop

Spec == Init /\ [][Next]_vars

\* The server's thread runs; poll reports what has hung up until it is read.
Fairness ==
  /\ WF_vars(EndAccept) /\ WF_vars(ServeNext) /\ WF_vars(Sweep)
  /\ WF_vars(Ping)
  /\ \A fd \in Fds : SF_vars(ReceiveEnd(fd))

FairSpec == Spec /\ Fairness
-----------------------------------------------------------------------------
(* What the server keeps *)

\* Every variable has its type, and a game that is listed has a player. A host
\* has no name when its descriptor was accepted again before the host it follows left.
TypeOK ==
  /\ DOMAIN conns \subseteq Fds /\ conns \in [DOMAIN conns -> Connection]
  /\ nextGame \in 1 .. MaxGames + 1
  /\ DOMAIN games \subseteq 1 .. nextGame - 1 /\ games \in [DOMAIN games -> Game]
  /\ \A id \in DOMAIN games : games[id].players # <<>>
  /\ net \in [Fds -> Ends]
  /\ phase \in {"accept", "serve", "stopped"}
  /\ todo \subseteq Fds /\ closed \subseteq Fds
  /\ accepted \in 0 .. MaxConns

Players(id) == ToSet(games[id].players)

\* Without mishaps: what a connection says of the game it is in
\* (Connection::game, '+who' G) and the games' lists of players agree, with
\* nobody in a list twice, between any two requests, through joins from one game
\* to another, deletions, kicks, second logins and hang-ups.
MembersAgree == phase # "stopped" =>
  /\ \A fd \in DOMAIN conns : conns[fd].game # 0 => conns[fd].game \in DOMAIN games
  /\ \A id \in DOMAIN games :
       /\ Players(id) = {fd \in DOMAIN conns : conns[fd].game = id}
       /\ IsInjective(games[id].players)

\* Without mishaps: the host by name, whom gdel asks for, is the first
\* of the players, whom gset asks for ("the host first").
HostLeads ==
  phase # "stopped" => \A id \in DOMAIN games : games[id].host = conns[Head(games[id].players)].user

\* Whatever the mishaps: a connection that says it is in a game is among its
\* players, so the client, told so by '+who', also gets the game's records.
GamesListMembers ==
  \A fd \in DOMAIN conns : conns[fd].game # 0 =>
    conns[fd].game \in DOMAIN games /\ fd \in Players(conns[fd].game)

\* Whatever the mishaps: of a player's connections only the last one to log in
\* is not shut.
OneLivePersona ==
  \A a, b \in {fd \in DOMAIN conns : conns[fd].id /\ net[fd] \in {"ok", "fin"} /\ conns[fd].up} :
    conns[a].user = conns[b].user => a = b

\* A locked game is not joined, by gjoi or by gqwk.
LockedGameClosed ==
  [][\A id \in DOMAIN games \cap DOMAIN games' :
       games[id].locked => ToSet(games'[id].players) \subseteq Players(id)]_vars

\* A connection whose peer has gone is taken out of connections_, or its
\* descriptor is another's by then.
HangupsAreSwept ==
  \A fd \in Fds :
    net[fd] \in {"fin", "reset"} ~> (fd \notin DOMAIN conns \/ net[fd] = "ok")

\* Who left a game, or was kicked, is not in its list of players any more -
\* which the code does not keep when LeaveGame is called with the descriptor
\* gone already: of a player whose hang-up was read in the same pass, or whose
\* answer to glea failed.
LeaversLeave ==
  \A id \in DOMAIN games : \A fd \in Players(id) \cap DOMAIN conns :
    conns[fd].user # NoUser => conns[fd].game = id

\* A connection that was just accepted is in no game's list of players - which
\* the code does not keep when Flush closed the descriptor of a player and it
\* is accepted again before the loop clears it.
NewcomersInNoGame ==
  \A id \in DOMAIN games : \A fd \in Players(id) \cap DOMAIN conns :
    conns[fd].user # NoUser
=============================================================================
