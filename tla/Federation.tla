----------------------------- MODULE Federation -----------------------------
(***************************************************************************)
(* Seamless multiplayer of ealobby::Server (src/rexglue/src/ealobby/       *)
(* server.cpp): several servers, each with clients of its own. A server    *)
(* announces its games; a client that joins another server's game stays    *)
(* with its own, which opens a link to the game's host, asks it to take    *)
(* the client as a player (xjoi) and carries what the client sends for the *)
(* game (xfwd); the host sends what it has for the player back the same    *)
(* way, and its own server gives that to the client.                       *)
(*                                                                         *)
(* One server's descriptors, logins and failing clients are LobbyServer's; *)
(* here a client is a connection until it hangs up. A link is a pair of    *)
(* streams, both in order; one that breaks loses what is on its way, and   *)
(* each end finds out in its own time. The hello (xhlo) that a link begins *)
(* with is left out. A message is known by the request it carries, and an  *)
(* answer by the game record in it, if there is one.                       *)
(***************************************************************************)
EXTENDS Integers, FiniteSets, PlayerLists

CONSTANTS
  Servers,
  Clients,
  At,           \* the server of each client
  Id,           \* its id there: next_user_, of each server its own
  Hosts,        \* those who create games
  MaxSize,      \* the MAXSIZE of a game
  Breaks,       \* whether links break and servers cannot be reached
  MaxGames,     \* bound: games created
  MaxLinks,     \* bound: links opened
  MaxEvents     \* bound: requests and hangups of clients, and breaks of links

\* The ids of clients, by which a server knows who came through a link.
Ids == {Id[c] : c \in Clients}

ASSUME ClientsAssumption ==
  At \in [Clients -> Servers] /\ Id \in [Clients -> Nat \ {0}] /\ IsFiniteSet(Clients)
ASSUME IdsAssumption == \A c, d \in Clients : At[c] = At[d] /\ Id[c] = Id[d] => c = d
ASSUME NamesAssumption == \A l \in 1 .. MaxLinks, i \in Ids : <<l, i>> \notin Clients
ASSUME BoundsAssumption ==
  Hosts \subseteq Clients /\ MaxSize \in Nat /\ {MaxGames, MaxLinks, MaxEvents} \subseteq Nat

VARIABLES
  conns,     \* connections_: clients, and <<link, id>> of those who came by a link
  games,     \* games_ of all servers: [server, host, players, locked]
  nextGame,  \* next_game_
  known,     \* remote_games_ of each server: where a game is, and whether it was open
  links,     \* the links: who opened it to whom, how its ends are, whether it broke
  wire,      \* what is on its way on each, to the host (out) and back
  held,      \* held_games_ of all servers, in the order they were joined
  told,      \* the game record each client was last sent
  owed,      \* history: what each client's server passed on and has no answer for
  events     \* history: the number of these so far

world == <<conns, games, links, wire, held, told, owed>>
vars == <<world, nextGame, known, events>>

\* A record says who is in a game; +mgm with IDENT 0, that the game is none; and
\* some answers have none.
Nowhere == [game |-> 0, host |-> "", players |-> <<>>]
NoRecord == [game |-> -1, host |-> "", players |-> <<>>]

Init ==
  /\ conns = [c \in Clients |-> [user |-> c, game |-> 0, remote |-> 0]]
  /\ games = <<>> /\ nextGame = 1
  /\ known = [s \in Servers |-> <<>>]
  /\ links = <<>> /\ wire = <<>>
  /\ held = <<>>
  /\ told = [c \in Clients |-> Nowhere]
  /\ owed = [c \in Clients |-> {}]
  /\ events = 0

World == [conns |-> conns, games |-> games, links |-> links, wire |-> wire,
          held |-> held, told |-> told, owed |-> owed]
Becomes(w) ==
  /\ conns' = w.conns /\ games' = w.games /\ links' = w.links /\ wire' = w.wire
  /\ held' = w.held /\ told' = w.told /\ owed' = w.owed

ServerOf(w, m) == IF m \in Clients THEN At[m] ELSE w.links[m[1]].to
IdOf(m) == IF m \in Clients THEN Id[m] ELSE m[2]

\* What a request is answered as.
Answers(req) ==
  IF req.kind \in {"gjoi", "gqwk"} THEN "join" ELSE IF req.kind \in {"glea", "gdel"} THEN "leave" ELSE "play"

-----------------------------------------------------------------------------
(* What the handlers are made of *)

\* A message on a link that is up at both ends, else lost.
Put(w, l, way, message) ==
  IF w.links[l].broken THEN w ELSE [w EXCEPT !.wire[l][way] = Append(@, message)]

\* A client is sent an answer or, of its own accord, a record.
Deliver(w, c, answers, record) ==
  [w EXCEPT !.told[c] = IF record = NoRecord THEN @ ELSE record, !.owed[c] = @ \ {answers}]

Send(w, m, answers, record) ==
  IF m \in Clients THEN Deliver(w, m, answers, record)
  ELSE Put(w, m[1], "back", [id |-> m[2], answers |-> answers, record |-> record])

\* Mutant of GameRecord: the players as the game lists them, present or not.
GameRecord_Seats(w, g) == [game |-> g, host |-> w.games[g].host, players |-> w.games[g].players]

GameRecord(w, g) ==
  LET present == Only(w.games[g].players, DOMAIN w.conns)
  IN [game |-> g, host |-> w.games[g].host, players |-> [i \in DOMAIN present |-> w.conns[present[i]].user]]

\* SendGameToPlayers.
SendGame(w, g) ==
  FoldLeft(LAMBDA v, m : IF m \in DOMAIN v.conns THEN Send(v, m, "push", GameRecord(v, g)) ELSE v,
           w, w.games[g].players)

\* Mutant of SendGameAfterRemoteJoin: only the joiner is sent the game.
SendGameAfterRemoteJoin_NotHeld(w, g, m) ==
  IF m \in Clients THEN SendGame(w, g) ELSE Send(w, m, "push", GameRecord(w, g))

\* The others learn of a remote joiner a little later.
SendGameAfterRemoteJoin(w, g, m) ==
  IF m \in Clients THEN SendGame(w, g)
  ELSE [Send(w, m, "push", GameRecord(w, g)) EXCEPT !.held = Append(@, g)]

LeaveGame(w, m) ==
  LET g == w.conns[m].game
      out == [w EXCEPT !.conns[m].game = 0]
      rest == Only(w.games[g].players, ToSet(w.games[g].players) \ {m})
      host == IF w.games[g].host = w.conns[m].user /\ Head(rest) \in DOMAIN w.conns
              THEN w.conns[Head(rest)].user ELSE w.games[g].host
  IN IF g \notin DOMAIN w.games THEN out
     ELSE IF rest = <<>> THEN [out EXCEPT !.games = Without(@, g)]
     ELSE SendGame([out EXCEPT !.games[g].players = rest, !.games[g].host = host], g)

\* Mutant of RemovePlayer: the connection goes, its place in the game stays.
RemovePlayer_Seated(w, m) == [w EXCEPT !.conns = Without(@, m)]

\* A remote player goes: out of its game, and its connection with it.
RemovePlayer(w, m) ==
  IF m \in DOMAIN w.conns THEN [LeaveGame(w, m) EXCEPT !.conns = Without(@, m)] ELSE w

-----------------------------------------------------------------------------
(* The client's end of a link *)

\* What a client's server passed on for it, and not for a player who came by a link.
Owes(w, m, answers) == IF m \in Clients THEN [w EXCEPT !.owed[m] = answers] ELSE w

ForwardToHost(w, m, req) ==
  Owes(Put(w, w.conns[m].remote, "out", [kind |-> "xfwd", id |-> IdOf(m), user |-> w.conns[m].user, req |-> req]),
       m, w.owed[m] \cup {Answers(req)})

\* Mutant of DropRemote: the host is not told.
DropRemote_Silent(w, m) ==
  Owes([w EXCEPT !.conns[m].remote = 0], m, {})

\* The host is told (xlea); what it still answers is not waited for.
DropRemote(w, m) ==
  LET l == w.conns[m].remote
      left == IF l = 0 THEN w
              ELSE Put(w, l, "out", [kind |-> "xlea", id |-> IdOf(m), user |-> w.conns[m].user,
                                     req |-> [kind |-> "", arg |-> 0]])
  IN Owes([left EXCEPT !.conns[m].remote = 0], m, {})

\* The link that s has to t and can send on, as far as it knows.
LinksTo(w, s, t) == {l \in DOMAIN w.links : w.links[l].from = s /\ w.links[l].to = t /\ w.links[l].ends[s] = "up"}

\* LinkTo finds or opens one, if t can be reached.
CanLink(w, s, t, reachable) ==
  LinksTo(w, s, t) # {} \/ (reachable /\ t # s /\ Len(w.links) < MaxLinks)

LinkTo(w, s, t) ==
  IF LinksTo(w, s, t) # {} THEN w
  ELSE [w EXCEPT !.links = Append(@, [from |-> s, to |-> t, ends |-> [e \in {s, t} |-> "up"], broken |-> FALSE]),
                 !.wire = Append(@, [out |-> <<>>, back |-> <<>>])]

\* join_remote: the host of g is asked to take m, with m's request.
JoinRemote(w, m, t, req) ==
  LET s == ServerOf(w, m)
      linked == LinkTo(w, s, t)
      l == CHOOSE k \in LinksTo(linked, s, t) : TRUE
      left == [LeaveGame(DropRemote(linked, m), m) EXCEPT !.conns[m].remote = l]
      asked == Put(left, l, "out", [kind |-> "xjoi", id |-> IdOf(m), user |-> w.conns[m].user, req |-> req])
  IN Owes(asked, m, {"join"})

-----------------------------------------------------------------------------
(* HandleLobby, for clients and remote players alike *)

OwnGames(w, s) == {g \in DOMAIN w.games : w.games[g].server = s}

TakeSeat(w, m, g) ==
  LET seated == IF w.conns[m].game = g THEN w
                ELSE [LeaveGame(w, m) EXCEPT !.games[g].players = Append(@, m), !.conns[m].game = g]
  IN SendGameAfterRemoteJoin(Send(seated, m, "join", GameRecord(seated, g)), g, m)

Gjoi(w, m, req, reachable) ==
  LET s == ServerOf(w, m)
      g == req.arg
  IN IF g \in OwnGames(w, s)
     THEN IF w.games[g].locked /\ w.conns[m].game # g THEN Send(w, m, "join", NoRecord) ELSE TakeSeat(w, m, g)
     ELSE IF g \in DOMAIN known[s] /\ CanLink(w, s, known[s][g].server, reachable)
     THEN JoinRemote(w, m, known[s][g].server, req)
     ELSE Send(w, m, "join", NoRecord)

Gqwk(w, m, req, reachable) ==
  LET s == ServerOf(w, m)
      open == {g \in OwnGames(w, s) \ {w.conns[m].game} :
                 ~w.games[g].locked /\ Len(w.games[g].players) < MaxSize}
      elsewhere == {g \in DOMAIN known[s] : known[s][g].open /\ CanLink(w, s, known[s][g].server, reachable)}
  IN IF open # {} THEN TakeSeat(w, m, Min(open))
     ELSE IF elsewhere # {} THEN JoinRemote(w, m, known[s][Min(elsewhere)].server, req)
     ELSE Send(w, m, "join", NoRecord)

\* The host's gdel takes the others out of the game first.
Leave(w, m, req) ==
  LET g == w.conns[m].game
      answered == Send(w, m, "leave", NoRecord)
      others == Only(w.games[g].players, DOMAIN w.conns \ {m})
      dismissed == [FoldLeft(LAMBDA v, p : Send([v EXCEPT !.conns[p].game = 0], p, "push", Nowhere), answered, others)
                    EXCEPT !.games[g].players = <<m>>]
      last == IF req.kind = "gdel" /\ g \in DOMAIN w.games /\ w.games[g].host = w.conns[m].user
              THEN dismissed ELSE answered
  IN Send(LeaveGame(last, m), m, "push", Nowhere)

\* gset. The host's kicks a player or locks the game; any other, and gsta, says how
\* the game is to all in it.
Gset(w, m, req) ==
  LET g == w.conns[m].game
      hosts == g \in DOMAIN w.games /\ Head(w.games[g].players) = m
      kicked == Only(w.games[g].players, {p \in DOMAIN w.conns \ {m} : w.conns[p].user = req.arg})
      away == IF kicked = <<>> THEN w ELSE Send(LeaveGame(w, Head(kicked)), Head(kicked), "push", Nowhere)
      locked == [w EXCEPT !.games[g].locked = TRUE]
  IN IF g \notin DOMAIN w.games THEN Send(w, m, "play", NoRecord)
     ELSE IF hosts /\ req.kind = "kick" THEN Send(away, m, "play", GameRecord(away, g))
     ELSE IF hosts /\ req.kind = "lock" THEN SendGame(Send(locked, m, "play", GameRecord(locked, g)), g)
     ELSE SendGame(Send(w, m, "play", GameRecord(w, g)), g)

HandleLobby(w, m, req, reachable) ==
  LET away == w.conns[m].remote # 0
      joins == req.kind \in {"gjoi", "gqwk"}
      here == IF away /\ joins THEN DropRemote(w, m) ELSE w
      sent == ForwardToHost(w, m, req)
  IN IF away /\ ~joins
     THEN IF Answers(req) = "leave" THEN [sent EXCEPT !.conns[m].remote = 0] ELSE sent
     ELSE IF req.kind = "gjoi" THEN Gjoi(here, m, req, reachable)
     ELSE IF req.kind = "gqwk" THEN Gqwk(here, m, req, reachable)
     ELSE IF Answers(req) = "leave" THEN Leave(here, m, req) ELSE Gset(here, m, req)

\* run: a remote player's request, and its end with the game it leaves.
Run(w, m, req, reachable) ==
  LET done == HandleLobby(w, m, req, reachable)
  IN IF Answers(req) = "leave" THEN [done EXCEPT !.conns = Without(@, m)] ELSE done

-----------------------------------------------------------------------------
(* The clients *)

Happens == events < MaxEvents /\ events' = events + 1

Reachable == IF Breaks THEN BOOLEAN ELSE {TRUE}

Request(c) ==
  /\ c \in DOMAIN conns
  /\ Happens
  /\ \E reachable \in Reachable,
        req \in [kind : {"gqwk", "gset", "lock", "glea", "gdel"}, arg : {0}]
                \cup [kind : {"gjoi"}, arg : 1 .. nextGame - 1]
                \cup [kind : {"kick"}, arg : Clients \ {c}] :
       Becomes(HandleLobby(World, c, req, reachable))
  /\ UNCHANGED <<nextGame, known>>

Gcre(c) ==
  /\ c \in DOMAIN conns \cap Hosts
  /\ nextGame <= MaxGames
  /\ LET left == LeaveGame(DropRemote(World, c), c)
         game == [server |-> At[c], host |-> c, players |-> <<c>>, locked |-> FALSE]
         made == [left EXCEPT !.games = With(@, nextGame, game), !.conns[c].game = nextGame]
     IN Becomes(SendGame(made, nextGame))
  /\ nextGame' = nextGame + 1
  /\ UNCHANGED <<known, events>>

\* A client's connection ends: out of its game, here or at its host.
Hangup(c) ==
  /\ c \in DOMAIN conns
  /\ Happens
  /\ Becomes([LeaveGame(DropRemote(World, c), c) EXCEPT !.conns = Without(@, c)])
  /\ UNCHANGED <<nextGame, known>>

-----------------------------------------------------------------------------
(* The servers *)

\* Announce and ReceiveBeacon: a datagram about a game that a client of its
\* server hosts. It may be lost, and the game change after it.
Beacon(g, t) ==
  /\ g \in DOMAIN games /\ t # games[g].server
  /\ Head(games[g].players) \in Clients \cap DOMAIN conns
  /\ LET entry == [server |-> games[g].server,
                   open |-> ~games[g].locked /\ Len(games[g].players) < MaxSize]
     IN known' = [known EXCEPT ![t] = With(@, g, entry)]
  /\ UNCHANGED <<world, nextGame, events>>

\* Announce: what was not heard of for a while is dropped.
Expire(g, t) ==
  /\ g \in DOMAIN known[t]
  /\ known' = [known EXCEPT ![t] = Without(@, g)]
  /\ UNCHANGED <<world, nextGame, events>>

\* SendHeldGames, 250 ms later.
SendHeld ==
  /\ held # <<>>
  /\ LET w == [World EXCEPT !.held = Tail(@)]
     IN Becomes(IF Head(held) \in DOMAIN games THEN SendGame(w, Head(held)) ELSE w)
  /\ UNCHANGED <<nextGame, known, events>>

\* xjoi: the player, in place of one of that id who came by the same link.
TakePlayer(w, m, user) ==
  [RemovePlayer(w, m) EXCEPT !.conns = With(@, m, [user |-> user, game |-> 0, remote |-> 0])]

\* HandlePeer at the host's end.
HandleOut(l) ==
  /\ wire[l].out # <<>> /\ links[l].ends[links[l].to] = "up"
  /\ LET message == Head(wire[l].out)
         m == <<l, message.id>>
         w == [World EXCEPT !.wire[l].out = Tail(@)]
     IN \E reachable \in Reachable :
          Becomes(IF message.kind = "xjoi" THEN Run(TakePlayer(w, m, message.user), m, message.req, reachable)
                  ELSE IF m \notin DOMAIN conns THEN w
                  ELSE IF message.kind = "xlea" THEN RemovePlayer(w, m)
                  ELSE Run(w, m, message.req, reachable))
  /\ UNCHANGED <<nextGame, known, events>>

\* Mutant of Addressees: those who are in a game, as their own server sees it.
Addressees_InGame(l, id) ==
  {c \in Clients \cap DOMAIN conns : At[c] = links[l].from /\ Id[c] = id /\ conns[c].game # 0}

\* Who a message that came back on l for a player of that id is for: clients
\* of this server that joined through it.
Addressees(l, id) ==
  {c \in Clients \cap DOMAIN conns : At[c] = links[l].from /\ Id[c] = id /\ conns[c].remote = l}

\* HandlePeer at the client's end: what the host sent goes to the client.
HandleBack(l) ==
  /\ wire[l].back # <<>> /\ links[l].ends[links[l].from] = "up"
  /\ LET message == Head(wire[l].back)
         w == [World EXCEPT !.wire[l].back = Tail(@)]
         clients == Addressees(l, message.id)
     IN Becomes(IF clients = {} THEN w
                ELSE Deliver(w, CHOOSE c \in clients : TRUE, message.answers, message.record))
  /\ UNCHANGED <<nextGame, known, events>>

\* A link breaks: what is on its way is lost.
Break(l) ==
  /\ Breaks
  /\ Happens
  /\ ~links[l].broken
  /\ links' = [links EXCEPT ![l].broken = TRUE]
  /\ wire' = [wire EXCEPT ![l] = [out |-> <<>>, back |-> <<>>]]
  /\ UNCHANGED <<conns, games, held, told, owed, nextGame, known>>

\* An end finds out, reading or sending, and closes its socket.
Notice(l, s) ==
  /\ links[l].broken /\ s \in DOMAIN links[l].ends
  /\ links[l].ends[s] = "up"
  /\ links' = [links EXCEPT ![l].ends[s] = "closed"]
  /\ UNCHANGED <<conns, games, wire, held, told, owed, nextGame, known, events>>

\* Mutant of GameIsGone: the clients are told, but still sent on.
GameIsGone_Tells(w, c) == Deliver(w, c, "push", Nowhere)

\* A client whose game was at the other end of the link.
GameIsGone(w, c) ==
  [Deliver(w, c, "push", Nowhere) EXCEPT !.conns[c].remote = 0, !.conns[c].game = 0, !.owed[c] = {}]

\* OnLinkClosed, at the end of the pass.
OnLinkClosed(l, s) ==
  /\ s \in DOMAIN links[l].ends /\ links[l].ends[s] = "closed"
  /\ LET came == SetToSeq({m \in DOMAIN conns \ Clients : m[1] = l /\ links[l].to = s})
         went == SetToSeq({c \in Clients \cap DOMAIN conns : At[c] = s /\ conns[c].remote = l})
         w == [World EXCEPT !.links[l].ends[s] = "gone"]
     IN Becomes(FoldLeft(GameIsGone, FoldLeft(RemovePlayer, w, came), went))
  /\ UNCHANGED <<nextGame, known, events>>

ServeLinks ==
  \E l \in DOMAIN links :
    HandleOut(l) \/ HandleBack(l) \/ \E s \in Servers : Notice(l, s) \/ OnLinkClosed(l, s)

Next ==
  \/ \E c \in Clients : Request(c) \/ Gcre(c) \/ Hangup(c)
  \/ \E g \in 1 .. MaxGames, t \in Servers : Beacon(g, t) \/ Expire(g, t)
  \/ SendHeld
  \/ ServeLinks
  \/ \E l \in DOMAIN links : Break(l)

Spec == Init /\ [][Next]_vars

-----------------------------------------------------------------------------
(* Properties *)

\* Who may be a player: a client, or who came by a link.
People == Clients \cup ((1 .. MaxLinks) \X Ids)
Connection == [user : Clients, game : 0 .. MaxGames, remote : 0 .. MaxLinks]
Game == [server : Servers, host : Clients, players : Seq(People), locked : BOOLEAN]
Ends == UNION {[D -> {"up", "closed", "gone"}] : D \in SUBSET Servers}
Link == {k \in [from : Servers, to : Servers, ends : Ends, broken : BOOLEAN] : DOMAIN k.ends = {k.from, k.to}}

Records == [game : -1 .. MaxGames, host : Clients \cup {""}, players : Seq(Clients)]
Requests ==
  [kind : {"", "gjoi", "gqwk", "gset", "lock", "kick", "glea", "gdel"}, arg : (0 .. MaxGames) \cup Clients]
Message == [kind : {"xjoi", "xfwd", "xlea"}, id : Ids, user : Clients, req : Requests]
Answer == [id : Ids, answers : {"join", "play", "leave", "push"}, record : Records]

\* The variables have their types.
TypeOK ==
  /\ DOMAIN conns \subseteq People /\ \A m \in DOMAIN conns : conns[m] \in Connection
  /\ DOMAIN games \subseteq 1 .. MaxGames /\ \A g \in DOMAIN games : games[g] \in Game
  /\ nextGame \in 1 .. MaxGames + 1
  /\ \A s \in Servers : DOMAIN known[s] \subseteq 1 .. MaxGames
  /\ links \in Seq(Link) /\ Len(links) <= MaxLinks
  /\ wire \in Seq([out : Seq(Message), back : Seq(Answer)]) /\ Len(wire) = Len(links)
  /\ held \in Seq(1 .. MaxGames)
  /\ told \in [Clients -> Records]
  /\ owed \in [Clients -> SUBSET {"join", "play", "leave"}]
  /\ events \in 0 .. MaxEvents

\* Nothing is on its way on link l, and both its ends are there.
Quiet(l) == wire[l] = [out |-> <<>>, back |-> <<>>] /\ ~links[l].broken /\ \A s \in DOMAIN links[l].ends : links[l].ends[s] = "up"
\* Nothing is left to be done at all.
AllQuiet ==
  /\ held = <<>>
  /\ \A l \in DOMAIN links : Quiet(l) \/ \A s \in DOMAIN links[l].ends : links[l].ends[s] = "gone"

\* A game's players and the connections that say they are in it are the same,
\* on every server and whatever is lost between them, each once.
MembersAgree ==
  /\ \A g \in DOMAIN games :
       /\ IsInjective(games[g].players)
       /\ ToSet(games[g].players) = {m \in DOMAIN conns : conns[m].game = g}
  /\ \A m \in DOMAIN conns : conns[m].game \in DOMAIN games \cup {0}

\* Once a link is quiet, its two ends agree on who is a player through it: no
\* client is left without its place at the host, and no player there is a ghost
\* (xjoi, xlea, xfwd and the client's own remote_link against each other).
EndsAgree ==
  \A l \in DOMAIN links : Quiet(l) =>
    {m[2] : m \in {n \in DOMAIN conns \ Clients : n[1] = l}}
      = {Id[c] : c \in {d \in Clients \cap DOMAIN conns : At[d] = links[l].from /\ conns[d].remote = l}}

\* Where a client plays: here, or as the player its host has for it.
Seat(c) == IF conns[c].remote = 0 THEN c ELSE <<conns[c].remote, Id[c]>>

\* When nothing is on its way, everyone in a game was last told who is in it,
\* also of those who joined through a link and were held back for a while.
PlayersAreTold ==
  AllQuiet => \A c \in Clients \cap DOMAIN conns :
    LET m == Seat(c) IN
    m \in DOMAIN conns /\ conns[m].game # 0 => told[c] = GameRecord(World, conns[m].game)

\* What was passed on for a client that plays elsewhere is answered, whatever it
\* was, once nothing is on its way: by the host's handlers through the link, or by
\* the link's end.
PlayersAreAnswered ==
  AllQuiet => \A c \in Clients \cap DOMAIN conns : conns[c].remote # 0 => owed[c] = {}

\* The host "answers as if the client were its own" (server.cpp:641), and so too a
\* client that leaves the game.
LeaversAreAnswered ==
  AllQuiet => \A c \in Clients \cap DOMAIN conns : "leave" \notin owed[c]

\* An end that has closed its socket has nobody on the link any more: no player who
\* came by it, and no client that plays at its other end, also of those who joined
\* between the break and the close (OnLinkClosed).
GoneLinksAreLeft ==
  \A l \in DOMAIN links : \A s \in DOMAIN links[l].ends : links[l].ends[s] = "gone" =>
    /\ \A m \in DOMAIN conns \ Clients : m[1] = l => links[l].to # s
    /\ \A c \in Clients \cap DOMAIN conns : conns[c].remote = l => At[c] # s

=============================================================================
