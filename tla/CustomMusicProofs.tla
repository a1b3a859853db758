------------------------- MODULE CustomMusicProofs -------------------------
(***************************************************************************)
(* Proofs about CustomMusic.  What g_mutex guards is one record, and each  *)
(* operation a composition of functions of it: MusicInv is what each of    *)
(* them keeps, with a lemma for each, and a step of the specification is   *)
(* then one of them and a few variables beside it.                         *)
(***************************************************************************)
EXTENDS CustomMusic, SequenceTheorems, TLAPS

-----------------------------------------------------------------------------
(* The invariant of the record *)

\* The page begins within the files, its songs are those there, and the names
\* made for it are its own.
Paged(m) ==
  /\ m.files # <<>> => PageFirst(m) < Len(m.files)
  /\ m.tracks = SubSeq(m.files, PageFirst(m) + 1, PageLast(m))
  /\ m.strings \in {<<>>, m.tracks}

\* What is kept to put back is the title's, and until then the table is, too.
Kept(m) ==
  /\ m.saved \in {NoTable, GamesTable}
  /\ m.applied <=> Saved(m)
  /\ Saved(m) => Filled(m)
  /\ ~ Saved(m) => m.table \in {NoTable, GamesTable}

\* The table holds the songs that are chosen.
Named(m) ==
  IF m.custom /\ Saved(m)
  THEN /\ m.tracks # <<>> /\ m.table.count = Len(m.tracks)
       /\ \A i \in 1 .. Len(m.tracks) : m.table.names[i] = m.tracks[i]
  ELSE m.table \in {NoTable, GamesTable}

\* Nothing is known of the folder before the first look.
Unlooked(m) == m.scanned \/ (~ m.custom /\ ~ m.mounted /\ ~ Saved(m))

MusicInv(m) == m \in Music /\ Paged(m) /\ Kept(m) /\ Named(m) /\ Unlooked(m)

-----------------------------------------------------------------------------
(* Pages *)

LEMMA SlotsType == Slots \in Nat /\ Slots > 0
  BY SlotsAssumption

LEMMA TablesDiffer ==
  /\ GamesTable \in Tables /\ NoTable \in Tables
  /\ GamesTable # NoTable /\ GamesTable.count = Slots /\ NoTable.count = 0
  /\ GamesTable.names = Own /\ NoTable.names = Own
<1>1. Own \in [1 .. Slots -> Songs \cup OwnSongs]
  BY OwnAssumption
<1> QED  BY <1>1, SlotsType DEF GamesTable, NoTable, Tables

\* The pages are the numbers of which the place they begin at is one of a file's.
LEMMA Pages ==
  ASSUME NEW m \in Music
  PROVE  /\ PageCount(m) \in Nat
         /\ m.files # <<>> => PageCount(m) > 0
         /\ \A p \in Nat : p < PageCount(m) => p * Slots < Len(m.files)
<1> DEFINE n == Len(m.files)
           c == ((n + Slots) - 1) \div Slots
<1>1. n \in Nat /\ m.files \in Seq(Songs) /\ (m.files # <<>> => n > 0)
  BY DEF Music
<1>2. c \in Nat /\ c * Slots <= (n + Slots) - 1 /\ (n + Slots) - 1 < (c + 1) * Slots
  <2> HIDE DEF n
  <2> QED  BY <1>1, SlotsType
<1>3. n > 0 => c > 0
  <2> HIDE DEF c, n
  <2>1. SUFFICES ASSUME n > 0, c = 0 PROVE FALSE
    BY <1>2
  <2> QED  BY <2>1, <1>1, <1>2, SlotsType
<1>4. ASSUME NEW p \in Nat, p < c PROVE p * Slots < n
  <2> DEFINE d == c * Slots
             q == p * Slots
  <2> HIDE DEF c, n
  <2>1. (p + 1) * Slots <= d
    BY <1>2, <1>4, SlotsType
  <2>2. (p + 1) * Slots = q + Slots /\ q \in Nat /\ d \in Nat
    BY <1>2, SlotsType
  <2>3. d <= (n + Slots) - 1
    BY <1>2
  <2> HIDE DEF d, q
  <2>4. q < n
    BY <2>1, <2>2, <2>3, <1>1, SlotsType
  <2> QED  BY <2>4 DEF q
<1>5. PageCount(m) = c
  BY DEF PageCount
<1>6. n = Len(m.files)
  OBVIOUS
<1> HIDE DEF c, n
<1> QED  BY <1>1, <1>2, <1>3, <1>4, <1>5, <1>6

\* A page has room in the table, and one that begins within the files has songs.
LEMMA PageSongs ==
  ASSUME NEW m \in Music
  PROVE  LET t == SubSeq(m.files, PageFirst(m) + 1, PageLast(m)) IN
         /\ t \in Seq(Songs) /\ Len(t) <= Slots
         /\ m.files = <<>> => t = <<>>
         /\ PageFirst(m) < Len(m.files) => t # <<>>
<1> DEFINE n == Len(m.files)
           a == PageFirst(m)
           b == PageLast(m)
           t == SubSeq(m.files, a + 1, b)
<1>1. n \in Nat /\ m.files \in Seq(Songs) /\ m.page \in Nat
  BY DEF Music
<1>2. a \in Nat
  BY <1>1, SlotsType DEF PageFirst
<1>3. b \in Nat /\ b <= n /\ b <= a + Slots /\ (a < n => a < b)
  <2> HIDE DEF a
  <2>1. b = IF n < a + Slots THEN n ELSE a + Slots
    BY DEF PageLast, a
  <2> QED  BY <2>1, <1>1, <1>2, SlotsType
<1>4. t \in Seq(Songs) /\ Len(t) = IF a + 1 <= b THEN b - a ELSE 0
  <2> HIDE DEF a, b
  <2>1. \A i \in a + 1 .. b : i \in 1 .. n
    BY <1>1, <1>2, <1>3
  <2> QED  BY <2>1, <1>1, <1>2, <1>3
<1>5. Len(t) <= Slots /\ (a < n => t # <<>>) /\ (n = 0 => Len(t) = 0)
  <2> DEFINE l == Len(t)
  <2>1. l = (IF a + 1 <= b THEN b - a ELSE 0) /\ (l # 0 => t # <<>>)
    BY <1>4
  <2> HIDE DEF a, b, n, l
  <2>2. l <= Slots /\ (a < n => l # 0) /\ (n = 0 => l = 0)
    BY <1>1, <1>2, <1>3, <2>1, SlotsType
  <2> QED  BY <2>1, <2>2 DEF l
<1>6. m.files = <<>> => t = <<>>
  BY <1>4, <1>5
<1> QED  BY <1>4, <1>5, <1>6

LEMMA ClippedPage ==
  ASSUME NEW m \in Music
  PROVE  \E p \in Nat : /\ m.files # <<>> => p * Slots < Len(m.files)
                        /\ Clipped(m) = [m EXCEPT !.page = p]
<1>1. m.page \in Nat /\ m = [m EXCEPT !.page = m.page]
  BY DEF Music
<1>2. CASE m.page < PageCount(m)
  BY <1>1, <1>2, Pages DEF Clipped
<1>3. CASE ~ (m.page < PageCount(m)) /\ PageCount(m) # 0
  <2>1. PageCount(m) - 1 \in Nat /\ PageCount(m) - 1 < PageCount(m)
    BY <1>3, Pages
  <2>2. Clipped(m) = [m EXCEPT !.page = PageCount(m) - 1]
    BY <1>3 DEF Clipped
  <2> QED  BY <2>1, <2>2, Pages
<1>4. CASE ~ (m.page < PageCount(m)) /\ PageCount(m) = 0
  <2>1. Clipped(m) = [m EXCEPT !.page = 0] /\ m.files = <<>>
    BY <1>4, Pages DEF Clipped
  <2> QED  BY <2>1
<1> QED  BY <1>2, <1>3, <1>4

\* Loading a page that begins within the files changes its songs and names alone.
LEMMA LoadPagePages ==
  ASSUME NEW m \in Music, m.files # <<>> => PageFirst(m) < Len(m.files)
  PROVE  LET s == LoadPage(m) IN
         /\ s \in Music /\ Paged(s)
         /\ s.tracks = <<>> <=> m.files = <<>>
         /\ s = [m EXCEPT !.tracks = s.tracks, !.strings = <<>>]
<1> DEFINE t == SubSeq(m.files, PageFirst(m) + 1, PageLast(m))
           s == LoadPage(m)
<1>1. t \in Seq(Songs) /\ (t = <<>> <=> m.files = <<>>)
  BY PageSongs
<1>2. s = [m EXCEPT !.tracks = t, !.strings = <<>>]
  BY DEF LoadPage
<1>3. s \in Music /\ s.tracks = t /\ s.strings = <<>> /\ s.files = m.files /\ s.page = m.page
  <2> HIDE DEF t, s
  <2>1. <<>> \in Seq(Songs)
    OBVIOUS
  <2>2. s \in Music
    BY <1>1, <1>2, <2>1, ZenonT(20) DEF Music
  <2>3. s.tracks = t /\ s.strings = <<>> /\ s.files = m.files /\ s.page = m.page
    BY <1>2 DEF Music
  <2> QED  BY <2>2, <2>3
<1>4. PageFirst(s) = PageFirst(m) /\ PageLast(s) = PageLast(m)
  <2> HIDE DEF s
  <2> QED  BY <1>3 DEF PageFirst, PageLast
<1> HIDE DEF s
<1>5. Paged(s)
  BY <1>3, <1>4 DEF Paged
<1> QED
  <2> HIDE DEF t
  <2> QED  BY <1>1, <1>2, <1>3, <1>5 DEF s

-----------------------------------------------------------------------------
(* What each function of the record keeps *)

\* The table with a page's names over its first places.
LEMMA NamedTable ==
  ASSUME NEW m \in Music, Len(m.tracks) <= Slots
  PROVE  LET w == WithNames(m, m.tracks) IN
         /\ w \in Tables /\ w.count = Len(m.tracks)
         /\ \A i \in 1 .. Len(m.tracks) : w.names[i] = m.tracks[i]
<1> DEFINE f == [i \in 1 .. Slots |-> IF i <= Len(m.tracks) THEN m.tracks[i] ELSE m.table.names[i]]
<1>1. /\ m.tracks \in Seq(Songs) /\ m.table.names \in [1 .. Slots -> Songs \cup OwnSongs]
      /\ Len(m.tracks) \in 0 .. Slots
  BY SlotsType DEF Music, Tables
<1>2. f \in [1 .. Slots -> Songs \cup OwnSongs]
  <2>1. ASSUME NEW i \in 1 .. Slots
        PROVE  (IF i <= Len(m.tracks) THEN m.tracks[i] ELSE m.table.names[i]) \in Songs \cup OwnSongs
    BY <1>1, SlotsType
  <2> QED  BY <2>1
<1>3. \A i \in 1 .. Len(m.tracks) : f[i] = m.tracks[i]
  BY <1>1, SlotsType
<1>4. WithNames(m, m.tracks) = [names |-> f, count |-> Len(m.tracks)]
  BY DEF WithNames
<1> HIDE DEF f
<1> QED  BY <1>1, <1>2, <1>3, <1>4 DEF Tables

\* The page's songs have room in the table, and there are some if there are files.
LEMMA PagedSongs ==
  ASSUME NEW m \in Music, Paged(m)
  PROVE  Len(m.tracks) <= Slots /\ (m.tracks = <<>> <=> m.files = <<>>)
<1>1. m.tracks = SubSeq(m.files, PageFirst(m) + 1, PageLast(m))
  BY DEF Paged
<1>2. m.files # <<>> => PageFirst(m) < Len(m.files)
  BY DEF Paged
<1> QED  BY <1>1, <1>2, PageSongs

\* Apply makes the table what is chosen, whatever it was.
LEMMA ApplyKeeps ==
  ASSUME NEW m \in Music, Paged(m), Kept(m), m.scanned, m.tracks # <<>>
  PROVE  /\ MusicInv(Apply(m)) /\ Apply(m).scanned /\ Apply(m).mounted = m.mounted
         /\ Filled(m) => Saved(Apply(m))
         /\ Apply(m).custom = m.custom
<1>1. CASE ~ Filled(m)
  <2>1. Apply(m) = m
    BY <1>1 DEF Apply
  <2>2. ~ Saved(m) /\ m.table \in {NoTable, GamesTable}
    BY <1>1 DEF Kept
  <2> QED  BY <1>1, <2>1, <2>2 DEF MusicInv, Named, Unlooked
<1>2. CASE Filled(m)
  <2> DEFINE v == IF Saved(m) THEN m.saved ELSE m.table
             k == [m EXCEPT !.saved = v, !.applied = TRUE]
             z == IF m.custom THEN [k EXCEPT !.strings = m.tracks, !.table = WithNames(m, m.tracks)]
                  ELSE [k EXCEPT !.table = v]
  <2>1. v = GamesTable
    BY <1>2, TablesDiffer DEF Kept, Saved, Filled
  <2>2. Apply(m) = z
    <3>1. k.tracks = m.tracks /\ k.strings = m.strings /\ k.table = m.table /\ k.saved = v
      BY DEF Music
    <3>2. WithNames(k, m.tracks) = WithNames(m, m.tracks)
      <4> HIDE DEF k
      <4> QED  BY <3>1 DEF WithNames
    <3>3. (IF k.strings = <<>> THEN k.tracks ELSE k.strings) = m.tracks
      <4> HIDE DEF k
      <4> QED  BY <3>1 DEF Paged
    <3>4. Apply(m) = LET names == IF k.strings = <<>> THEN k.tracks ELSE k.strings
                     IN IF m.custom THEN [k EXCEPT !.strings = names, !.table = WithNames(k, names)]
                        ELSE [k EXCEPT !.table = k.saved]
      BY <1>2 DEF Apply
    <3> QED
      <4> HIDE DEF k, v
      <4> QED  BY <3>1, <3>2, <3>3, <3>4
  <2>3. /\ WithNames(m, m.tracks) \in Tables /\ WithNames(m, m.tracks).count = Len(m.tracks)
        /\ \A i \in 1 .. Len(m.tracks) : WithNames(m, m.tracks).names[i] = m.tracks[i]
    BY PagedSongs, NamedTable
  <2>4. Len(m.tracks) # 0 /\ m.tracks \in Seq(Songs)
    BY DEF Music
  <2>5. /\ z \in Music /\ z.saved = GamesTable /\ z.applied = TRUE
        /\ z.table = IF m.custom THEN WithNames(m, m.tracks) ELSE GamesTable
        /\ z.custom = m.custom /\ z.scanned = m.scanned /\ z.mounted = m.mounted
    <3> DEFINE w == WithNames(m, m.tracks)
    <3>1. w \in Tables
      BY <2>3
    <3> HIDE DEF w, v
    <3> QED  BY <2>1, <2>4, <3>1, TablesDiffer DEF Music, w
  <2>6. /\ z.strings = IF m.custom THEN m.tracks ELSE m.strings
        /\ z.tracks = m.tracks /\ z.files = m.files /\ z.page = m.page
    <3> HIDE DEF v
    <3> QED  BY DEF Music
  <2> HIDE DEF z
  <2>7. Paged(z)
    BY <2>6 DEF Paged, PageFirst, PageLast
  <2>8. Saved(z) /\ Filled(z) /\ Kept(z)
    BY <2>3, <2>4, <2>5, TablesDiffer, SlotsType DEF Kept, Saved, Filled
  <2>9. Named(z)
    <3>1. CASE m.custom
      <4>1. z.table = WithNames(m, m.tracks) /\ z.tracks = m.tracks
        BY <2>5, <2>6, <3>1
      <4>2. z.custom /\ Saved(z)
        BY <2>5, <2>8, <3>1
      <4> QED  BY <2>3, <4>1, <4>2, Zenon DEF Named
    <3>2. CASE ~ m.custom
      BY <2>5, <3>2 DEF Named
    <3> QED  BY <3>1, <3>2
  <2> QED  BY <1>2, <2>2, <2>5, <2>7, <2>8, <2>9 DEF MusicInv, Unlooked
<1> QED  BY <1>1, <1>2

LEMMA ScanKeeps ==
  ASSUME NEW m, MusicInv(m), NEW list \in Seq(Songs), NEW chosen \in BOOLEAN
  PROVE  LET z == Scan(m, list, chosen) IN
         /\ MusicInv(z) /\ z.scanned
         /\ z.custom => m.custom \/ chosen
<1>1. CASE m.scanned
  BY <1>1 DEF Scan
<1>2. CASE ~ m.scanned
  <2> DEFINE k == [m EXCEPT !.scanned = TRUE, !.files = list]
             s == LoadPage(Clipped(k))
             z == IF s.tracks = <<>> THEN s ELSE [s EXCEPT !.custom = chosen, !.mounted = TRUE]
  <2>1. Scan(m, list, chosen) = z
    BY <1>2 DEF Scan
  <2>2. k \in Music /\ k.files = list /\ k.scanned = TRUE
    BY DEF MusicInv, Music
  <2>3. PICK p \in Nat : /\ k.files # <<>> => p * Slots < Len(k.files)
                         /\ Clipped(k) = [k EXCEPT !.page = p]
    <3> HIDE DEF k
    <3> QED  BY <2>2, ClippedPage
  <2> DEFINE c == [k EXCEPT !.page = p]
  <2>4. c \in Music /\ c.files = k.files /\ c.page = p
    <3> HIDE DEF k
    <3> QED  BY <2>2 DEF Music
  <2>5. /\ s \in Music /\ Paged(s)
        /\ s = [c EXCEPT !.tracks = s.tracks, !.strings = <<>>]
    <3>1. c.files # <<>> => PageFirst(c) < Len(c.files)
      <4> HIDE DEF c
      <4> QED  BY <2>3, <2>4 DEF PageFirst
    <3>2. s = LoadPage(c)
      BY <2>3
    <3> HIDE DEF c, s
    <3> QED  BY <2>4, <3>1, <3>2, LoadPagePages
  <2>6. /\ s.scanned = TRUE /\ s.custom = m.custom /\ s.applied = m.applied
        /\ s.saved = m.saved /\ s.table = m.table
    <3> HIDE DEF s
    <3>1. /\ k.custom = m.custom /\ k.applied = m.applied /\ k.saved = m.saved
          /\ k.table = m.table
      BY DEF MusicInv, Music
    <3> HIDE DEF k
    <3> QED  BY <2>2, <2>5, <3>1 DEF Music
  <2>7. ~ m.custom /\ ~ Saved(m) /\ Kept(m)
    BY <1>2 DEF MusicInv, Unlooked
  <2> HIDE DEF s
  <2>8. /\ z \in Music /\ z.scanned = TRUE /\ z.applied = m.applied
        /\ z.saved = m.saved /\ z.table = m.table /\ z.files = s.files /\ z.page = s.page
        /\ z.tracks = s.tracks /\ z.strings = s.strings /\ z.custom \in {m.custom, chosen}
    BY <2>5, <2>6 DEF Music
  <2> HIDE DEF z
  <2>9. Paged(z)
    BY <2>5, <2>8 DEF Paged, PageFirst, PageLast
  <2>10. ~ Saved(z) /\ Kept(z) /\ Named(z)
    BY <2>7, <2>8 DEF Kept, Saved, Filled, Named
  <2> QED  BY <2>1, <2>8, <2>9, <2>10 DEF MusicInv, Unlooked
<1> QED  BY <1>1, <1>2

\* And after EnsureApplied the folder's songs are in the table if they are chosen,
\* there are any and the title has a table.
LEMMA EnsuredKeeps ==
  ASSUME NEW m, MusicInv(m), m.scanned
  PROVE  LET e == Ensured(m) IN
         /\ MusicInv(e) /\ e.mounted = m.mounted /\ e.custom = m.custom
         /\ e.custom => Saved(e) \/ ~ Filled(e) \/ e.tracks = <<>>
<1>1. CASE m.tracks = <<>>
  <2>1. Apply(m) = m
    BY <1>1 DEF Apply
  <2> QED  BY <1>1, <2>1 DEF Ensured
<1>2. CASE m.tracks # <<>> /\ m.custom /\ (~ m.applied \/ Filled(m) # Saved(m))
  <2>1. Ensured(m) = Apply(m)
    BY <1>2 DEF Ensured
  <2>2. /\ MusicInv(Apply(m)) /\ Apply(m).mounted = m.mounted /\ Apply(m).custom = m.custom
        /\ Filled(m) => Saved(Apply(m))
    BY <1>2, ApplyKeeps DEF MusicInv
  <2>3. ~ Filled(m) => Apply(m) = m
    BY DEF Apply
  <2> QED  BY <2>1, <2>2, <2>3
<1>3. CASE ~ (m.custom /\ (~ m.applied \/ Filled(m) # Saved(m)))
  <2>1. Ensured(m) = m
    BY <1>3 DEF Ensured
  <2>2. m.custom => Saved(m)
    BY <1>3 DEF MusicInv, Kept
  <2> QED  BY <2>1, <2>2
<1> QED  BY <1>1, <1>2, <1>3

\* The title's songs put back, and the folder's no longer chosen.
LEMMA EmptiedKeeps ==
  ASSUME NEW m, m \in Music, Paged(m), Kept(m), m.scanned, m.tracks = <<>>,
         NEW had \in BOOLEAN, had \/ Named(m)
  PROVE  MusicInv(Emptied(m, had)) /\ (Emptied(m, had).custom => m.custom)
<1>1. CASE had /\ Saved(m)
  <2> DEFINE z == [m EXCEPT !.custom = FALSE, !.table = m.saved]
  <2>1. Emptied(m, had) = z
    BY <1>1 DEF Emptied
  <2>2. m.saved = GamesTable
    BY <1>1 DEF Kept, Saved
  <2>3. /\ z \in Music /\ z.custom = FALSE /\ z.table = GamesTable
        /\ z.saved = GamesTable /\ z.applied = m.applied /\ z.scanned = m.scanned
        /\ z.files = m.files /\ z.page = m.page /\ z.tracks = m.tracks /\ z.strings = m.strings
    BY <2>2, TablesDiffer DEF Music
  <2> HIDE DEF z
  <2>4. Paged(z)
    BY <2>3 DEF Paged, PageFirst, PageLast
  <2>5. Kept(z) /\ Named(z)
    BY <1>1, <2>3, TablesDiffer, SlotsType DEF Kept, Saved, Filled, Named
  <2> QED  BY <2>1, <2>3, <2>4, <2>5 DEF MusicInv, Unlooked
<1>2. CASE ~ (had /\ Saved(m))
  <2>1. Emptied(m, had) = m
    BY <1>2 DEF Emptied
  <2>2. Named(m)
    BY <1>2 DEF Named, Kept
  <2> QED  BY <2>1, <2>2 DEF MusicInv, Unlooked
<1> QED  BY <1>1, <1>2

LEMMA RelistedKeeps ==
  ASSUME NEW m, MusicInv(m), m.scanned
  PROVE  MusicInv(Relisted(m)) /\ (Relisted(m).custom => m.custom)
<1> DEFINE k == [m EXCEPT !.nextListed = FALSE]
           f == [k EXCEPT !.files = m.next]
           s == LoadPage(Clipped(f))
<1>1. /\ k \in Music /\ k.scanned /\ k.custom = m.custom /\ k.applied = m.applied
      /\ k.saved = m.saved /\ k.table = m.table /\ k.files = m.files /\ k.page = m.page
      /\ k.tracks = m.tracks /\ k.strings = m.strings
  BY DEF MusicInv, Music
<1>2. m.next \in Seq(Songs)
  BY DEF MusicInv, Music
<1>3. CASE m.next = m.files
  <2>1. Relisted(m) = k
    BY <1>3 DEF Relisted
  <2> HIDE DEF k
  <2>2. Paged(k)
    BY <1>1 DEF MusicInv, Paged, PageFirst, PageLast
  <2>3. Kept(k) /\ Named(k)
    BY <1>1 DEF MusicInv, Kept, Named, Saved, Filled
  <2> QED  BY <1>1, <2>1, <2>2, <2>3 DEF MusicInv, Unlooked
<1>4. CASE m.next # m.files
  <2>1. Relisted(m) = IF s.tracks = <<>> THEN Emptied(s, m.tracks # <<>>)
                      ELSE IF s.custom THEN Apply(s) ELSE s
    BY <1>4 DEF Relisted
  <2>2. /\ f \in Music /\ f.files = m.next /\ f.scanned /\ f.custom = m.custom
        /\ f.applied = m.applied /\ f.saved = m.saved /\ f.table = m.table
    <3> HIDE DEF k
    <3> QED  BY <1>1, <1>2 DEF Music
  <2>3. PICK p \in Nat : /\ f.files # <<>> => p * Slots < Len(f.files)
                         /\ Clipped(f) = [f EXCEPT !.page = p]
    <3> HIDE DEF f
    <3> QED  BY <2>2, ClippedPage
  <2> DEFINE c == [f EXCEPT !.page = p]
  <2> HIDE DEF f
  <2>4. /\ c \in Music /\ c.files = f.files /\ c.page = p /\ c.scanned /\ c.custom = m.custom
        /\ c.applied = m.applied /\ c.saved = m.saved /\ c.table = m.table
    BY <2>2 DEF Music
  <2>5. s = LoadPage(c)
    BY <2>3
  <2> HIDE DEF c, s
  <2>6. c.files # <<>> => PageFirst(c) < Len(c.files)
    BY <2>3, <2>4 DEF PageFirst
  <2>7. /\ s \in Music /\ Paged(s)
        /\ s = [c EXCEPT !.tracks = s.tracks, !.strings = <<>>]
    BY <2>4, <2>5, <2>6, LoadPagePages
  <2>8. /\ s.scanned /\ s.custom = m.custom /\ s.applied = m.applied
        /\ s.saved = m.saved /\ s.table = m.table
    BY <2>4, <2>7 DEF Music
  <2>9. Kept(s)
    BY <2>8 DEF MusicInv, Kept, Saved, Filled
  <2>10. CASE s.tracks = <<>>
    <3>1. (m.tracks # <<>>) \/ Named(s)
      BY <2>8 DEF MusicInv, Named, Saved
    <3> QED  BY <2>1, <2>7, <2>8, <2>9, <2>10, <3>1, EmptiedKeeps
  <2>11. CASE s.tracks # <<>> /\ s.custom
    BY <2>1, <2>7, <2>8, <2>9, <2>11, ApplyKeeps
  <2>12. CASE s.tracks # <<>> /\ ~ s.custom
    <3>1. Named(s)
      BY <2>8, <2>12 DEF MusicInv, Named
    <3> QED  BY <2>1, <2>7, <2>8, <2>9, <2>12, <3>1 DEF MusicInv, Unlooked
  <2> QED  BY <2>10, <2>11, <2>12
<1> QED  BY <1>3, <1>4

\* A page further, or one back, begins within the files again.
LEMMA TurnedKeeps ==
  ASSUME NEW m, MusicInv(m), m.scanned, NEW by \in {-1, 1}, PageCount(m) > 1
  PROVE  MusicInv(Apply(Turned(m, by))) /\ Apply(Turned(m, by)).custom = m.custom
<1> DEFINE c == PageCount(m)
           p == (m.page + by + c) % c
           k == [m EXCEPT !.page = p]
           s == LoadPage(k)
<1>1. c \in Nat /\ c > 1 /\ m.page \in Nat /\ m \in Music
  BY Pages DEF MusicInv, Music
<1>2. p \in Nat /\ p < c
  <2> DEFINE q == m.page + by + c
  <2> HIDE DEF c
  <2>1. q \in Int
    BY <1>1
  <2> HIDE DEF q
  <2>2. q % c \in 0 .. c - 1
    BY <1>1, <2>1
  <2> QED  BY <1>1, <2>2 DEF q
<1>3. p * Slots < Len(m.files)
  <2> HIDE DEF p
  <2> QED  BY <1>1, <1>2, Pages
<1>4. Turned(m, by) = s
  BY DEF Turned
<1> HIDE DEF p
<1>5. /\ k \in Music /\ k.files = m.files /\ k.page = p /\ k.scanned /\ k.custom = m.custom
      /\ k.applied = m.applied /\ k.saved = m.saved /\ k.table = m.table
  BY <1>1, <1>2 DEF Music
<1> HIDE DEF k, s, c
<1>6. PageFirst(k) < Len(k.files)
  BY <1>3, <1>5 DEF PageFirst
<1>7. /\ s \in Music /\ Paged(s) /\ (s.tracks = <<>> <=> k.files = <<>>)
      /\ s = [k EXCEPT !.tracks = s.tracks, !.strings = <<>>]
  BY <1>5, <1>6, LoadPagePages DEF s
<1>8. /\ s.scanned /\ s.custom = m.custom
      /\ s.applied = m.applied /\ s.saved = m.saved /\ s.table = m.table
  BY <1>5, <1>7 DEF Music
<1>9. Kept(s)
  BY <1>8 DEF MusicInv, Kept, Saved, Filled
<1>10. k.files # <<>>
  <2>1. PageFirst(k) \in Nat
    BY <1>1, <1>2, <1>5, SlotsType DEF PageFirst
  <2> QED  BY <1>6, <2>1
<1> QED  BY <1>4, <1>7, <1>8, <1>9, <1>10, ApplyKeeps

LEMMA SwitchedKeeps ==
  ASSUME NEW m, MusicInv(m), m.scanned, m.tracks # <<>>
  PROVE  LET z == [m EXCEPT !.custom = ~ @] IN
         MusicInv(Apply(z)) /\ z.custom \in BOOLEAN /\ Apply(z).custom = z.custom
<1> DEFINE z == [m EXCEPT !.custom = ~ @]
<1>1. /\ z \in Music /\ z.scanned /\ z.custom \in BOOLEAN /\ z.applied = m.applied
      /\ z.saved = m.saved /\ z.table = m.table /\ z.files = m.files /\ z.page = m.page
      /\ z.tracks = m.tracks /\ z.strings = m.strings
  BY DEF MusicInv, Music
<1> HIDE DEF z
<1>2. Paged(z)
  BY <1>1 DEF MusicInv, Paged, PageFirst, PageLast
<1>3. Kept(z)
  BY <1>1 DEF MusicInv, Kept, Saved, Filled
<1>4. MusicInv(Apply(z)) /\ Apply(z).custom = z.custom
  BY <1>1, <1>2, <1>3, ApplyKeeps
<1> QED  BY <1>1, <1>4 DEF z

-----------------------------------------------------------------------------
(* The inductive invariant *)

\* The record, and the variables beside it.
IInv ==
  /\ MusicInv(music)
  /\ source \in BOOLEAN /\ (music.custom => source)
  /\ turn \in {-1, 0, 1} /\ onShow \in BOOLEAN /\ mayTurn \in BOOLEAN
  /\ {folder, always, ever} \subseteq SUBSET Songs
  /\ changes \in 0 .. MaxChanges

LEMMA InitIInv == Init => IInv
<1> SUFFICES ASSUME Init PROVE IInv
  OBVIOUS
<1>1. <<>> \in Seq(Songs)
  OBVIOUS
<1>2. music \in Music
  BY <1>1, TablesDiffer DEF Init, Music
<1>3. /\ music.files = <<>> /\ music.tracks = <<>> /\ music.strings = <<>>
      /\ music.saved = NoTable /\ music.table = NoTable
      /\ music.applied = FALSE /\ music.custom = FALSE
  BY DEF Init
<1>4. music.mounted = FALSE
  BY DEF Init
<1>5. Paged(music)
  BY <1>2, <1>3, PageSongs DEF Paged
<1>6. Kept(music) /\ Named(music) /\ Unlooked(music)
  BY <1>3, <1>4 DEF Kept, Named, Unlooked, Saved
<1>7. /\ source \in BOOLEAN
      /\ turn \in {-1, 0, 1} /\ onShow \in BOOLEAN /\ mayTurn \in BOOLEAN
      /\ {folder, always, ever} \subseteq SUBSET Songs
      /\ changes \in 0 .. MaxChanges
  <2>1. 0 \in 0 .. MaxChanges
    BY MaxChangesAssumption
  <2>2. source \in BOOLEAN /\ turn \in {-1, 0, 1} /\ onShow \in BOOLEAN /\ mayTurn \in BOOLEAN
    BY DEF Init
  <2>3. {folder, always, ever} \subseteq SUBSET Songs /\ changes = 0
    BY DEF Init
  <2> QED  BY <2>1, <2>2, <2>3
<1> QED  BY <1>2, <1>3, <1>5, <1>6, <1>7 DEF IInv, MusicInv

\* Fields that no other part of the record goes by.
LEMMA ListingKeeps ==
  ASSUME NEW m, MusicInv(m), NEW next \in Seq(Songs), NEW got \in BOOLEAN, NEW on \in BOOLEAN
  PROVE  \A z \in {[m EXCEPT !.next = next, !.nextListed = got, !.listing = on],
                  [m EXCEPT !.listing = on]} : MusicInv(z) /\ z.custom = m.custom
<1>1. ASSUME NEW z \in {[m EXCEPT !.next = next, !.nextListed = got, !.listing = on],
                       [m EXCEPT !.listing = on]}
      PROVE  MusicInv(z) /\ z.custom = m.custom
  <2>1. /\ z \in Music /\ z.scanned = m.scanned /\ z.mounted = m.mounted
      /\ z.custom = m.custom /\ z.applied = m.applied
        /\ z.saved = m.saved /\ z.table = m.table /\ z.files = m.files /\ z.page = m.page
        /\ z.tracks = m.tracks /\ z.strings = m.strings
    BY <1>1 DEF MusicInv, Music
  <2>2. Paged(z)
    BY <2>1 DEF MusicInv, Paged, PageFirst, PageLast
  <2>3. Kept(z) /\ Named(z) /\ Unlooked(z)
    BY <2>1 DEF MusicInv, Kept, Named, Unlooked, Saved, Filled
  <2> QED  BY <2>1, <2>2, <2>3 DEF MusicInv
<1> QED  BY <1>1

LEMMA FilledKeeps ==
  ASSUME NEW m, MusicInv(m), ~ Filled(m)
  PROVE  LET z == [m EXCEPT !.table = GamesTable] IN MusicInv(z) /\ z.custom = m.custom
<1> DEFINE z == [m EXCEPT !.table = GamesTable]
<1>1. /\ z \in Music /\ z.scanned = m.scanned /\ z.mounted = m.mounted
      /\ z.custom = m.custom /\ z.applied = m.applied
      /\ z.saved = m.saved /\ z.table = GamesTable /\ z.files = m.files /\ z.page = m.page
      /\ z.tracks = m.tracks /\ z.strings = m.strings
  BY TablesDiffer DEF MusicInv, Music
<1> HIDE DEF z
<1>2. Paged(z)
  BY <1>1 DEF MusicInv, Paged, PageFirst, PageLast
<1>3. ~ Saved(m) /\ ~ Saved(z)
  BY <1>1 DEF MusicInv, Kept, Saved
<1>4. Kept(z) /\ Named(z) /\ Unlooked(z)
  BY <1>1, <1>3 DEF MusicInv, Kept, Named, Unlooked, Saved
<1> QED  BY <1>1, <1>2, <1>4 DEF MusicInv, z

LEMMA SortedType == \A S \in SUBSET Songs : Sorted[S] \in Seq(Songs)
  BY SortedAssumption

\* A step keeps the invariant: one action at a time.
LEMMA NextIInv == IInv /\ [Next]_vars => IInv'
<1> SUFFICES ASSUME IInv, [Next]_vars PROVE IInv'
  OBVIOUS
<1>1. /\ Sorted[folder] \in Seq(Songs) /\ source \in BOOLEAN
      /\ MusicInv(music) /\ (music.custom => source)
  BY SortedType DEF IInv
<1> DEFINE looked == Scan(music, Sorted[folder], source)
<1>2. MusicInv(looked) /\ looked.scanned /\ (looked.custom => source)
  BY <1>1, ScanKeeps
<1> HIDE DEF looked
<1>3. CASE EnsureApplied
  BY <1>2, <1>3, EnsuredKeeps DEF EnsureApplied, IInv, pad_vars, folder_vars, looked
<1>4. CASE HasCustomPlaylists
  BY <1>2, <1>4 DEF HasCustomPlaylists, IInv, pad_vars, folder_vars, looked
<1>5. CASE Rescan
  <2> DEFINE m == IF ~ music.scanned THEN looked
                  ELSE IF music.nextListed THEN Relisted(music) ELSE music
  <2>1. MusicInv(m) /\ (m.custom => source)
    BY <1>1, <1>2, RelistedKeeps
  <2>2. /\ music' = [m EXCEPT !.listing = TRUE]
        /\ IF m.listing THEN UNCHANGED <<always, ever>> ELSE always' = folder /\ ever' = folder
        /\ UNCHANGED <<source, pad_vars, folder, changes>>
    BY <1>5 DEF Rescan, looked
  <2> HIDE DEF m
  <2>3. MusicInv(music') /\ music'.custom = m.custom
    BY <2>1, <2>2, ListingKeeps, <1>1
  <2>4. {folder', always', ever'} \subseteq SUBSET Songs
    BY <2>2 DEF IInv
  <2> QED  BY <2>1, <2>2, <2>3, <2>4 DEF IInv, pad_vars
<1>6. CASE SetNextPlaylist
  <2>1. /\ MusicInv(music') /\ (music'.custom => source')
        /\ source' \in BOOLEAN /\ turn' \in {-1, 0, 1}
    <3>1. CASE looked.tracks = <<>>
      BY <1>2, <1>6, <3>1 DEF SetNextPlaylist, looked, IInv
    <3>2. CASE looked.tracks # <<>> /\ turn # 0 /\ looked.custom /\ PageCount(looked) > 1
      <4>1. turn' = 0 /\ music' = Apply(Turned(looked, turn)) /\ source' = source
        BY <1>6, <3>2 DEF SetNextPlaylist, looked
      <4>2. turn \in {-1, 1}
        BY <3>2 DEF IInv
      <4> QED  BY <1>1, <1>2, <3>2, <4>1, <4>2, TurnedKeeps
    <3>3. CASE looked.tracks # <<>> /\ ~ (turn # 0 /\ looked.custom /\ PageCount(looked) > 1)
      <4> DEFINE z == [looked EXCEPT !.custom = ~ @]
      <4>1. turn' = 0 /\ music' = Apply(z) /\ source' = z.custom
        BY <1>6, <3>3 DEF SetNextPlaylist, looked
      <4>2. MusicInv(Apply(z)) /\ z.custom \in BOOLEAN /\ Apply(z).custom = z.custom
        BY <1>2, <3>3, SwitchedKeeps
      <4> HIDE DEF z
      <4> QED  BY <4>1, <4>2
    <3> QED  BY <3>1, <3>2, <3>3
  <2>2. UNCHANGED <<onShow, mayTurn, folder_vars>>
    BY <1>6 DEF SetNextPlaylist
  <2> QED  BY <2>1, <2>2 DEF IInv, folder_vars
<1>7. CASE FillTable
  BY <1>7, FilledKeeps DEF FillTable, IInv, pad_vars, folder_vars
<1>8. ASSUME NEW shown \in BOOLEAN, ShowScreen(shown) PROVE IInv'
  BY <1>8 DEF ShowScreen, IInv, folder_vars
<1>9. CASE PadLooks
  BY <1>9 DEF PadLooks, IInv, folder_vars
<1>10. CASE PadAsks
  BY <1>10 DEF PadAsks, IInv, folder_vars
<1>11. CASE Listed
  <2>1. PICK S \in SUBSET ever :
          music' = [music EXCEPT !.next = Sorted[S], !.nextListed = TRUE, !.listing = FALSE]
    BY <1>11 DEF Listed
  <2>2. Sorted[S] \in Seq(Songs)
    BY SortedType DEF IInv
  <2>3. MusicInv(music') /\ music'.custom = music.custom
    BY <1>1, <2>1, <2>2, ListingKeeps
  <2> QED  BY <1>11, <2>3 DEF Listed, IInv, pad_vars, folder_vars
<1>12. CASE ChangeFolder
  <2>1. {folder', always', ever'} \subseteq SUBSET Songs
    BY <1>12 DEF ChangeFolder, IInv
  <2>2. changes' \in 0 .. MaxChanges
    BY <1>12, MaxChangesAssumption DEF ChangeFolder, IInv
  <2> QED  BY <1>12, <2>1, <2>2 DEF ChangeFolder, IInv, pad_vars
<1>13. CASE UNCHANGED vars
  BY <1>13 DEF vars, pad_vars, folder_vars, IInv
<1> QED  BY <1>3, <1>4, <1>5, <1>6, <1>7, <1>8, <1>9, <1>10, <1>11, <1>12, <1>13 DEF Next

LEMMA Invariant == Spec => []IInv
  BY InitIInv, NextIInv, PTL DEF Spec

-----------------------------------------------------------------------------
(* The properties *)

\* The variables have their types, whatever the folder and the title's threads do.
THEOREM TypeCorrect == Spec => []TypeOK
<1>1. IInv => TypeOK
  BY DEF IInv, MusicInv, TypeOK
<1> QED  BY <1>1, Invariant, PTL

\* The page on show is one of the files as they were last taken over.
THEOREM PagesInFiles == Spec => []PageInFiles
<1>1. IInv => PageInFiles
  <2> SUFFICES ASSUME IInv PROVE PageInFiles
    OBVIOUS
  <2>1. music \in Music /\ Paged(music)
    BY DEF IInv, MusicInv
  <2> QED  BY <2>1, PagedSongs DEF PageInFiles, Paged
<1> QED  BY <1>1, Invariant, PTL

\* The title's songs are in its table, all of them, while they are chosen, and
\* what is kept to put back is never the folder's.
THEOREM GamesSongsAreKept == Spec => []GamesSongsKept
<1>1. IInv => GamesSongsKept
  <2> SUFFICES ASSUME IInv PROVE GamesSongsKept
    OBVIOUS
  <2>1. Kept(music) /\ Named(music)
    BY DEF IInv, MusicInv
  <2> QED  BY <2>1, TablesDiffer DEF GamesSongsKept, Kept, Named, Filled
<1> QED  BY <1>1, Invariant, PTL

\* The folder's songs, once in the table, are chosen only while there are any.
THEOREM ChosenSongs == Spec => []ChosenHasSongs
<1>1. IInv => ChosenHasSongs
  BY DEF IInv, MusicInv, Named, ChosenHasSongs
<1> QED  BY <1>1, Invariant, PTL

\* The folder's songs are chosen only with the configuration saying so.
THEOREM ChosenAreSaved == Spec => []ChosenIsSaved
<1>1. IInv => ChosenIsSaved
  BY DEF IInv, ChosenIsSaved
<1> QED  BY <1>1, Invariant, PTL

\* What EnsureApplied leaves in the table is what XMP plays under each number.
LEMMA TablePlayed ==
  ASSUME NEW m, MusicInv(m), m.mounted, m.custom => Saved(m) \/ ~ Filled(m) \/ m.tracks = <<>>,
         NEW i \in 1 .. m.table.count
  PROVE  m.table.names[i] = Played(m, i)
<1>1. m \in Music /\ m.table.count \in Nat /\ Paged(m)
  BY DEF MusicInv, Music, Tables
<1>2. CASE m.custom /\ Saved(m)
  <2> DEFINE n == Len(m.tracks)
  <2>1. m.tracks # <<>> /\ m.table.count = n /\ m.table.names[i] = m.tracks[i]
    BY <1>2 DEF MusicInv, Named
  <2>2. n \in Nat /\ i \in 1 .. n
    BY <1>1, <2>1 DEF Music
  <2>3. ((i - 1) % n) + 1 = i
    <3> HIDE DEF n
    <3> QED  BY <2>2
  <2> QED  BY <1>2, <2>1, <2>3 DEF Played
<1>3. CASE ~ (m.custom /\ Saved(m))
  <2>1. m.table \in {NoTable, GamesTable}
    BY <1>3 DEF MusicInv, Named
  <2>2. m.table = GamesTable
    BY <1>1, <2>1, TablesDiffer
  <2>3. ~ m.custom \/ m.tracks = <<>>
    BY <1>3, <2>2, TablesDiffer, SlotsType DEF Filled
  <2> QED  BY <2>2, <2>3, TablesDiffer DEF Played
<1> QED  BY <1>2, <1>3

\* Each song that the title reads of in its table is the one that is played under
\* its number.
THEOREM ShownArePlayed == Spec => []ShownIsPlayed
<1>1. IInv => ShownIsPlayed
  <2> SUFFICES ASSUME IInv, music.mounted
               PROVE  LET m == Ensured(music) IN
                      \A i \in 1 .. m.table.count : m.table.names[i] = Played(m, i)
    BY DEF ShownIsPlayed
  <2>1. MusicInv(music) /\ music.scanned
    BY DEF IInv, MusicInv, Unlooked
  <2>2. LET e == Ensured(music) IN
        /\ MusicInv(e) /\ e.mounted
        /\ e.custom => Saved(e) \/ ~ Filled(e) \/ e.tracks = <<>>
    BY <2>1, EnsuredKeeps
  <2> QED  BY <2>2, TablePlayed
<1> QED  BY <1>1, Invariant, PTL
=============================================================================
