---------------------------- MODULE CustomMusic ----------------------------
(***************************************************************************)
(* The music folder in place of the title's songs (custom_music.cpp). The  *)
(* title has a table with room for Slots songs; a bigger folder is shown a *)
(* page at a time. While the folder's songs are chosen, the table holds    *)
(* the page's names, and a song asked for by its number is read from the   *)
(* folder. The folder is listed at the first look and again, in the        *)
(* background, at every visit to Song Manager.                             *)
(*                                                                         *)
(* What g_mutex guards is one record: each operation holds the mutex from  *)
(* beginning to end, and is a composition of functions of that record in   *)
(* the order of the code's calls. Others come in between two operations:   *)
(* whoever changes the folder, the thread that lists it, and the pad.      *)
(***************************************************************************)
EXTENDS Integers, Sequences

CONSTANTS
  Songs,       \* the files that may be in the folder
  Sorted,      \* a set of files in the order it is listed in
  Slots,       \* kSlots
  Own,         \* the title's own songs
  MaxChanges   \* bound on how often the folder changes

OwnSongs == {Own[i] : i \in 1 .. Slots}

ASSUME SlotsAssumption == Slots \in Nat \ {0}
ASSUME SortedAssumption == Sorted \in [SUBSET Songs -> Seq(Songs)]
ASSUME OwnAssumption == Own \in [1 .. Slots -> OwnSongs]
ASSUME MaxChangesAssumption == MaxChanges \in Nat

VARIABLES
  music,       \* what g_mutex guards, and the title's table
  source,      \* music_source = custom in the configuration
  turn,        \* g_turn
  onShow,      \* g_song_manager
  mayTurn,     \* PadFilter has found that LB and RB turn pages
  folder,      \* the files there are
  always,      \* those that were there all the time since the listing began
  ever,        \* those that were there at some time since
  changes      \* how often the folder changed

pad_vars == <<turn, onShow, mayTurn>>
folder_vars == <<folder, always, ever, changes>>
vars == <<music, source, pad_vars, folder_vars>>

\* The table as the title makes it, and before it does.
GamesTable == [names |-> Own, count |-> Slots]
NoTable == [names |-> Own, count |-> 0]

Init ==
  /\ music = [scanned |-> FALSE, mounted |-> FALSE,
              files |-> <<>>, page |-> 0, tracks |-> <<>>, strings |-> <<>>,
              next |-> <<>>, nextListed |-> FALSE, listing |-> FALSE,
              custom |-> FALSE, applied |-> FALSE, saved |-> NoTable, table |-> NoTable]
  /\ source \in BOOLEAN
  /\ turn = 0 /\ onShow = FALSE /\ mayTurn = FALSE
  /\ folder \in SUBSET Songs /\ always = {} /\ ever = {} /\ changes = 0

-----------------------------------------------------------------------------
(* Functions of the record *)

PageCount(m) == ((Len(m.files) + Slots) - 1) \div Slots

\* The page's place in the files; g_page itself is kept below PageCount.
PageFirst(m) == m.page * Slots
PageLast(m) == IF Len(m.files) < PageFirst(m) + Slots THEN Len(m.files) ELSE PageFirst(m) + Slots

\* Mutant of LoadPage: the names made for the page before are kept.
LoadPage_KeepsStrings(m) == [m EXCEPT !.tracks = SubSeq(m.files, PageFirst(m) + 1, PageLast(m))]

LoadPage(m) == [m EXCEPT !.tracks = SubSeq(m.files, PageFirst(m) + 1, PageLast(m)), !.strings = <<>>]

\* Mutant of Clipped: a page that the new files no longer reach stays.
Clipped_Never(m) == m

Clipped(m) ==
  IF m.page < PageCount(m) THEN m
  ELSE [m EXCEPT !.page = IF PageCount(m) # 0 THEN PageCount(m) - 1 ELSE 0]

\* Scan. XMP's path resolver and the pad's filter are set where there are songs.
Scan(m, list, chosen) ==
  IF m.scanned THEN m
  ELSE LET s == LoadPage(Clipped([m EXCEPT !.scanned = TRUE, !.files = list]))
       IN IF s.tracks = <<>> THEN s ELSE [s EXCEPT !.custom = chosen, !.mounted = TRUE]

\* SoundtrackData: nothing until the title has filled its table.
Filled(m) == m.table.count # 0
Saved(m) == m.saved # NoTable

\* The page's names over the first places of the table.
WithNames(m, names) ==
  [names |-> [i \in 1 .. Slots |-> IF i <= Len(m.tracks) THEN names[i] ELSE m.table.names[i]],
   count |-> Len(m.tracks)]

\* Mutant of Apply: the table is kept to put back each time, whoever's it is.
Apply_SavesAgain(m) ==
  IF ~Filled(m) \/ m.tracks = <<>> THEN m
  ELSE LET k == [m EXCEPT !.saved = m.table, !.applied = TRUE]
           names == IF k.strings = <<>> THEN k.tracks ELSE k.strings
       IN IF m.custom THEN [k EXCEPT !.strings = names, !.table = WithNames(k, names)]
          ELSE [k EXCEPT !.table = k.saved]

Apply(m) ==
  IF ~Filled(m) \/ m.tracks = <<>> THEN m
  ELSE LET k == [m EXCEPT !.saved = IF Saved(m) THEN @ ELSE m.table, !.applied = TRUE]
           names == IF k.strings = <<>> THEN k.tracks ELSE k.strings
       IN IF m.custom THEN [k EXCEPT !.strings = names, !.table = WithNames(k, names)]
          ELSE [k EXCEPT !.table = k.saved]

\* EnsureApplied, after its Scan.
Ensured(m) == IF m.custom /\ (~m.applied \/ Filled(m) # Saved(m)) THEN Apply(m) ELSE m

\* The folder emptied: the title's songs are back, if they ever made way.
Emptied(m, had) == IF had /\ Saved(m) THEN [m EXCEPT !.custom = FALSE, !.table = m.saved] ELSE m

\* Rescan's listing taken over, if it says anything new.
Relisted(m) ==
  LET k == [m EXCEPT !.nextListed = FALSE]
      s == LoadPage(Clipped([k EXCEPT !.files = m.next]))
  IN IF m.next = m.files THEN k
     ELSE IF s.tracks = <<>> THEN Emptied(s, m.tracks # <<>>)
     ELSE IF s.custom THEN Apply(s)
     ELSE s

\* The page by places further, round from the last to the first.
Turned(m, by) == LoadPage([m EXCEPT !.page = (m.page + by + PageCount(m)) % PageCount(m)])

-----------------------------------------------------------------------------
(* The title's threads, one at a time under the mutex *)

\* Whatever asks for the table or the songs first: Prepare, each frame, the
\* count and the strings as they are read, and the soundtrack's object as it is set.
EnsureApplied ==
  /\ music' = Ensured(Scan(music, Sorted[folder], source))
  /\ UNCHANGED <<source, pad_vars, folder_vars>>

\* HasCustomPlaylists.
HasCustomPlaylists ==
  /\ music' = Scan(music, Sorted[folder], source)
  /\ UNCHANGED <<source, pad_vars, folder_vars>>

\* Song Manager's movie is loaded. The listing made since the last visit is
\* taken, and the next one begins.
Rescan ==
  LET m == IF ~music.scanned THEN Scan(music, Sorted[folder], source)
           ELSE IF music.nextListed THEN Relisted(music)
           ELSE music
  IN /\ music' = [m EXCEPT !.listing = TRUE]
     /\ IF m.listing THEN UNCHANGED <<always, ever>> ELSE always' = folder /\ ever' = folder
     /\ UNCHANGED <<source, pad_vars, folder, changes>>

\* SetNextPlaylist: a page turn that was asked for, or the other songs.
SetNextPlaylist ==
  LET m == Scan(music, Sorted[folder], source)
      turns == turn # 0 /\ m.custom /\ PageCount(m) > 1
      switched == [m EXCEPT !.custom = ~@]
  IN /\ IF m.tracks = <<>> THEN music' = m /\ UNCHANGED <<turn, source>>
        ELSE /\ turn' = 0
             /\ music' = Apply(IF turns THEN Turned(m, turn) ELSE switched)
             /\ source' = IF turns THEN source ELSE switched.custom
     /\ UNCHANGED <<onShow, mayTurn, folder_vars>>

\* The soundtrack is made, once.
FillTable ==
  /\ ~Filled(music)
  /\ music' = [music EXCEPT !.table = GamesTable]
  /\ UNCHANGED <<source, pad_vars, folder_vars>>

\* SetSongManagerShown.
ShowScreen(shown) ==
  /\ onShow' = shown
  /\ UNCHANGED <<music, source, turn, mayTurn, folder_vars>>

-----------------------------------------------------------------------------
(* The other threads, and the folder *)

\* PadFilter's tests, one of them under the mutex.
PadLooks ==
  /\ music.mounted /\ onShow /\ music.custom /\ PageCount(music) > 1
  /\ mayTurn' = TRUE
  /\ UNCHANGED <<music, source, turn, onShow, folder_vars>>

\* And, with the mutex free again, what LB or RB asks for, if they were pressed.
PadAsks ==
  /\ mayTurn /\ mayTurn' = FALSE
  /\ turn' \in {turn, -1, 1}
  /\ UNCHANGED <<music, source, onShow, folder_vars>>

\* The listing is done, of a folder that may have changed under it.
\* Mutant: the thread does not say that it has ended.
Listed_StillListing ==
  /\ music.listing
  /\ \E S \in SUBSET ever :
       /\ always \subseteq S
       /\ music' = [music EXCEPT !.next = Sorted[S], !.nextListed = TRUE]
  /\ UNCHANGED <<source, pad_vars, folder_vars>>

Listed ==
  /\ music.listing
  /\ \E S \in SUBSET ever :
       /\ always \subseteq S
       /\ music' = [music EXCEPT !.next = Sorted[S], !.nextListed = TRUE, !.listing = FALSE]
  /\ UNCHANGED <<source, pad_vars, folder_vars>>

\* Files come and go; a share that does not answer is a folder without any.
ChangeFolder ==
  /\ changes < MaxChanges /\ changes' = changes + 1
  /\ folder' \in SUBSET Songs
  /\ always' = always \cap folder' /\ ever' = ever \cup folder'
  /\ UNCHANGED <<music, source, pad_vars>>

Next ==
  \/ EnsureApplied \/ HasCustomPlaylists \/ Rescan \/ SetNextPlaylist \/ FillTable
  \/ \E shown \in BOOLEAN : ShowScreen(shown)
  \/ PadLooks \/ PadAsks \/ Listed \/ ChangeFolder

Spec == Init /\ [][Next]_vars

\* The listing thread runs, and Song Manager is visited now and then.
FairSpec == Spec /\ WF_vars(Listed) /\ WF_vars(Rescan)

-----------------------------------------------------------------------------
(* Properties *)

Tables == [names : [1 .. Slots -> Songs \cup OwnSongs], count : 0 .. Slots]

Music == [scanned : BOOLEAN, mounted : BOOLEAN,
          files : Seq(Songs), page : Nat, tracks : Seq(Songs), strings : Seq(Songs),
          next : Seq(Songs), nextListed : BOOLEAN, listing : BOOLEAN,
          custom : BOOLEAN, applied : BOOLEAN, saved : Tables, table : Tables]

\* The variables have their types.
TypeOK ==
  /\ music \in Music
  /\ source \in BOOLEAN
  /\ turn \in {-1, 0, 1} /\ onShow \in BOOLEAN /\ mayTurn \in BOOLEAN
  /\ {folder, always, ever} \subseteq SUBSET Songs
  /\ changes \in 0 .. MaxChanges

\* The file that song i is read from: XMP's path resolver. The title's numbers
\* begin with 0 (NN.wma), and begin again where the page is not full.
Played(m, i) ==
  IF m.mounted /\ m.custom /\ m.tracks # <<>> THEN m.tracks[((i - 1) % Len(m.tracks)) + 1] ELSE Own[i]

\* Whatever was listed, turned, switched or emptied since: once the folder had
\* songs at the first look, each song that the title reads of in its table (which
\* EnsureApplied puts right first) is the one that is played under its number.
ShownIsPlayed ==
  music.mounted => LET m == Ensured(music) IN
                   \A i \in 1 .. m.table.count : m.table.names[i] = Played(m, i)

\* The title's songs are not lost: while they are chosen, the table holds them,
\* all of them, however often the folder's were there in between, and what is
\* kept to put back is never the folder's.
GamesSongsKept ==
  /\ Filled(music) /\ ~music.custom => music.table = GamesTable
  /\ music.saved \in {NoTable, GamesTable}

\* The page on show is a page of the files as they were last taken over, and
\* not one past their end.
PageInFiles ==
  /\ music.tracks = SubSeq(music.files, PageFirst(music) + 1, PageLast(music))
  /\ music.files # <<>> => music.tracks # <<>>

\* Once the folder's songs were in the table, they are chosen only while there are any.
ChosenHasSongs == music.custom /\ Saved(music) => music.tracks # <<>>

\* A restart plays the folder's songs if they are chosen now: the configuration
\* says so from the step on in which they come to be.
ChosenIsSaved == music.custom => source

\* Once the folder changes no more, visits come to show it as it is, whatever
\* it was while earlier listings went through it.
FolderIsShown == <>[](music.files = Sorted[folder])
=============================================================================
