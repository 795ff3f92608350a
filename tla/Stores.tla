-------------------------------- MODULE Stores --------------------------------
(***************************************************************************)
(* What the App keeps in files beside the program: its settings, the look   *)
(* presets and the playlists.  A file is written under a temporary name and *)
(* renamed over the old one; each step may fail, and the program may die    *)
(* between two of them.  Settings are saved by themselves at the end of a   *)
(* frame and when the App closes, the others when the user says so.         *)
(*                                                                         *)
(* A file is a sequence of lines: `name = value`, or the head of a section. *)
(* Of the settings there are the API's switch, the window's place, the look *)
(* (what a preset holds), the default of new devices and one device's own.  *)
(***************************************************************************)
EXTENDS Naturals, Sequences, SequencesExt

CONSTANTS MaxEdits, MaxEnds   \* bounds: acts of the user, ends of the program

ASSUME StoresAssumption == MaxEdits \in Nat /\ MaxEnds \in Nat

Playlists == {"list", "other"}
Stored == {"settings", "preset"} \union Playlists

VARIABLES
  program,        \* "runs", "closing" or "closed"
  shown,          \* the settings the App works with, current_settings()
  saved_settings, \* saved_settings_
  window_moving,
  playlist,       \* playlist_, playlist_name_input_ (typed), playlist_dirty_
  saving,         \* the file that is being written
  disk,           \* the files: which exist, and their lines
  past,           \* history: whether the last save of the settings failed, the open
                  \* playlist's file was deleted, the program died; the texts saved
  edits, ends

storesVars == <<program, shown, saved_settings, window_moving, playlist, saving, disk, past, edits, ends>>

-----------------------------------------------------------------------------
(* The files' lines                                                        *)

Head1(name) == [head |-> TRUE, name |-> name, value |-> 0]
Assign(name, value) == [head |-> FALSE, name |-> name, value |-> value]

Defaults == [api |-> 0, place |-> 0, look |-> 0, default |-> 0, device |-> {}]

LookText(s) == <<Assign("look", s.look)>>

Section(name, value) == <<Head1(name), Assign("hid", value)>>

\* save_settings(): "The sections come last: every line after one belongs to it."
SettingsText(s) ==
  <<Assign("api", s.api), Assign("place", s.place)>> \o LookText(s)
  \o Section("default", s.default)
  \o (IF s.device = {} THEN <<>> ELSE Section("device", CHOOSE v \in s.device : TRUE))

\* One line of read_lines(): `to` is the section it is in.  A device's section starts
\* from the default read so far; a name that is not known where it stands is left out.
ReadSetting(r, line) ==
  LET v == line.value
  IN CASE line.head -> [to |-> line.name,
                        s |-> IF line.name = "device" /\ r.s.device = {}
                              THEN [r.s EXCEPT !.device = {r.s.default}] ELSE r.s]
       [] r.to = "" /\ line.name = "api"         -> [r EXCEPT !.s.api = v]
       [] r.to = "" /\ line.name = "place"       -> [r EXCEPT !.s.place = v]
       [] r.to = "" /\ line.name = "look"        -> [r EXCEPT !.s.look = v]
       [] r.to = "default" /\ line.name = "hid"  -> [r EXCEPT !.s.default = v]
       [] r.to = "device" /\ line.name = "hid"   -> [r EXCEPT !.s.device = {v}]
       [] OTHER                                  -> r

Unread(s) == [to |-> "", s |-> s]

ReadOver(text, s) ==
  LET read[n \in 0..Len(text)] ==
        IF n = 0 THEN Unread(s) ELSE ReadSetting(read[n - 1], text[n])
  IN  read[Len(text)].s

LoadSettings == IF "settings" \in disk.there THEN ReadOver(disk.text["settings"], Defaults) ELSE Defaults

PlaylistText(p) ==
  <<Assign("loops", p.loops)>> \o [i \in DOMAIN p.plays |-> Assign("play", p.plays[i])]

NoPlays == [loops |-> 0, plays |-> <<>>]

ReadPlay(p, line) ==
  IF line.name = "loops" THEN [p EXCEPT !.loops = line.value]
  ELSE [p EXCEPT !.plays = Append(@, line.value)]

ReadPlaylist(text) ==
  LET read[n \in 0..Len(text)] ==
        IF n = 0 THEN NoPlays ELSE ReadPlay(read[n - 1], text[n])
  IN  read[Len(text)]

NewPlaylist == [name |-> "", typed |-> "", loops |-> 0, plays |-> <<>>, dirty |-> FALSE]

-----------------------------------------------------------------------------

Idle == [step |-> "no", file |-> "settings", text |-> <<>>, temporary |-> <<>>]

\* App::App(): saved_settings_ is what was read; the API may then not come up.
Started(loaded, api_fails) ==
  /\ program' = "runs"
  /\ shown' = IF api_fails THEN [loaded EXCEPT !.api = 0] ELSE loaded
  /\ saved_settings' = loaded
  /\ window_moving' = FALSE /\ playlist' = NewPlaylist

\* A playlist of an earlier day may be there.
Kept == [NewPlaylist EXCEPT !.plays = <<1, 1>>, !.loops = 1]

StoresInit ==
  /\ program = "runs" /\ shown = Defaults /\ saved_settings = Defaults
  /\ window_moving = FALSE /\ playlist = NewPlaylist /\ saving = Idle
  /\ \E there \in SUBSET {"list"} :
       /\ disk = [there |-> there,
                  text  |-> [f \in Stored |-> IF f \in there THEN PlaylistText(Kept) ELSE <<>>]]
       /\ past = [failed |-> FALSE, deleted |-> FALSE, died |-> FALSE,
                  texts |-> there \X {PlaylistText(Kept)}]
  /\ edits = 0 /\ ends = 0

StartProgram ==
  /\ program = "closed"
  /\ \E fails \in BOOLEAN : Started(LoadSettings, fails)
  /\ past' = [past EXCEPT !.failed = FALSE, !.deleted = FALSE, !.died = FALSE]
  /\ UNCHANGED <<saving, disk, edits, ends>>

-----------------------------------------------------------------------------
(* write_file() and save_playlist()                                        *)

Write(file, text) ==
  /\ saving' = [step |-> "open", file |-> file, text |-> text, temporary |-> <<>>]
  /\ past' = [past EXCEPT !.texts = @ \union {<<file, text>>}]

ClosedProgram == IF program = "closing" THEN "closed" ELSE program

\* What the caller makes of it: persist_settings() takes the settings for saved even when
\* they were not (it says so once); a playlist stays as unsaved as it was.
SaveEnds(ok) ==
  /\ saving' = Idle
  /\ program' = IF saving.file = "settings" THEN ClosedProgram ELSE program
  /\ saved_settings' = IF saving.file = "settings" THEN shown ELSE saved_settings
  /\ past' = IF saving.file = "settings" THEN [past EXCEPT !.failed = ~ok]
             ELSE IF ok /\ saving.file \in Playlists THEN [past EXCEPT !.deleted = FALSE] ELSE past
  /\ playlist' = IF ok /\ saving.file \in Playlists
                 THEN [playlist EXCEPT !.name = saving.file, !.dirty = FALSE] ELSE playlist

StaysOpen == UNCHANGED <<program, shown, saved_settings, window_moving, playlist, past, edits, ends>>

OpenTemporary ==
  /\ saving.step = "open"
  /\ \/ saving' = [saving EXCEPT !.step = "write", !.temporary = <<>>] /\ StaysOpen
     \/ SaveEnds(FALSE) /\ UNCHANGED <<shown, window_moving, edits, ends>>
  /\ UNCHANGED disk

\* Variant: the rename does not wait to hear that everything was written.
WriteUnchecked ==
  /\ saving.step = "write"
  /\ \E n \in 0..Len(saving.text) :
       saving' = [saving EXCEPT !.step = "rename", !.temporary = SubSeq(saving.text, 1, n)]
  /\ StaysOpen
  /\ UNCHANGED disk

\* The disk may be full: part of the text is in the temporary file, which stays.
WriteTemporary ==
  /\ saving.step = "write"
  /\ \/ saving' = [saving EXCEPT !.step = "rename", !.temporary = saving.text] /\ StaysOpen
     \/ SaveEnds(FALSE) /\ UNCHANGED <<shown, window_moving, edits, ends>>
  /\ UNCHANGED disk

RenameOver ==
  /\ saving.step = "rename"
  /\ \/ /\ disk' = [there |-> disk.there \union {saving.file},
                    text |-> [disk.text EXCEPT ![saving.file] = saving.temporary]]
        /\ SaveEnds(TRUE)
     \/ SaveEnds(FALSE) /\ UNCHANGED disk
  /\ UNCHANGED <<shown, window_moving, edits, ends>>

-----------------------------------------------------------------------------
(* Frames, and the end of the program                                      *)

\* The end of a frame with no item active.
Persist ==
  /\ program = "runs" /\ saving = Idle
  /\ ~window_moving /\ shown # saved_settings
  /\ Write("settings", SettingsText(shown))
  /\ UNCHANGED <<program, shown, saved_settings, window_moving, playlist, disk, edits, ends>>

\* ~App(): a window that still moved is saved where it is.
CloseApp ==
  /\ program = "runs" /\ saving = Idle /\ ends < MaxEnds /\ ends' = ends + 1
  /\ window_moving' = FALSE
  /\ IF shown # saved_settings
     THEN program' = "closing" /\ Write("settings", SettingsText(shown))
     ELSE program' = "closed" /\ UNCHANGED <<saving, past>>
  /\ UNCHANGED <<shown, saved_settings, playlist, disk, edits>>

\* The process dies, in the middle of a save too.
ProgramDies ==
  /\ program # "closed" /\ ends < MaxEnds /\ ends' = ends + 1
  /\ program' = "closed" /\ saving' = Idle
  /\ past' = [past EXCEPT !.died = TRUE]
  /\ UNCHANGED <<shown, saved_settings, window_moving, playlist, disk, edits>>

-----------------------------------------------------------------------------
(* The user                                                                *)

Edits ==
  /\ program = "runs" /\ saving = Idle
  /\ edits < MaxEdits /\ edits' = edits + 1
  /\ UNCHANGED <<program, saved_settings, ends>>

\* set_window_geometry(), on every frame; the same place again ends the move.
MoveWindow ==
  /\ Edits
  /\ window_moving' = TRUE /\ shown' = [shown EXCEPT !.place = 1 - @]
  /\ UNCHANGED <<playlist, saving, disk, past>>

WindowRests ==
  /\ program = "runs" /\ saving = Idle /\ window_moving /\ window_moving' = FALSE
  /\ UNCHANGED <<program, shown, saved_settings, playlist, saving, disk, past, edits, ends>>

ChangeSettings ==
  /\ Edits
  /\ shown' \in { [shown EXCEPT !.api = 1 - @], [shown EXCEPT !.look = 1 - @],
                  [shown EXCEPT !.default = 1 - @] }
               \union {[shown EXCEPT !.device = {v}] : v \in {0, 1}}
  /\ UNCHANGED <<window_moving, playlist, saving, disk, past>>

SavePreset ==
  /\ Edits /\ Write("preset", LookText(shown))
  /\ UNCHANGED <<shown, window_moving, playlist, disk>>

\* load_theme() reads over the current settings; apply_look() takes the look of it.
ApplyPreset ==
  /\ Edits /\ "preset" \in disk.there
  /\ shown' = [shown EXCEPT !.look = ReadOver(disk.text["preset"], shown).look]
  /\ UNCHANGED <<window_moving, playlist, saving, disk, past>>

\* delete_theme() and delete_playlist(); the open playlist stays as it is.
DeleteFile(f) ==
  /\ Edits /\ f \in disk.there
  /\ disk' = [there |-> disk.there \ {f}, text |-> [disk.text EXCEPT ![f] = <<>>]]
  /\ past' = [past EXCEPT !.deleted = @ \/ f = playlist.name]
  /\ UNCHANGED <<shown, window_moving, playlist, saving>>

\* load_playlist_named(): what was not saved is gone.
OpenPlaylist(f) ==
  /\ Edits /\ f \in disk.there
  /\ LET read == ReadPlaylist(disk.text[f])
     IN playlist' = [name |-> f, typed |-> f, loops |-> read.loops, plays |-> read.plays,
                     dirty |-> FALSE]
  /\ past' = [past EXCEPT !.deleted = FALSE]
  /\ UNCHANGED <<shown, window_moving, saving, disk>>

\* Scripts added, moved and removed, the loops, and the name it will have.
EditPlaylist ==
  /\ Edits
  /\ playlist' \in
       {[playlist EXCEPT !.plays = Append(@, 1), !.dirty = TRUE],
        [playlist EXCEPT !.plays = IF @ = <<>> THEN @ ELSE Tail(@), !.dirty = TRUE],
        [playlist EXCEPT !.loops = 1 - @, !.dirty = TRUE]}
       \union {[playlist EXCEPT !.typed = f, !.dirty = TRUE] : f \in Playlists}
  /\ UNCHANGED <<shown, window_moving, saving, disk, past>>

SavePlaylist ==
  /\ Edits /\ playlist.plays # <<>> /\ playlist.typed # ""
  /\ Write(playlist.typed, PlaylistText(playlist))
  /\ UNCHANGED <<shown, window_moving, playlist, disk>>

StoresNext ==
  \/ StartProgram \/ OpenTemporary \/ WriteTemporary \/ RenameOver
  \/ Persist \/ CloseApp \/ ProgramDies \/ WindowRests
  \/ MoveWindow \/ ChangeSettings \/ SavePreset \/ ApplyPreset \/ EditPlaylist \/ SavePlaylist
  \/ \E f \in {"preset"} \union Playlists : DeleteFile(f)
  \/ \E f \in Playlists : OpenPlaylist(f)

StoresSpec == StoresInit /\ [][StoresNext]_storesVars

-----------------------------------------------------------------------------

\* "Written to a temporary file and renamed over the old one, so a crash never leaves a
\* half-written file": every file is one that was meant, whole.  The settings the App
\* takes for saved, and those it had when it closed, read back from the disk as they
\* were, unless that save failed; and so does a playlist that is shown as kept, unless
\* its file was deleted.
SavedIsOnDisk ==
  /\ \A f \in disk.there : <<f, disk.text[f]>> \in past.texts
  /\ saving = Idle /\ ~past.failed /\ ~past.died
       /\ (program = "closed" \/ shown = saved_settings) => LoadSettings = shown
  /\ program = "runs" /\ saving = Idle /\ playlist.name # "" /\ ~playlist.dirty /\ ~past.deleted =>
       /\ playlist.name \in disk.there
       /\ ReadPlaylist(disk.text[playlist.name]) = [loops |-> playlist.loops, plays |-> playlist.plays]

=============================================================================
