----------------------------- MODULE MCPlanning -----------------------------
(* Libraries and tonies for the checking of module Planning. *)
EXTENDS Planning

CONSTANTS a1, a2

SingleAndSerial == a1 :> "single" @@ a2 :> "serial"
TwoSingles      == a1 :> "single" @@ a2 :> "single"

Lengths == <<2, 3, 5>>
Even    == <<2, 2, 2>>

\* The middle one comes from a feed, the last from a playlist.
Mixed == <<"FOLDER_FILE", "RSS", "PLAYLIST_ENTRY">>
Files == <<"FOLDER_FILE", "FOLDER_FILE", "FOLDER_FILE">>

\* One permutation for each number of eligible stories.
Permutations3 == << <<1>>, <<2, 1>>, <<3, 1, 2>> >>
=============================================================================
