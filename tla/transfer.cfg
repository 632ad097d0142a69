\* Two libraries, three keys and two tonies: every one of four stores meets the
\* document of every other and its own, with two edits of the store or of the
\* document and one import that dies.
SPECIFICATION Spec
CONSTANTS
  Names = {1, 2}
  Keys = {1, 2, 3}
  Tonies = {1, 2}
  Values = {1, 2}
  Stores <- Contents
  MaxEdits = 2
  MaxFaults = 1
PROPERTY ImportsMerge
PROPERTY RoundTrip
PROPERTY PreviewTells
