SPECIFICATION Spec
CONSTANTS
  Skins <- MCSkins
  Opened = {1, 2}
  Strip = 2
  INV_CAP = 3
  SeqWrap = 5
  MaxCases = 6
  MaxCoins = 400
  Winnings = {100}
  MaxOldCases = 0
  Notes <- MCNotes
  Bass <- MCBass
  Lyrics <- MCLyrics
  Frames <- MCFrames
  BOX_LYRIC_W = 2
  BOX_LYRIC_H = 2
INVARIANTS TypeOK PaidIsGot ListsInOrder SpeakerQuiet CuesTaken BoxKept
PROPERTIES SungWhole SongEnds
