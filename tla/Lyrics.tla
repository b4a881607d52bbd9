------------------------------- MODULE Lyrics -------------------------------
(* What a client gets: the lyrics that a call of SongLyrics returns, parsed  *)
(* and turned into tracks.                                                   *)
EXTENDS LyricsCache, LyricsText

CONSTANTS Paragraphs, Documents   \* those Apple may send

ASSUME ParagraphsAssumption == Paragraphs \subseteq Seq(String)
ASSUME DocumentsAssumption == Documents \subseteq Document

CuesRightAt == [timing \in {"line", "word"} |-> timing = "word" => CuesRightFor(Paragraphs)]
TracksRightAt ==
  [timing \in {"line", "word"} |-> TracksRightFor({d \in Documents : d.timing = timing})]

Returned(level) == \E c \in Calls : pc[c] = "returned" /\ answer[c] = level

\* From the word-timed lyrics a call returns, parseLyricLine makes cues whose
\* byte ranges name their words in the text of the line, in its order, and that
\* can be read one after another when they begin in order.
CuesRight == \A level \in {"line", "word"} : Returned(level) => CuesRightAt[level]

\* From the lyrics a call returns, lyricTrack makes tracks whose lines are in the
\* order of their times and whose agents are exactly those their cues name, each
\* once, with one main agent.
TracksRight == \A level \in {"line", "word"} : Returned(level) => TracksRightAt[level]
=============================================================================
