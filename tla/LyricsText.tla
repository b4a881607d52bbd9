----------------------------- MODULE LyricsText -----------------------------
(* From a TTML document to the tracks of getLyricsBySongId: the texts and    *)
(* byte offsets of vocalBuilder, the times of vocal(), the lines and tracks  *)
(* of ParseTTML, and the cue lines and agents of lyricTrack.  All of it is   *)
(* pure, so everything here is an operator.  A document is taken after the   *)
(* XML decoder: a paragraph is the sequence of its strings, each with the    *)
(* layer ("bg" inside an x-bg span) and the times of the span around it.     *)
EXTENDS Integers, Sequences, SequencesExt, FiniteSets

CONSTANTS Words,     \* white-space-free strings
          Bytes,     \* word -> its length in UTF-8
          AgentIDs,  \* the singers' identifiers in documents
          Keys,      \* the lines' keys
          None       \* the core of a blank string; an agent or a key left out

Space == " "
BgAgent == "bg"
NoTime == -1

ASSUME BytesAssumption == Bytes \in [Words -> Nat \ {0}] /\ Space \notin Words
ASSUME NoneAssumption == None \notin Words \cup AgentIDs \cup Keys
\* lyricTrack's agent of the background is no document's ("v1", "v2000" in Apple's).
ASSUME AgentsAssumption == BgAgent \notin AgentIDs \cup {"main"}

\* What the XML decoder leaves of a document.
String == [layer : {"main", "bg"}, lead : BOOLEAN, core : Words \cup {None}, trail : BOOLEAN,
           begin : Seq(Nat), end : Seq(Nat)]
Paragraph == [key : Keys \cup {None}, agent : AgentIDs \cup {None}, begin : Seq(Nat),
              strings : Seq(String)]
Document == [timing : {"word", "line", "none"}, agents : Seq([id : AgentIDs, type : STRING]),
             body : Seq(Paragraph), texts : Seq([key : Keys, strings : Seq(String)])]

\* parseTTMLTime: "s", "m:s" or "h:m:s", here the numbers between the colons.
ParseTime(parts) ==
  LET total[i \in 0 .. Len(parts)] == IF i = 0 THEN 0 ELSE total[i - 1] * 60 + parts[i]
  IN  IF Len(parts) \in 1 .. 3 THEN total[Len(parts)] ELSE NoTime

-----------------------------------------------------------------------------
(* vocalBuilder *)

EmptyBuilder == [text |-> <<>>, size |-> 0, pending |-> FALSE, syllables |-> <<>>]

Spaced(b, s) == b.pending \/ (s.lead /\ b.size > 0)

Mutant_StartBeforeSpace(b, s) == b.size

StartOf(b, s) == b.size + (IF Spaced(b, s) THEN 1 ELSE 0)

\* A blank string only asks for a space; a space is written before the next
\* word, never at the start.
Add(b, s, timed) ==
  LET start == StartOf(b, s)
      last == start + Bytes[s.core] - 1
  IN
  IF s.core = None THEN [b EXCEPT !.pending = @ \/ b.size > 0]
  ELSE [text |-> b.text \o (IF Spaced(b, s) THEN <<Space>> ELSE <<>>) \o <<s.core>>,
        size |-> b.size + (IF Spaced(b, s) THEN 1 ELSE 0) + Bytes[s.core],
        pending |-> s.trail,
        syllables |-> IF ~timed THEN b.syllables
                      ELSE Append(b.syllables, [begin |-> s.begin, end |-> s.end, text |-> s.core,
                                                byteStart |-> start, byteEnd |-> last])]

AtMost(x, y) == IF x > y THEN y ELSE x
AtLeast(x, y) == IF x < y THEN y ELSE x

\* A missing end is the next beginning, or its own after the last; no end is
\* past the next beginning or before its own.
End(syllables, i) ==
  LET s == syllables[i]
      more == i < Len(syllables)
      filled == IF s.end >= 0 THEN s.end
                ELSE IF more THEN syllables[i + 1].begin ELSE s.begin
  IN  AtLeast(IF more THEN AtMost(filled, syllables[i + 1].begin) ELSE filled, s.begin)

Vocal(b) ==
  [text |-> b.text,
   syllables |-> [i \in 1 .. Len(b.syllables) |->
                    [b.syllables[i] EXCEPT !.end = End(b.syllables, i)]]]

\* A string of the layer, as walkLyricNode hands it on: spans are syllables in
\* word-timed documents.
Handed(b, s, wordTimed) ==
  LET begin == ParseTime(s.begin)
  IN  Add(b, [s EXCEPT !.begin = begin, !.end = ParseTime(@)], wordTimed /\ begin # NoTime)

\* parseLyricLine: the builder of a layer after each string of the paragraph.
Built(strings, layer, wordTimed) ==
  LET built[i \in 0 .. Len(strings)] ==
        IF i = 0 THEN EmptyBuilder
        ELSE IF strings[i].layer = layer THEN Handed(built[i - 1], strings[i], wordTimed)
        ELSE built[i - 1]
  IN  built

ParseVocal(strings, layer, wordTimed) == Vocal(Built(strings, layer, wordTimed)[Len(strings)])

-----------------------------------------------------------------------------
(* ParseTTML *)

\* LyricLine.Text
LineText(line) ==
  line.main.text \o (IF line.main.text # <<>> /\ line.bg.text # <<>> THEN <<Space>> ELSE <<>>)
    \o line.bg.text

ParseLine(p, wordTimed) ==
  [key |-> p.key, agent |-> p.agent,
   begin |-> ParseTime(p.begin),
   main |-> ParseVocal(p.strings, "main", wordTimed),
   bg |-> ParseVocal(p.strings, "bg", wordTimed)]

HasText(line) == LineText(line) # <<>>

\* The elements of s at the places I, each after as many as come before its place.
Arranged(s, I, before) ==
  [k \in 1 .. Cardinality(I) |->
     s[CHOOSE i \in I : Cardinality({j \in I : <<j, i>> \in before}) = k - 1]]

Kept(s, I) == Arranged(s, I, {p \in I \X I : p[1] < p[2]})

WithText(lines) == Kept(lines, {i \in DOMAIN lines : HasText(lines[i])})

\* sort.SliceStable by Begin: equal beginnings stay in document order.
Before(lines) ==
  LET Begin(i) == lines[i].begin
  IN  {p \in (DOMAIN lines) \X (DOMAIN lines) :
         Begin(p[1]) < Begin(p[2]) \/ (Begin(p[1]) = Begin(p[2]) /\ p[1] < p[2])}

SortLines(lines) == Arranged(lines, DOMAIN lines, Before(lines))

\* parseLyricTrack: the texts of a translation, by the keys of the main lines.
ParseTrack(texts, lines, wordTimed) ==
  LET Mine(key) == {i \in DOMAIN texts : texts[i].key = key}
      Known(line) == line.key # None /\ Mine(line.key) # {}
      Translated(line) ==
        LET strings == texts[Max(Mine(line.key))].strings
        IN  [line EXCEPT !.main = ParseVocal(strings, "main", wordTimed),
                         !.bg = ParseVocal(strings, "bg", wordTimed)]
      known == Kept(lines, {i \in DOMAIN lines : Known(lines[i])})
  IN  WithText([i \in DOMAIN known |-> Translated(known[i])])

ParseTTML(doc) ==
  LET wordTimed == doc.timing = "word"
      all == [i \in DOMAIN doc.body |-> ParseLine(doc.body[i], wordTimed)]
      begun == \E i \in DOMAIN all : all[i].begin # NoTime
      synced == begun /\ doc.timing # "none"
      \* A line without a begin has Begin 0, its zero value.
      timed == [i \in DOMAIN all |-> [all[i] EXCEPT !.begin = AtLeast(@, 0)]]
      texts == WithText(timed)
      lines == IF synced THEN SortLines(texts) ELSE texts
  IN  [synced |-> synced,
       wordTimed |-> wordTimed /\ synced,
       agents |-> doc.agents,
       lines |-> lines,
       translation |-> ParseTrack(doc.texts, lines, FALSE),
       pronunciation |-> ParseTrack(doc.texts, lines, wordTimed /\ synced)]

-----------------------------------------------------------------------------
(* lyricTrack *)

Sung(line) == line.main.syllables # <<>>

\* The first person of the head, else its first agent, else "main".
Lead(agents) ==
  LET persons == {i \in DOMAIN agents : agents[i].type = "person"}
  IN  IF persons # {} THEN agents[Min(persons)].id
      ELSE IF agents # <<>> THEN Head(agents).id ELSE "main"

AgentOf(line, main) == IF line.agent = None THEN main ELSE line.agent

Singing(lines) == {i \in DOMAIN lines : Sung(lines[i])}

Used(lines, agents) == {AgentOf(lines[i], Lead(agents)) : i \in Singing(lines)}

Mutant_LeadAlways(lines, agents) == Lead(agents)

\* agentRoles: a lead that does not sing here gives way to the first who does.
MainAgent(lines, agents) ==
  IF Singing(lines) = {} \/ Lead(agents) \in Used(lines, agents) THEN Lead(agents)
  ELSE AgentOf(lines[Min(Singing(lines))], Lead(agents))

Role(id, main, agents) ==
  LET mine == {i \in DOMAIN agents : agents[i].id = id}
  IN  IF id = main THEN "main"
      ELSE IF mine # {} /\ agents[Max(mine)].type = "group" THEN "group" ELSE "voice"

\* cueLine: from the first syllable's beginning to the last one's end.
CueLine(i, vocal, agent) ==
  [index |-> i, agent |-> agent, value |-> vocal.text, cues |-> vocal.syllables,
   start |-> Head(vocal.syllables).begin, end |-> Last(vocal.syllables).end]

CueLines(lines, main, withAgents) ==
  LET Of(i) ==
        (IF Sung(lines[i])
           THEN <<CueLine(i, lines[i].main, IF withAgents THEN AgentOf(lines[i], main) ELSE None)>>
           ELSE <<>>)
        \o (IF lines[i].bg.syllables # <<>> THEN <<CueLine(i, lines[i].bg, BgAgent)>> ELSE <<>>)
  IN  FlattenSeq([i \in DOMAIN lines |-> Of(i)])

\* Agents of the head in its order, then those that only lines name; the map's
\* order of the latter is any.
Agents(used, main, agents, hasBg) ==
  LET first == {i \in DOMAIN agents : agents[i].id \in used
                  /\ \A j \in 1 .. i - 1 : agents[j].id # agents[i].id}
      headed == {agents[i].id : i \in first}
      inHead == Kept(agents, first)
      rest == used \ (headed \cup {main})
      Entry(id) == [id |-> id, role |-> Role(id, main, agents)]
  IN  (IF main \in used \ headed THEN <<Entry(main)>> ELSE <<>>)
        \o [k \in DOMAIN inHead |-> Entry(inHead[k].id)]
        \o [k \in 1 .. Cardinality(rest) |-> Entry(SetToSeq(rest)[k])]
        \o (IF hasBg THEN <<[id |-> BgAgent, role |-> "bg"]>> ELSE <<>>)

LyricTrack(lines, agents, synced, cues) ==
  LET main == MainAgent(lines, agents)
      used == Used(lines, agents)
      hasBg == \E i \in DOMAIN lines : lines[i].bg.syllables # <<>>
      withAgents == Cardinality(used) > 1 \/ hasBg
      cueLines == IF synced /\ cues THEN CueLines(lines, main, withAgents) ELSE <<>>
  IN  [lines |-> [i \in DOMAIN lines |-> [value |-> LineText(lines[i]),
                                          start |-> IF synced THEN lines[i].begin ELSE NoTime]],
       cueLines |-> cueLines,
       agents |-> IF cueLines # <<>> /\ withAgents THEN Agents(used, main, agents, hasBg)
                  ELSE <<>>]

\* structuredLyrics for an enhanced request: main, translation, pronunciation.
StructuredLyrics(lyrics) ==
  {LyricTrack(lyrics.lines, lyrics.agents, lyrics.synced, lyrics.wordTimed),
   LyricTrack(lyrics.translation, lyrics.agents, lyrics.synced, FALSE),
   LyricTrack(lyrics.pronunciation, lyrics.agents, lyrics.synced, lyrics.wordTimed)}

-----------------------------------------------------------------------------
(* What is promised of them *)

BytesOf(w) == IF w = Space THEN 1 ELSE Bytes[w]

\* The offset after each piece of a text.
Offsets(text) ==
  LET after[i \in 0 .. Len(text)] == IF i = 0 THEN 0 ELSE after[i - 1] + BytesOf(text[i])
  IN  after

\* The bytes from byteStart to byteEnd of the text are the syllable's.
Names(text, s) ==
  \E i \in DOMAIN text :
    /\ text[i] = s.text
    /\ s.byteStart = Offsets(text)[i - 1]
    /\ s.byteEnd = Offsets(text)[i] - 1

OffsetsExact(vocal) ==
  /\ \A s \in ToSet(vocal.syllables) : Names(vocal.text, s)
  /\ \A i \in 1 .. Len(vocal.syllables) - 1 :
       vocal.syllables[i].byteEnd < vocal.syllables[i + 1].byteStart

InOrder(syllables) ==
  \A i \in 1 .. Len(syllables) - 1 : syllables[i].begin <= syllables[i + 1].begin

\* Cues "can be read sequentially": none ends before it begins or after the
\* next begins.
Readable(syllables) ==
  /\ \A i \in 1 .. Len(syllables) : syllables[i].begin <= syllables[i].end
  /\ \A i \in 1 .. Len(syllables) - 1 : syllables[i].end <= syllables[i + 1].begin

\* Whatever strings, blanks and spans a line is made of, the byte range of each
\* cue names its word in the collapsed text, and cues that begin in order can be
\* read one after another.
CuesRightFor(paragraphs) ==
  \A p \in paragraphs, layer \in {"main", "bg"} :
    LET vocal == ParseVocal(p, layer, TRUE)
    IN  OffsetsExact(vocal) /\ (InOrder(vocal.syllables) => Readable(vocal.syllables))

\* The agents of a track are those of its cue lines, each once, exactly one of
\* them the main one unless only the background sings.
AgentsMatch(track) ==
  LET named == {cl.agent : cl \in ToSet(track.cueLines)}
  IN  track.agents # <<>> =>
        /\ {a.id : a \in ToSet(track.agents)} = named
        /\ \A i, j \in DOMAIN track.agents : track.agents[i].id = track.agents[j].id => i = j
        /\ named # {BgAgent} =>
             Cardinality({i \in DOMAIN track.agents : track.agents[i].role = "main"}) = 1

\* Every track tells its lines in the order of their times, and what it says of
\* a track's agents is true of its cue lines.
TracksRightFor(documents) ==
  \A doc \in documents : \A track \in StructuredLyrics(ParseTTML(doc)) :
    /\ AgentsMatch(track)
    /\ \A i \in 1 .. Len(track.lines) - 1 : track.lines[i].start <= track.lines[i + 1].start
=============================================================================
