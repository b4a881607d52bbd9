------------------------------ MODULE MCLyrics ------------------------------
(* SongLyrics with a signed-in and a signed-out user, and the parser over    *)
(* every paragraph of up to three strings and every document of up to two    *)
(* lines made from the sets below.                                           *)
EXTENDS Lyrics

CONSTANTS c1, c2

MCCalls == {c1, c2}
MCSigned == {c1}

MCWords == {"la", "öh"}
MCAgentIDs == {"v1", "v2"}
MCKeys == {"L1", "L2"}
MCBytes == [w \in MCWords |-> IF w = "la" THEN 2 ELSE 3]

Str(layer, lead, core, trail, begin, end) ==
  [layer |-> layer, lead |-> lead, core |-> core, trail |-> trail, begin |-> begin, end |-> end]

Times == {<< <<>>, <<>> >>, << <<1>>, <<>> >>, << <<0, 2>>, <<5>> >>, << <<3>>, <<4>> >>}
MCStrings ==
  {Str("main", FALSE, None, FALSE, <<>>, <<>>)} \cup
  {Str("main", lead, w, trail, t[1], t[2]) :
     lead \in BOOLEAN, w \in MCWords, trail \in BOOLEAN, t \in Times}
MCParagraphs == UNION {[1 .. n -> MCStrings] : n \in 0 .. 3}

La(layer, begin) == Str(layer, FALSE, "la", FALSE, begin, <<>>)
Lines ==
  {[key |-> key, agent |-> agent, begin |-> begin, strings |-> strings] :
     key \in {"L1", "L2"}, agent \in {None, "v1", "v2"}, begin \in {<<>>, <<1>>, <<2>>},
     strings \in {<<La("main", <<1>>)>>, <<La("bg", <<1>>)>>,
                  <<La("main", <<>>), La("bg", <<1>>)>>}}
Heads == {<<>>, <<[id |-> "v2", type |-> "group"], [id |-> "v1", type |-> "person"]>>,
          <<[id |-> "v2", type |-> "person"], [id |-> "v2", type |-> "other"]>>}
MCDocuments ==
  {[timing |-> timing, agents |-> head, body |-> body,
    texts |-> <<[key |-> "L1", strings |-> <<La("main", <<2>>)>>]>>] :
     timing \in {"word", "line"}, head \in Heads, body \in UNION {[1 .. n -> Lines] : n \in 1 .. 2}}
=============================================================================
