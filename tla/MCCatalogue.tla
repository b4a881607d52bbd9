---------------------------- MODULE MCCatalogue -----------------------------
(* Two requests at a time; two Apple artists of one name and one of another, *)
(* an album of the one name with a song of the other, and an album of none.  *)
EXTENDS Catalogue, TLC

CONSTANTS r1, r2, b1, b2, s1, x, y, z, n1, n2

MCRequests == {r1, r2}
Symmetry == Permutations(MCRequests)
MCAlbums == {b1, b2}
MCSongs == {s1}
MCAppleArtists == {x, y, z}
MCNames == {n1, n2}
MCStarrable == {b1, s1, x}
MCNameOf == [a \in MCAppleArtists |-> IF a = y THEN n2 ELSE n1]
MCCredit == [i \in MCAlbums \cup MCSongs |-> CASE i = b1 -> n1 [] i = s1 -> n2 [] OTHER -> None]
MCAlbumOf == [t \in MCSongs |-> b1]
MCDiscography == [a \in MCAppleArtists |-> IF a = x THEN {b1} ELSE MCAlbums]
=============================================================================
