----------------------------- MODULE MCAccounts -----------------------------
(* Two requests at once and one name.  The first jar expires while the clock *)
(* runs and may be renewed, the second has a token that is a session cookie, *)
(* the third one that outlives the behaviour.                                *)
EXTENDS Accounts

CONSTANTS h1, h2, p, q

Token(e) == [name |-> "media-user-token", value |-> "t", expires |-> e]
Login == [name |-> "myacinfo", value |-> "a", expires |-> -1]

MCHandlers == {h1, h2}
MCPasswords == {p, q}
MCUploads == {<<Token(1), Login>>, <<Token(-1), Login>>, <<Login, Token(9)>>}
MCRenewed == {<<Login, Token(9)>>}
=============================================================================
