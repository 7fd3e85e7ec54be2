------------------------------- MODULE Tokens -------------------------------
(***************************************************************************)
(* The keys an operator hands out: made, given another expiry, revoked and *)
(* listed over the admin surface (leader/tokens.go), kept in a table whose *)
(* times are whole seconds (store/keys.go), and asked of every request     *)
(* (auth/keys.go), which reads the row, then looks at the clock, then is    *)
(* held to the scope of the route it calls.                                *)
(***************************************************************************)
EXTENDS Integers, FiniteSets

CONSTANTS
  Ids,         \* 1 .. n, given in order
  Callers,
  Routes,      \* name -> the scopes it lets in
  Ticks,       \* ticks of the clock in a second
  Stamps,      \* the moments an operator names
  TTLs,        \* the seconds an operator gives
  MaxTime, MaxEdits

VARIABLES
  rows,      \* the table: id -> row
  req,       \* per caller: its request
  now,       \* the clock, in ticks
  edits,
  meant,     \* history: id -> when its key was last told to end
  ended      \* history: ids revoked

vars == <<rows, req, now, edits, meant, ended>>

\* The zero time: no expiry.
Never == 0
NoRow == [scope |-> "", expiresAt |-> Never, revoked |-> FALSE]
NoReq == [stage |-> "idle", key |-> 0, route |-> "", row |-> NoRow, word |-> Never, good |-> FALSE, bad |-> FALSE]

Init ==
  /\ rows = [i \in {} |-> NoRow] /\ req = [c \in Callers |-> NoReq]
  /\ now = Ticks /\ edits = 0 /\ meant = [i \in {} |-> Never] /\ ended = {}

-----------------------------------------------------------------------------
(* The table's times.                                                      *)

\* Written in whole seconds, rounded down; the zero time as 0.
unixOrZero(t) == IF t = Never THEN 0 ELSE t \div Ticks

\* Read back: anything not past the epoch is no expiry.
scanKey(row) == [row EXCEPT !.expiresAt = IF @ > 0 THEN @ * Ticks ELSE Never]

-----------------------------------------------------------------------------
(* The operator.  A body names a moment, some seconds, both or neither.     *)

Absent == -1
Null == -2
Asks == [at : Stamps \cup {Absent, Null}, ttl : TTLs \cup {Absent}]

\* createToken: the seconds win when above zero; a null is no moment.
ExpiryCreated(ask) ==
  CASE ask.ttl > 0 -> now + ask.ttl * Ticks
    [] ask.ttl <= 0 /\ ask.at >= 0 -> ask.at
    [] OTHER -> Never

Generate(scope, end) == [scope |-> scope, expiresAt |-> unixOrZero(end), revoked |-> FALSE]

createToken(id, scope, ask) ==
  /\ id = Cardinality(DOMAIN rows) + 1
  /\ LET end == ExpiryCreated(ask)
         row == Generate(scope, end)
     IN  /\ rows' = [i \in DOMAIN rows \cup {id} |-> IF i = id THEN row ELSE rows[i]]
         /\ meant' = [i \in DOMAIN rows \cup {id} |-> IF i = id THEN end ELSE meant[i]]
  /\ UNCHANGED <<req, now, edits, ended>>

\* editToken: a body with neither is refused, and one whose only field is a null
\* is such a body: the decoder leaves the pointer nil.  Seconds win; none above
\* zero means no expiry.
ExpiryEdited(ask) ==
  CASE ask.ttl > 0 -> now + ask.ttl * Ticks
    [] ask.ttl = 0 -> Never
    [] OTHER -> ask.at

\* Mutant: the whole row is written, as it was made.
UpdateWhole(id, end) == rows' = [rows EXCEPT ![id].expiresAt = unixOrZero(end), ![id].revoked = FALSE]

UpdateExpiresAt(id, end) == rows' = [rows EXCEPT ![id].expiresAt = unixOrZero(end)]

editToken(id, ask) ==
  /\ id \in DOMAIN rows /\ edits < MaxEdits /\ edits' = edits + 1
  /\ ask.at >= 0 \/ ask.ttl # Absent
  /\ UpdateExpiresAt(id, ExpiryEdited(ask))
  /\ meant' = [meant EXCEPT ![id] = ExpiryEdited(ask)]
  /\ UNCHANGED <<req, now, ended>>

revokeToken(id) ==
  /\ id \in DOMAIN rows /\ rows' = [rows EXCEPT ![id].revoked = TRUE] /\ ended' = ended \cup {id}
  /\ UNCHANGED <<req, now, edits, meant>>

\* What a listing says of a key: its end only if it has one.
List == [i \in DOMAIN rows |-> scanKey(rows[i])]
listTokens == [i \in DOMAIN rows |-> [revoked |-> List[i].revoked, ends |-> List[i].expiresAt # Never]]

-----------------------------------------------------------------------------
(* A request.                                                              *)

\* Whether a key told to end at the moment is in force now; the table cannot
\* tell the moments of its last second.
Lasts(end) == end = Never \/ now + Ticks <= end
Standing(id) == id \in DOMAIN rows /\ id \notin ended

\* MiddlewareFn reads the row of the key the request carries, 0 for none.
Begin(c, key, route) ==
  /\ req[c].stage # "read"
  /\ req' = [req EXCEPT ![c] = [stage |-> IF key \in DOMAIN rows THEN "read" ELSE "refused", key |-> key, route |-> route,
       row |-> IF key \in DOMAIN rows THEN scanKey(rows[key]) ELSE NoRow,
       word |-> IF key \in DOMAIN rows THEN meant[key] ELSE Never,
       good |-> Standing(key), bad |-> ~Standing(key) \/ (meant[key] # Never /\ now > meant[key])]]
  /\ UNCHANGED <<rows, now, edits, meant, ended>>

RequireScopeAny(row, route) == row.scope \in Routes[route]

\* The row it read, the clock as it is now, and the route's scopes.
Judge(c) ==
  /\ req[c].stage = "read"
  /\ LET row == req[c].row
     IN  req' = [req EXCEPT
           ![c].stage = CASE row.revoked \/ (row.expiresAt # Never /\ now > row.expiresAt) -> "refused"
                          [] ~RequireScopeAny(row, req[c].route) -> "forbidden"
                          [] OTHER -> "served",
           ![c].good = @ /\ Lasts(req[c].word)]
  /\ UNCHANGED <<rows, now, edits, meant, ended>>

Tick == now < MaxTime /\ now' = now + 1 /\ UNCHANGED <<rows, req, edits, meant, ended>>

Next ==
  \/ \E id \in Ids, ask \in Asks :
       editToken(id, ask) \/ (\E scope \in {"admin", "user", "node"} : createToken(id, scope, ask))
  \/ \E id \in Ids : revokeToken(id)
  \/ \E c \in Callers : Judge(c) \/ (\E key \in Ids \cup {0}, route \in DOMAIN Routes : Begin(c, key, route))
  \/ Tick

Spec == Init /\ [][Next]_vars

-----------------------------------------------------------------------------
(* Properties                                                              *)

\* A request is served only with a key that was in force when its row was read,
\* by the operator's last word: not revoked, whatever was edited since, not past
\* the moment it was told to end, and with a scope the route lets in; and a key in
\* force then, and still when it is judged, is not refused, but in its last
\* second, which the table rounds away (MiddlewareFn, scanKey, UpdateExpiresAt).
\* A listing says of every key whether it is revoked and whether it ends
\* (listTokens).
KeysObeyTheOperator ==
  /\ \A c \in Callers :
       /\ req[c].stage = "served" => ~req[c].bad /\ RequireScopeAny(req[c].row, req[c].route)
       /\ req[c].stage = "refused" => ~req[c].good
  /\ \A i \in DOMAIN rows :
       /\ listTokens[i].revoked = (i \in ended)
       /\ listTokens[i].ends = (meant[i] # Never)
=============================================================================
