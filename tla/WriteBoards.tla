----------------------------- MODULE WriteBoards -----------------------------
(***************************************************************************)
(* The timer board and the jump bridge manager (TimerBoard.jsx,            *)
(* JumpBridgeManager.jsx): boards of one page that may be written by a     *)
(* session or, without single sign-on, with the fleet password.  Each has  *)
(* its own input and its own idea of being let in; what the browser        *)
(* remembers (timer_auth) is shared.  The rows of a board are told apart   *)
(* only by whether there are any.                                          *)
(***************************************************************************)
EXTENDS Auth

CONSTANTS Boards,       \* hooks of this page
          Passwords,    \* what an input may hold besides "", "right" among them
          MaxTyping,    \* bound: changes of the inputs
          MaxPending    \* bound: checks, or writes, of a board in flight

VARIABLES board, stored, rows,
          came,         \* history: what was remembered when the page opened
          wire,         \* history: passwords that were sent to be judged
          submitted,    \* history: passwords the pilot submitted or had stored
          typed

historyVars == <<came, wire, submitted>>
boardVars == <<board, stored, rows, historyVars, typed>>

CanWrite(b) == IF SsoEnabled(b) THEN Authorized(b) ELSE board[b].authed

\* The buttons a board shows.
Buttons(b) ==
    LoginButtons(b)
    \union (IF CanWrite(b) THEN {"form"} ELSE {})
    \union (IF ~SsoEnabled(b) /\ board[b].authed THEN {"logout"} ELSE {})
    \union (IF ~SsoEnabled(b) /\ ~board[b].authed /\ board[b].form THEN {"login"} ELSE {})
    \union (IF CanWrite(b) /\ board[b].form THEN {"save"} ELSE {})
    \union (IF ~board[b].list /\ ~board[b].form /\ ~CanWrite(b) THEN {"manage"} ELSE {})
    \union (IF board[b].list /\ CanWrite(b) THEN {"delete"} ELSE {})

\* Mounted: the remembered password is checked, once, and the rows are read.
BoardsInit(mounted) ==
    /\ stored \in {""} \union Passwords /\ came = stored
    /\ rows \in [Boards -> BOOLEAN]
    /\ board = [b \in Boards |->
                  [input |-> stored, authed |-> FALSE, form |-> FALSE, filled |-> FALSE,
                   list |-> FALSE, reading |-> b \in mounted, writes |-> <<>>,
                   checks |-> IF b \in mounted /\ stored # "" THEN <<stored>> ELSE <<>>]]
    /\ submitted = {stored} \ {""} /\ typed = 0
    /\ wire = IF Boards \intersect mounted = {} THEN {} ELSE {stored} \ {""}

HearWho(b, i, answer) == HearMe(b, i, answer) /\ UNCHANGED boardVars
LogoutSession(b) == SsoLogout(b) /\ UNCHANGED boardVars

ReadRows(b) ==
    /\ board[b].reading
    /\ \/ board' = [board EXCEPT ![b].reading = FALSE, ![b].list = rows[b]]
       \/ board' = [board EXCEPT ![b].reading = FALSE]      \* failed
    /\ UNCHANGED <<authVars, stored, rows, historyVars, typed>>

\* The form is opened or put away.
ToggleForm(b) ==
    /\ Buttons(b) \intersect {"form", "manage"} # {}
    /\ "manage" \in Buttons(b) => ~SsoEnabled(b)     \* else it leads to EVE
    /\ board' = [board EXCEPT ![b].form = ~@]
    /\ UNCHANGED <<authVars, stored, rows, historyVars, typed>>

\* Mutant of Type: the effect that checks is keyed on the input.
MutType(b, w) ==
    /\ "login" \in Buttons(b) /\ typed < MaxTyping /\ typed' = typed + 1
    /\ w # board[b].input
    /\ board' = [board EXCEPT ![b].input = w, ![b].checks = Append(@, w)]
    /\ wire' = wire \union {w}
    /\ UNCHANGED <<authVars, stored, rows, came, submitted>>

Type(b, w) ==
    /\ "login" \in Buttons(b) /\ typed < MaxTyping /\ typed' = typed + 1
    /\ w # board[b].input /\ board' = [board EXCEPT ![b].input = w]
    /\ UNCHANGED <<authVars, stored, rows, historyVars>>

\* handleLogin; an empty password is not checked.
Submit(b) ==
    LET w == board[b].input
    IN  /\ "login" \in Buttons(b) /\ w # "" /\ Len(board[b].checks) < MaxPending
        /\ board' = [board EXCEPT ![b].checks = Append(@, w)]
        /\ wire' = wire \union {w} /\ submitted' = submitted \union {w}
        /\ UNCHANGED <<authVars, stored, rows, came, typed>>

\* check_timer_password; the address may be locked out, or the request fail.
Judgements(w) == {"locked", "error"} \union {IF w = "right" THEN "ok" ELSE "invalid"}

\* Mutant of Checked: what is stored is what the input holds by now.
MutChecked(b, i, result) ==
    /\ result \in Judgements(board[b].checks[i])
    /\ board' = [board EXCEPT ![b].checks = RemoveAt(@, i), ![b].authed = result = "ok"]
    /\ stored' = IF result = "ok" THEN board[b].input ELSE stored
    /\ UNCHANGED <<authVars, rows, historyVars, typed>>

\* checkAuth goes on: only what was found right is remembered.
Checked(b, i, result) ==
    /\ result \in Judgements(board[b].checks[i])
    /\ board' = [board EXCEPT ![b].checks = RemoveAt(@, i), ![b].authed = result = "ok"]
    /\ stored' = IF result = "ok" THEN board[b].checks[i] ELSE stored
    /\ UNCHANGED <<authVars, rows, historyVars, typed>>

\* handleLogout
Logout(b) ==
    /\ "logout" \in Buttons(b)
    /\ board' = [board EXCEPT ![b].authed = FALSE, ![b].input = "", ![b].form = FALSE]
    /\ stored' = ""
    /\ UNCHANGED <<authVars, rows, historyVars, typed>>

FillIn(b) ==
    /\ "save" \in Buttons(b) /\ ~board[b].filled
    /\ board' = [board EXCEPT ![b].filled = TRUE]
    /\ UNCHANGED <<authVars, stored, rows, historyVars, typed>>

\* handleAdd, which wants a filled form, and handleDelete, with the session
\* or with what the input holds.
Write(b, kind) ==
    /\ kind \in Buttons(b) /\ (kind = "save" => board[b].filled)
    /\ Len(board[b].writes) < MaxPending
    /\ board' = [board EXCEPT ![b].writes =
                    Append(@, [kind |-> kind, header |-> IF SsoEnabled(b) THEN "" ELSE board[b].input])]
    /\ UNCHANGED <<authVars, stored, rows, historyVars, typed>>

\* The server lets a session or the right password write; the page reads again.
WriteDone(b, i) ==
    LET w == board[b].writes[i]
    IN  /\ session = "member" \/ w.header = "right"
        /\ rows' \in {[rows EXCEPT ![b] = x] : x \in IF w.kind = "save" THEN {TRUE} ELSE BOOLEAN}
        /\ board' = [board EXCEPT ![b].writes = RemoveAt(@, i), ![b].reading = TRUE,
                        ![b].form = @ /\ w.kind = "delete", ![b].filled = @ /\ w.kind = "delete"]
        /\ UNCHANGED <<authVars, stored, historyVars, typed>>

\* 401: the board takes its buttons back and asks who it is.
WriteDenied(b, i) ==
    /\ session # "member" /\ board[b].writes[i].header # "right"
    /\ board' = [board EXCEPT ![b].writes = RemoveAt(@, i), ![b].authed = FALSE]
    /\ Ask(b)
    /\ UNCHANGED <<sso, session, turns, view, stored, rows, historyVars, typed>>

\* Locked out, or any other error: nothing is said.
WriteFails(b, i) ==
    /\ board' = [board EXCEPT ![b].writes = RemoveAt(@, i)]
    /\ UNCHANGED <<authVars, stored, rows, historyVars, typed>>

BoardsNext ==
    \E b \in Boards :
        \/ \E i \in DOMAIN asks[b] : \E a \in {asks[b][i], "failed"} : a # "sent" /\ HearWho(b, i, a)
        \/ LogoutSession(b) \/ ReadRows(b) \/ ToggleForm(b) \/ Submit(b) \/ Logout(b) \/ FillIn(b)
        \/ \E w \in {""} \union Passwords : Type(b, w)
        \/ \E i \in DOMAIN board[b].checks : \E r \in {"ok", "invalid", "locked", "error"} : Checked(b, i, r)
        \/ \E kind \in {"save", "delete"} : Write(b, kind)
        \/ \E i \in DOMAIN board[b].writes : WriteDone(b, i) \/ WriteDenied(b, i) \/ WriteFails(b, i)
=============================================================================
