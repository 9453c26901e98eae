----------------------------- MODULE TokenFile -----------------------------
(***************************************************************************)
(* Sign-in with tokens.  The token file lists who may sign in; the UI      *)
(* keeps it parsed and looks at its stamp (inode, size, times) before each *)
(* use.  A session made with a token is checked against the file on every  *)
(* request.  Meanwhile administrators rewrite the file, with the command   *)
(* rproxy-ui-token (read, then rename) or by hand, in place.               *)
(*                                                                         *)
(* One UI process: it keeps nothing in common with others.  Every write is *)
(* taken to change the stamp.  The length of sessions is left out:         *)
(* SessionOver ends one at any time.                                       *)
(***************************************************************************)
EXTENDS Naturals

CONSTANTS
    Names, Hashes, TokenRoles,
    Editors,    \* administrators at work on the file
    NoRow,
    MaxWrites   \* bound: writes of the file

Rows == [name : Names, sha : Hashes, role : TokenRoles]    \* sub: as the name or as given
Contents == [rows : SUBSET Rows, good : BOOLEAN]

ASSUME TokenAssumption == NoRow \notin Rows /\ MaxWrites \in Nat \ {0}

VARIABLES
    file,       \* contents and stamp of the file
    store,      \* TokenStore: key and loaded rows
    session,     \* the row the browser's session was made with
    ask,      \* the request under way
    edit,       \* the commands under way
    during      \* history: what could be loaded since the request came

tokenVars == <<file, store, session, ask, edit, during>>
-----------------------------------------------------------------------------
\* parseTokensFile and tokenFileModeProblem: one mistake, and no row counts.
Parse(c) ==
    IF c.good /\ \A r, s \in c.rows : r.name = s.name \/ r.sha = s.sha => r = s
    THEN c.rows ELSE {}

\* verify for a sign-in, the tests of checkTokenSession for a session.
Matches(rows, want) ==
    IF ask.kind = "signin" THEN {r \in rows : r.sha = want.sha} ELSE rows \intersect {want}

NoAsk == [pc |-> "idle", kind |-> "session", want |-> NoRow]
StoreStates == [key : 0..MaxWrites, rows : SUBSET Rows]
Asks == [pc : {"idle", "stamp", "read", "decide"}, kind : {"session", "signin"},
           want : Rows \union {NoRow}]
Edits == [cmd : {"none", "new", "remove", "hand"}, row : Rows \union {NoRow},
          seen : SUBSET Rows]
NoEdit == [cmd |-> "none", row |-> NoRow, seen |-> {}]

TokenTypeOK ==
    /\ file \in [content : Contents, stamp : 0..MaxWrites]
    /\ store \in StoreStates
    /\ session \in Rows \union {NoRow}
    /\ ask \in Asks
    /\ edit \in [Editors -> Edits]
    /\ during \in SUBSET SUBSET Rows

\* The file is written: its stamp changes, and the request under way may see it.
Write(c) ==
    /\ file.stamp < MaxWrites
    /\ file' = [content |-> c, stamp |-> file.stamp + 1]
    /\ during' = during \union {Parse(c)}
-----------------------------------------------------------------------------
TokenInit ==
    /\ file \in [content : Contents, stamp : {1}]
    /\ store = [key |-> 0, rows |-> {}]
    /\ session = NoRow
    /\ ask = NoAsk
    /\ edit = [e \in Editors |-> NoEdit]
    /\ during = {}

\* A request with a session, or a token presented for a sign-in.
Ask(kind, want) ==
    /\ ask = NoAsk
    /\ kind = "session" => want = session /\ want # NoRow
    /\ ask' = [pc |-> "stamp", kind |-> kind, want |-> want]
    /\ during' = {Parse(file.content)}
    /\ UNCHANGED <<file, store, session, edit>>

\* Mutant: the file is only looked at while nothing is loaded.
TakeStampOnce ==
    /\ ask.pc = "stamp"
    /\ ask' = [ask EXCEPT !.pc = IF store.rows # {} THEN "decide" ELSE "read"]
    /\ store' = [store EXCEPT !.key = file.stamp]
    /\ UNCHANGED <<file, session, edit, during>>

\* current: the stamp is taken, and kept, before the file is read.
TakeStamp ==
    /\ ask.pc = "stamp"
    /\ ask' = [ask EXCEPT !.pc = IF file.stamp = store.key THEN "decide" ELSE "read"]
    /\ store' = [store EXCEPT !.key = file.stamp]
    /\ UNCHANGED <<file, session, edit, during>>

\* Mutant: what was loaded is kept when the file has a mistake.
ReadInKeeps ==
    /\ ask.pc = "read"
    /\ store' = [store EXCEPT !.rows = IF Parse(file.content) = {} THEN @ ELSE Parse(file.content)]
    /\ ask' = [ask EXCEPT !.pc = "decide"]
    /\ UNCHANGED <<file, session, edit, during>>

\* Its second half.  A file that cannot be used leaves no row loaded.
ReadIn ==
    /\ ask.pc = "read"
    /\ store' = [store EXCEPT !.rows = Parse(file.content)]
    /\ ask' = [ask EXCEPT !.pc = "decide"]
    /\ UNCHANGED <<file, session, edit, during>>

Found == Matches(store.rows, ask.want)

Decide ==
    /\ ask.pc = "decide"
    /\ session' \in IF Found # {} THEN Found
                   ELSE {IF ask.kind = "session" THEN NoRow ELSE session}
    /\ ask' = NoAsk
    /\ UNCHANGED <<file, store, edit, during>>

\* The session is too old, or the user signs out.
SessionOver ==
    /\ ask = NoAsk
    /\ session' = NoRow
    /\ UNCHANGED <<file, store, ask, edit, during>>
-----------------------------------------------------------------------------
\* rproxy-ui-token new and remove: read, check what was read, then rename.
ReadFile(e, cmd, row) ==
    LET c == file.content IN
    /\ edit[e] = NoEdit /\ c.good
    /\ cmd = "new" => \A r \in c.rows : r.name # row.name /\ r.sha # row.sha
    /\ cmd = "remove" => row \in c.rows
    /\ edit' = [edit EXCEPT ![e] = [cmd |-> cmd, row |-> row, seen |-> c.rows]]
    /\ UNCHANGED <<file, store, session, ask, during>>

Rename(e) ==
    LET x == edit[e] IN
    /\ x.cmd \in {"new", "remove"}
    /\ Write([rows |-> IF x.cmd = "new" THEN x.seen \union {x.row} ELSE x.seen \ {x.row},
              good |-> TRUE])
    /\ edit' = [edit EXCEPT ![e] = NoEdit]
    /\ UNCHANGED <<store, session, ask>>

\* By hand, in place: the file is empty or cut off before it is whole again,
\* and may be wrong in the end (also by its owner or its mode).
TruncateFile(e) ==
    /\ edit[e] = NoEdit
    /\ \E part \in SUBSET file.content.rows, ok \in BOOLEAN : Write([rows |-> part, good |-> ok])
    /\ edit' = [edit EXCEPT ![e].cmd = "hand"]
    /\ UNCHANGED <<store, session, ask>>

Finished(e) ==
    /\ edit[e].cmd = "hand"
    /\ \E c \in Contents : Write(c)
    /\ edit' = [edit EXCEPT ![e] = NoEdit]
    /\ UNCHANGED <<store, session, ask>>
-----------------------------------------------------------------------------
EditFile(e) ==
    \/ \E cmd \in {"new", "remove"}, row \in Rows : ReadFile(e, cmd, row)
    \/ Rename(e) \/ TruncateFile(e) \/ Finished(e)

TokenRequest ==
    \/ \E kind \in {"session", "signin"}, want \in Rows : Ask(kind, want)
    \/ TakeStamp \/ ReadIn \/ Decide \/ SessionOver

TokenNext == TokenRequest \/ \E e \in Editors : EditFile(e)

TokenSpec == TokenInit /\ [][TokenNext]_tokenVars
-----------------------------------------------------------------------------
\* The answer to a request is right for the file as it was at some moment of the
\* request: nobody is let in by a row that was gone before he asked (a row of a
\* file with a mistake is gone), nobody is sent away whose row was there all
\* the time (tokenauth.ts:7, :199 and :263).
AnswerWasTrue ==
    ask.pc = "decide" => \E rows \in during : Found = Matches(rows, ask.want)

\* What is loaded is what the file held when it had the stamp that was kept, or
\* something newer; in the latter case the stamp is no longer the file's.
StoreOk ==
    /\ store.key <= file.stamp
    /\ store.key = file.stamp /\ ask.pc # "read" => store.rows = Parse(file.content)

DuringOk ==
    /\ ask.pc # "idle" => Parse(file.content) \in during
    /\ ask.pc = "decide" => store.rows \in during

\* A row that is being added is one.
EditsOk == \A e \in Editors : edit[e].cmd = "new" => edit[e].row \in Rows

TokenInv == TokenTypeOK /\ StoreOk /\ DuringOk /\ EditsOk
=============================================================================
