----------------------------- MODULE Management -----------------------------
(***************************************************************************)
(* Cases and computers, as investigators manage them: the pages of the GUI *)
(* (resources/static/js), the requests they send, and what the server does *)
(* with them (http.RaqetService, http.RaqetControl and                     *)
(* database.InvestigationCaseDB).                                          *)
(*                                                                         *)
(* A page is a state of the router with its parameters.  Entering it makes *)
(* a new scope, which fetches what the page shows; an answer fills the     *)
(* object of the scope that asked, even if the user has left it.  A save   *)
(* whose answer is not an HTTP error runs its callback, which goes to a    *)
(* page, wherever the user is by then.  The server answers "Success" or    *)
(* "Failed", neither of which is an HTTP error.                            *)
(*                                                                         *)
(* Cases and computers are directories with an entry: <<c>> is case c, and *)
(* <<c, d>> computer d of it.                                              *)
(***************************************************************************)
EXTENDS Naturals, Sequences, FiniteSets

CONSTANTS
    Users,      \* browsers
    Numbers,    \* of the requests under way at the same time
    Cases,      \* directories of cases
    Computers,  \* directories of computers in a case
    Typed,      \* what users type as the path of a case
    Escaped,    \* the directory each becomes (escapeName)
    Names,      \* names of cases and computers
    Missing,    \* no readable entry
    None,
    FaultSets   \* what may happen in a behaviour

ASSUME ManagementAssumption ==
    /\ Escaped \in [Typed -> Cases]
    /\ Missing \notin Names /\ None \notin Names
    /\ FaultSets \subseteq SUBSET {"concurrent", "database", "crash"}

CaseKeys     == {<<c>> : c \in Cases}
ComputerKeys == {<<c, d>> : c \in Cases, d \in Computers}
Keys         == CaseKeys \cup ComputerKeys
Parent(k)    == SubSeq(k, 1, Len(k) - 1)

Pages == [state : {"start", "cases", "newCase"}, key : {<<>>}]
         \cup [state : {"viewCase", "editCase", "newComputer"}, key : CaseKeys]
         \cup [state : {"viewComputer"}, key : ComputerKeys]

Page(state, k) == [state |-> state, key |-> k]
Home == Page("cases", <<>>)
FormStates == {"newCase", "editCase", "newComputer"}

\* An object that a form edits or a page shows; a form begins with a blank one.
Objects == [key : Keys, name : Names]
Blank   == [key |-> <<>>, name |-> None]

VARIABLES
    faults,    \* the faults of this behaviour
    folders,   \* directories of the case database
    entry,     \* the name in the entry of each
    page,      \* the page each user is on
    target,    \* where a callback goes, until it is there, or None
    object,    \* caseobject or computer of the page's scope
    list,      \* cases or computers of the page's scope
    requests   \* requests on their way, and answers on their way back

database == <<faults, folders, entry>>
browser  == <<page, target, object, list>>
vars     == <<database, browser, requests>>

Init ==
    /\ faults \in FaultSets
    /\ folders = {}
    /\ entry = [k \in Keys |-> Missing]
    /\ page = [u \in Users |-> Page("start", <<>>)]
    /\ target = [u \in Users |-> Home]
    /\ object = [u \in Users |-> Blank]
    /\ list = [u \in Users |-> None]
    /\ requests = {}

Readable == {k \in Keys : entry[k] # Missing}
Stored(k) == [key |-> k, name |-> entry[k]]

Unused == Numbers \ {r.no : r \in requests}

NoAnswer == [status |-> "none", object |-> Blank, list |-> {}]
Answer(status) == [NoAnswer EXCEPT !.status = status]

\* scope: the page that asked is "here", the user has "left" it, or the
\* browser no longer waits for an answer ("gone").
Request(u, n, kind, k, body) ==
    [user |-> u, no |-> n, kind |-> kind, key |-> k, body |-> body,
     scope |-> "here", at |-> "sent", answer |-> NoAnswer]

-----------------------------------------------------------------------------
(* Pages. *)

\* $state.go: the last transition wins; going where one is only cancels it.
Go(u, p) == target' = [target EXCEPT ![u] = IF p = page[u] THEN None ELSE p]

\* What the controller of a page fetches.  The page of a computer also fetches
\* its case, into an object that only its download links use: left out.
Fetches(p) ==
    {f \in {<<"get", p.key>>, <<"query", p.key>>} :
        p.state \in IF f[1] = "get" THEN {"viewCase", "editCase", "viewComputer"}
                    ELSE {"cases", "viewCase"}}

Leaving(u) == {IF r.user = u /\ r.scope = "here"
               THEN [r EXCEPT !.scope = "left"] ELSE r : r \in requests}

\* A page opens: a new scope, a new controller.
EnterKeepingObject(u, p) ==
    /\ page' = [page EXCEPT ![u] = p]
    /\ target' = [target EXCEPT ![u] = None]
    /\ list' = [list EXCEPT ![u] = None]
    /\ requests' = Leaving(u)
    /\ UNCHANGED <<database, object>>
Enter(u, p) ==
    /\ \E n \in [Fetches(p) -> Unused] :
          /\ \A f, g \in DOMAIN n : f # g => n[f] # n[g]
          /\ requests' = Leaving(u) \cup
                {Request(u, n[f], f[1], f[2], Blank) : f \in DOMAIN n}
    /\ page' = [page EXCEPT ![u] = p]
    /\ target' = [target EXCEPT ![u] = None]
    /\ object' = [object EXCEPT ![u] = Blank]
    /\ list' = [list EXCEPT ![u] = None]
    /\ UNCHANGED database

\* The transition in progress is over.
Arrive(u) ==
    /\ target[u] # None
    /\ Enter(u, target[u])

\* The links of a page: home, and what it shows.
Links(u) ==
    {Home}
    \cup (IF page[u].state = "cases" THEN {Page("newCase", <<>>)} ELSE {})
    \cup (IF page[u].state = "cases" /\ list[u] # None
          THEN {Page("viewCase", k) : k \in list[u]} ELSE {})
    \cup (IF page[u].state = "viewCase" /\ object[u] # Blank
          THEN {Page(s, object[u].key) : s \in {"editCase", "newComputer"}}
          ELSE {})
    \cup (IF page[u].state = "viewCase" /\ list[u] # None
          THEN {Page("viewComputer", k) : k \in list[u]} ELSE {})

\* A click starts a transition in place of the one in progress.  What a page
\* links to only grows, so it is taken to be over at once.
Click(u, p) ==
    /\ p \in Links(u) \ {page[u]}
    /\ Enter(u, p)

\* A click on the link to the page one is on.
Stay(u) ==
    /\ page[u] \in Links(u)
    /\ Go(u, page[u])
    /\ UNCHANGED <<database, page, object, list, requests>>

\* addCase, addComputer, updateCase: the user fills in the form (of an edit,
\* which the server ignores, only the name is varied) and submits it.  What
\* is in a form and not submitted reaches nothing.
Submit(u, o) ==
    /\ page[u].state \in FormStates
    /\ o.key \in IF page[u].state = "newCase" THEN {<<Escaped[t]>> : t \in Typed}
                 ELSE IF page[u].state = "editCase" THEN {page[u].key}
                 ELSE {Append(page[u].key, d) : d \in Computers}
    /\ object' = [object EXCEPT ![u] = o]
    /\ \E n \in Unused :
          requests' = requests \cup
             {Request(u, n, IF page[u].state = "editCase" THEN "put" ELSE "post",
                      o.key, o)}
    /\ UNCHANGED <<database, page, target, list>>

DeleteCase(u, k) ==
    /\ page[u].state = "cases"
    /\ list[u] # None
    /\ k \in list[u]
    /\ \E n \in Unused :
          requests' = requests \cup {Request(u, n, "delete", k, Blank)}
    /\ UNCHANGED <<database, browser>>

-----------------------------------------------------------------------------
(* The server. *)

Moved(r, new) == (requests \ {r}) \cup {new}
Answered(r, answer) ==
    Moved(r, [r EXCEPT !.at = "answered", !.answer = answer])

\* Requests run on several threads, in some behaviours one at a time.
MayRun(r) == "concurrent" \in faults \/
             \A q \in requests \ {r} : q.at \notin {"create", "write"}

\* createCase, createComputer: the case of a computer must be readable, a
\* directory that exists is a duplicate.
CheckParentOnly(r) ==
    /\ r.kind = "post" /\ r.at = "sent"
    /\ MayRun(r)
    /\ requests' = IF Len(r.key) = 1 \/ Parent(r.key) \in Readable
                   THEN Moved(r, [r EXCEPT !.at = "create"])
                   ELSE Answered(r, Answer("Failed"))
    /\ UNCHANGED <<database, browser>>
CheckDuplicate(r) ==
    /\ r.kind = "post" /\ r.at = "sent"
    /\ MayRun(r)
    /\ requests' = IF /\ r.key \notin folders
                      /\ Len(r.key) = 1 \/ Parent(r.key) \in Readable
                   THEN Moved(r, [r EXCEPT !.at = "create"])
                   ELSE Answered(r, Answer("Failed"))
    /\ UNCHANGED <<database, browser>>

MakeDirectory(r) ==
    /\ r.at = "create"
    /\ folders' = folders \cup {r.key}
    /\ requests' = Moved(r, [r EXCEPT !.at = "write"])
    /\ UNCHANGED <<faults, entry, browser>>

WriteEntry(r) ==
    /\ r.at = "write"
    /\ entry' = [entry EXCEPT ![r.key] = r.body.name]
    /\ requests' = Answered(r, Answer("Success"))
    /\ UNCHANGED <<faults, folders, browser>>

\* The file is emptied, and not written.
WriteFailsUnnoticed(r) ==
    /\ "database" \in faults
    /\ r.at = "write"
    /\ entry' = [entry EXCEPT ![r.key] = Missing]
    /\ requests' = Answered(r, Answer("Success"))
    /\ UNCHANGED <<faults, folders, browser>>
WriteFails(r) ==
    /\ "database" \in faults
    /\ r.at = "write"
    /\ entry' = [entry EXCEPT ![r.key] = Missing]
    /\ requests' = Answered(r, Answer("Failed"))
    /\ UNCHANGED <<faults, folders, browser>>

\* The entry, if it is readable.
Get(r) ==
    /\ r.kind = "get" /\ r.at = "sent"
    /\ requests' = Answered(r, IF r.key \in Readable
                              THEN [Answer("ok") EXCEPT !.object = Stored(r.key)]
                              ELSE Answer("empty"))
    /\ UNCHANGED <<database, browser>>

\* The readable entries of a directory.
Query(r) ==
    /\ r.kind = "query" /\ r.at = "sent"
    /\ requests' = Answered(r, [Answer("ok") EXCEPT !.list =
                                {k \in Readable : Parent(k) = r.key}])
    /\ UNCHANGED <<database, browser>>

\* Updating and deleting a case are not implemented, and succeed.
NotImplemented(r) ==
    /\ r.kind \in {"put", "delete"} /\ r.at = "sent"
    /\ requests' = Answered(r, Answer("Success"))
    /\ UNCHANGED <<database, browser>>

\* Another client of the interface adds a case or a computer, one at a time.
OtherPost(o) ==
    /\ \A r \in requests : r.user # None
    /\ \E n \in Unused :
          requests' = requests \cup
             {[Request(None, n, "post", o.key, o) EXCEPT !.scope = "gone"]}
    /\ UNCHANGED <<database, browser>>

\* The server is killed and started again; the browsers get an error.
Crash ==
    /\ "crash" \in faults
    /\ requests' = {IF r.at = "answered" THEN r
                    ELSE [r EXCEPT !.at = "answered", !.answer = Answer("Error")]
                       : r \in requests}
    /\ UNCHANGED <<database, browser>>

-----------------------------------------------------------------------------
(* Answers. *)

\* Errors, empty answers, and answers nobody waits for.
ReceiveNothing(r) ==
    /\ r.at = "answered"
    /\ \/ r.scope = "gone"
       \/ r.answer.status \in {"Error", "empty"}
       \/ r.scope = "left" /\ r.kind \in {"get", "query"}
    /\ requests' = requests \ {r}
    /\ UNCHANGED <<database, browser>>

\* The answer fills the object that was returned when the page asked.
ReceiveObjectAnywhere(r) ==
    /\ r.kind = "get" /\ r.at = "answered" /\ r.scope # "gone"
    /\ r.answer.status = "ok"
    /\ object' = [object EXCEPT ![r.user] = r.answer.object]
    /\ requests' = requests \ {r}
    /\ UNCHANGED <<database, page, target, list>>
ReceiveObject(r) ==
    /\ r.kind = "get" /\ r.at = "answered" /\ r.scope = "here"
    /\ r.answer.status = "ok"
    /\ object' = [object EXCEPT ![r.user] = r.answer.object]
    /\ requests' = requests \ {r}
    /\ UNCHANGED <<database, page, target, list>>

ReceiveListAnywhere(r) ==
    /\ r.kind = "query" /\ r.at = "answered" /\ r.scope # "gone"
    /\ r.answer.status = "ok"
    /\ list' = [list EXCEPT ![r.user] = r.answer.list]
    /\ requests' = requests \ {r}
    /\ UNCHANGED <<database, page, target, object>>
ReceiveList(r) ==
    /\ r.kind = "query" /\ r.at = "answered" /\ r.scope = "here"
    /\ r.answer.status = "ok"
    /\ list' = [list EXCEPT ![r.user] = r.answer.list]
    /\ requests' = requests \ {r}
    /\ UNCHANGED <<database, page, target, object>>

\* The answer replaces the fields of the form, and the callback goes to the
\* list of cases, or to the case of the computer.
ReceiveSaved(r) ==
    /\ r.kind \in {"post", "put"} /\ r.at = "answered" /\ r.scope # "gone"
    /\ r.answer.status \in {"Success", "Failed"}
    /\ Go(r.user, IF Len(r.key) = 1 THEN Home
                  ELSE Page("viewCase", Parent(r.key)))
    /\ object' = [object EXCEPT ![r.user] =
                     IF r.scope = "here" THEN Blank ELSE @]
    /\ requests' = requests \ {r}
    /\ UNCHANGED <<database, page, list>>

\* After a delete the application is loaded again.
ReceiveDeleted(r) ==
    LET u == r.user
    IN  /\ r.kind = "delete" /\ r.at = "answered" /\ r.scope # "gone"
        /\ r.answer.status = "Success"
        /\ page' = [page EXCEPT ![u] = Page("start", <<>>)]
        /\ target' = [target EXCEPT ![u] = Home]
        /\ object' = [object EXCEPT ![u] = Blank]
        /\ list' = [list EXCEPT ![u] = None]
        /\ requests' = {IF q.user = u THEN [q EXCEPT !.scope = "gone"] ELSE q
                           : q \in requests \ {r}}
        /\ UNCHANGED database

-----------------------------------------------------------------------------

UserStep(u) ==
    \/ Arrive(u)
    \/ \E p \in Pages : Click(u, p)
    \/ Stay(u)
    \/ \E o \in Objects : Submit(u, o)
    \/ \E k \in CaseKeys : DeleteCase(u, k)

ServerStep(r) ==
    \/ CheckDuplicate(r) \/ MakeDirectory(r) \/ WriteEntry(r) \/ WriteFails(r)
    \/ Get(r) \/ Query(r) \/ NotImplemented(r)

Receive(r) ==
    \/ ReceiveNothing(r) \/ ReceiveObject(r) \/ ReceiveList(r)
    \/ ReceiveSaved(r) \/ ReceiveDeleted(r)

Next ==
    \/ \E u \in Users : UserStep(u)
    \/ \E r \in requests : ServerStep(r) \/ Receive(r)
    \/ \E o \in Objects : OtherPost(o)
    \/ Crash

Spec == Init /\ [][Next]_vars

-----------------------------------------------------------------------------
(* Properties *)

Kinds == {"get", "query", "post", "put", "delete"}

(***************************************************************************)
(* Every variable holds values of its kind; a page that shows no single    *)
(* object has none, and one that shows no list has none.                   *)
(***************************************************************************)
TypeOK ==
    /\ folders \subseteq Keys
    /\ Readable \subseteq folders
    /\ page \in [Users -> Pages]
    /\ target \in [Users -> Pages \cup {None}]
    /\ \A u \in Users :
          /\ object[u] = Blank \/ object[u] \in Objects
          /\ page[u].state \in {"start", "cases"} => object[u] = Blank
          /\ page[u].state \notin {"cases", "viewCase"} => list[u] = None
    /\ \A r \in requests :
          /\ r.user \in Users \cup {None}
          /\ r.kind \in Kinds
          /\ r.key \in Keys \cup {<<>>}
          /\ r.scope \in {"here", "left", "gone"}
          /\ r.at \in {"sent", "create", "write", "answered"}

(***************************************************************************)
(* What a page shows is stored under the address it is shown at: an answer *)
(* that comes after the user went on to another case fills the page he     *)
(* left, never the one he looks at.  (Two requests that create the same    *)
(* case at the same time may replace an entry that is already shown.)      *)
(***************************************************************************)
ShownIsStored ==
    "concurrent" \notin faults =>
        \A u \in Users :
            /\ page[u].state \in {"viewCase", "viewComputer"}
                  /\ object[u] # Blank => object[u] = Stored(page[u].key)
            /\ list[u] # None =>
                  \A k \in list[u] : k \in Readable /\ Parent(k) = page[u].key

(***************************************************************************)
(* A case or computer for which "Success" is on its way back is stored     *)
(* with the name that was given, as long as requests are handled one at a  *)
(* time: the second of two requests for one directory fails.               *)
(***************************************************************************)
SuccessIsStored ==
    "concurrent" \notin faults =>
        \A r \in requests :
            r.kind = "post" /\ r.answer.status = "Success"
                => Stored(r.key) = r.body

(***************************************************************************)
(* A stored case or computer keeps its entry: no later request for its     *)
(* directory, failing or not, and no crash replaces or empties it, as long *)
(* as requests are handled one at a time.  This is about the requests of   *)
(* the pages: the entry of a computer is also rewritten, and emptied on    *)
(* the way, when its client registers (InvestigationCaseDB's update, in    *)
(* ClientRegistration).                                                    *)
(***************************************************************************)
EntriesStay ==
    [][\/ "concurrent" \in faults
       \/ \A k \in Readable : entry'[k] = entry[k]]_vars

(***************************************************************************)
(* "on success go back to home i.e. cases state": the callback of a save   *)
(* runs for a case that was stored.                                        *)
(***************************************************************************)
CallbackOnSuccess ==
    [][\A r \in requests \ requests' :
          r.kind = "post" /\ r.at = "answered" /\ r.scope # "gone"
             /\ r.answer.status # "Error" => Stored(r.key) = r.body]_vars

=============================================================================
